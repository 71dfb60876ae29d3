------------------------ MODULE ServerProcessProofs --------------------------
(* Proofs about what a process of the server has one of. ServerLifecycle, for   *)
(* any requests and any values of the cap: the slots are exact and returned, a  *)
(* service that shuts down never becomes ready again, and cuts nothing off.     *)
(* WatchMode, for any environments, requests and number of watchers: as long as *)
(* no start overtakes a stop no watcher is left running that nothing refers to, *)
(* and of several edits the last is the one that ends up shown.                 *)
(* MaterializationScheduler, for any packages, schedules, caps and number of    *)
(* sweeps that overlap: no occurrence is lost but to a row that no task works   *)
(* on, and none is run twice but to two sweeps that owe one package at once.    *)
EXTENDS ServerLifecycle, WatchMode, MaterializationScheduler, FiniteSetTheorems, TLAPS

-----------------------------------------------------------------------------
(* ServerLifecycle *)

Held == {r \in Requests : handle[r] = "held"}

Late == {"sdk", "pool", "wait", "exited"}

\* What a shutdown that went past the servers relies on: they closed, and a server
\* that closed has no connection.
LateIsClosed == shutdown \in Late => AllClosed
ClosedIsIdle ==
  \A s \in Servers : server[s] = "closed" =>
    \A r \in Requests : ServerOf(r) = s => ~connection[r]

\* Only a tool looks for its model before it takes a slot.
FoundIsTool == \A r \in Requests : request[r] = "found" => r \in Tools

-----------------------------------------------------------------------------
(* Types *)

LEMMA ServerOfType == ASSUME NEW r \in Requests PROVE ServerOf(r) \in Servers
  BY DEF ServerOf, Servers

LEMMA ReleaseType ==
  ASSUME TypeOK, NEW r \in Requests, Release(r)
  PROVE  /\ active' \in Nat
         /\ handle' \in [Requests -> {"none", "unlimited", "held", "released"}]
  BY DEF TypeOK, Release

LEMMA TryAcquireType ==
  ASSUME TypeOK, NEW r \in Requests,
         NEW then \in {"admitted", "running"}, TryAcquire(r, then)
  PROVE  /\ active' \in Nat
         /\ handle' \in [Requests -> {"none", "unlimited", "held", "released"}]
         /\ request' \in [Requests -> {"new", "admitted", "found", "running", "answered",
                                       "refused"}]
  BY DEF TypeOK, TryAcquire

LEMMA TypeStep == TypeOK /\ [Next]_vars => TypeOK'
<1> SUFFICES ASSUME TypeOK, [Next]_vars PROVE TypeOK'
  OBVIOUS
<1>1. CASE InitializationSucceeds
  BY <1>1 DEF TypeOK, InitializationSucceeds, MarkReady, health, traffic
<1>2. CASE InitializationFails
  BY <1>2 DEF TypeOK, InitializationFails, traffic
<1>3. ASSUME NEW r \in Requests, Arrive(r) PROVE TypeOK'
  <2>1. /\ active' \in Nat
        /\ handle' \in [Requests -> {"none", "unlimited", "held", "released"}]
        /\ request' \in [Requests -> {"new", "admitted", "found", "running", "answered",
                                      "refused"}]
    <3>1. CASE TryAcquire(r, "admitted")
      BY <3>1, TryAcquireType
    <3>2. ASSUME NEW to \in {"refused", "running", "admitted"},
                 request' = [request EXCEPT ![r] = to], UNCHANGED <<active, handle>>
          PROVE  <2>1
      BY <3>2 DEF TypeOK
    <3> QED BY <1>3, <3>1, <3>2 DEF Arrive
  <2> QED BY <1>3, <2>1 DEF TypeOK, Arrive, health
<1>4. ASSUME NEW r \in Requests, LookUp(r) PROVE TypeOK'
  BY <1>4 DEF TypeOK, LookUp, health
<1>5. ASSUME NEW r \in Requests, Execute(r) PROVE TypeOK'
  BY <1>5, TryAcquireType DEF TypeOK, Execute, health
<1>6. ASSUME NEW r \in Requests, Answer(r) PROVE TypeOK'
  BY <1>6, ReleaseType DEF TypeOK, Answer, health
<1>7. ASSUME NEW r \in Requests, Close(r) PROVE TypeOK'
  <2>1. CASE r \in Queries
    BY <1>7, <2>1, ReleaseType DEF TypeOK, Close, health
  <2>2. CASE r \notin Queries
    BY <1>7, <2>2 DEF TypeOK, Close, health
  <2> QED BY <2>1, <2>2
<1>8. CASE Reconfigure
  BY <1>8 DEF TypeOK, Reconfigure, health, traffic
<1>9. ASSUME NEW rss, Tick(rss) PROVE TypeOK'
  BY <1>9 DEF TypeOK, Tick, health, traffic
<1>10. CASE SigTerm
  BY <1>10 DEF TypeOK, SigTerm, traffic
<1>11. CASE DrainEnds
  BY <1>11 DEF TypeOK, DrainEnds, traffic
<1>12. ASSUME NEW s \in Servers, ServerClosed(s) PROVE TypeOK'
  BY <1>12 DEF TypeOK, ServerClosed, health, traffic
<1>13. CASE ShutdownStep
  BY <1>13 DEF TypeOK, ShutdownStep, health, traffic
<1>14. CASE UNCHANGED vars
  BY <1>14 DEF TypeOK, vars
<1> QED
  BY <1>1, <1>2, <1>3, <1>4, <1>5, <1>6, <1>7, <1>8, <1>9, <1>10, <1>11, <1>12, <1>13, <1>14
     DEF Next

\* Every variable of the process stays in its range (ServerLifecycle).
THEOREM ServerTypeCorrect == Spec => []TypeOK
<1>1. Init => TypeOK
  <2> SUFFICES ASSUME Init PROVE TypeOK
    OBVIOUS
  <2>1. connection \in [Requests -> BOOLEAN]
    BY DEF Init
  <2>2. /\ active \in Nat
        /\ handle \in [Requests -> {"none", "unlimited", "held", "released"}]
        /\ request \in [Requests -> {"new", "admitted", "found", "running", "answered",
                                     "refused"}]
        /\ server \in [Servers -> {"accepting", "closing", "closed"}]
    BY DEF Init
  <2> QED BY <2>1, <2>2 DEF Init, TypeOK
<1> QED BY <1>1, TypeStep, PTL DEF Spec

-----------------------------------------------------------------------------
(* Readiness *)

\* A service that is shutting down does not become ready again, also when its
\* initialisation ends after the signal (markReady, registerSignalHandlers).
THEOREM ShuttingDownIsNotReady == Spec => []NeverReadyAgain
<1>1. Init => NeverReadyAgain
  BY DEF Init, NeverReadyAgain
<1>2. TypeOK /\ NeverReadyAgain /\ [Next]_vars => NeverReadyAgain'
  <2> SUFFICES ASSUME TypeOK, NeverReadyAgain, [Next]_vars PROVE NeverReadyAgain'
    OBVIOUS
  <2>1. CASE InitializationSucceeds
    BY <2>1 DEF TypeOK, NeverReadyAgain, InitializationSucceeds, MarkReady, health
  <2>2. CASE InitializationFails
    BY <2>2 DEF TypeOK, NeverReadyAgain, InitializationFails
  <2>3. CASE SigTerm
    BY <2>3 DEF NeverReadyAgain, SigTerm
  <2>4. CASE DrainEnds
    BY <2>4 DEF TypeOK, NeverReadyAgain, DrainEnds
  <2>5. CASE ShutdownStep
    BY <2>5 DEF TypeOK, NeverReadyAgain, ShutdownStep, health
  <2>6. CASE UNCHANGED <<operationalState, ready, shutdown>>
    BY <2>6 DEF NeverReadyAgain
  <2> QED
    BY <2>1, <2>2, <2>3, <2>4, <2>5, <2>6
       DEF Next, Arrive, LookUp, Execute, Answer, Close, Reconfigure, Tick, ServerClosed,
           health, vars
<1> QED BY <1>1, <1>2, ServerTypeCorrect, PTL DEF Spec

-----------------------------------------------------------------------------
(* Connections *)

\* The load pool and the process are shut down only when no response is under way
\* on either server (performGracefulShutdownAfterDrain).
THEOREM ShutdownCutsNothingOff == Spec => []NothingIsCutOff
<1> DEFINE IInv == LateIsClosed /\ ClosedIsIdle
<1>1. Init => IInv
  BY DEF Init, LateIsClosed, ClosedIsIdle, Late
<1>2. TypeOK /\ IInv /\ [Next]_vars => IInv'
  <2> SUFFICES ASSUME TypeOK, IInv, [Next]_vars PROVE IInv'
    OBVIOUS
  <2>1. ASSUME NEW r \in Requests, Arrive(r) PROVE IInv'
    <3>1. server[ServerOf(r)] # "closed"
      BY <2>1 DEF Arrive, Reaches
    <3>2. ClosedIsIdle'
      BY <2>1, <3>1 DEF TypeOK, ClosedIsIdle, Arrive
    <3> QED BY <2>1, <3>2 DEF LateIsClosed, AllClosed, Arrive
  <2>2. ASSUME NEW r \in Requests, Close(r) PROVE IInv'
    BY <2>2 DEF TypeOK, LateIsClosed, AllClosed, ClosedIsIdle, Close
  <2>3. CASE DrainEnds
    BY <2>3 DEF DrainEnds, LateIsClosed, ClosedIsIdle, Late, Servers
  <2>4. ASSUME NEW s \in Servers, ServerClosed(s) PROVE IInv'
    BY <2>4 DEF TypeOK, ServerClosed, LateIsClosed, AllClosed, ClosedIsIdle, Late, traffic
  <2>5. CASE ShutdownStep
    BY <2>5 DEF ShutdownStep, LateIsClosed, AllClosed, ClosedIsIdle, Late, traffic
  <2>6. CASE SigTerm
    BY <2>6 DEF SigTerm, LateIsClosed, AllClosed, ClosedIsIdle, Late, traffic
  <2>7. CASE UNCHANGED <<connection, server, shutdown>>
    BY <2>7 DEF LateIsClosed, AllClosed, ClosedIsIdle
  <2> QED
    BY <2>1, <2>2, <2>3, <2>4, <2>5, <2>6, <2>7
       DEF Next, InitializationSucceeds, InitializationFails, LookUp, Execute, Answer,
           Reconfigure, Tick, traffic, vars
<1>3. IInv => NothingIsCutOff
  BY ServerOfType DEF LateIsClosed, AllClosed, ClosedIsIdle, NothingIsCutOff, Late
<1> QED BY <1>1, <1>2, <1>3, ServerTypeCorrect, PTL DEF Spec

-----------------------------------------------------------------------------
(* Slots *)

LEMMA HeldIsFinite == IsFiniteSet(Held) /\ Cardinality(Held) \in Nat
  BY RequestsAssumption, FS_Subset, FS_CardinalityType DEF Held

LEMMA ReleaseIsExact ==
  ASSUME TypeOK, SlotsAreExact, NEW r \in Requests, Release(r)
  PROVE  SlotsAreExact' /\ handle'[r] # "held" /\ Held' \subseteq Held
<1>1. CASE handle[r] = "held"
  <2>1. Held' = Held \ {r} /\ r \in Held
    BY <1>1 DEF TypeOK, Release, Held
  <2>2. Cardinality(Held') = Cardinality(Held) - 1
    BY <2>1, HeldIsFinite, FS_RemoveElement
  <2>3. Cardinality(Held) # 0
    BY <2>1, HeldIsFinite, FS_EmptySet
  <2>4. active = Cardinality(Held)
    BY DEF SlotsAreExact, Held
  <2>5. active' = Cardinality(Held')
    BY <1>1, <2>2, <2>3, <2>4, HeldIsFinite DEF Release
  <2> QED BY <2>1, <2>5, <1>1 DEF SlotsAreExact, Held, TypeOK, Release
<1>2. CASE handle[r] # "held"
  <2>1. UNCHANGED <<active, handle>>
    BY <1>2 DEF TypeOK, Release
  <2> QED BY <1>2, <2>1 DEF SlotsAreExact, Held
<1> QED BY <1>1, <1>2

LEMMA TryAcquireIsExact ==
  ASSUME TypeOK, SlotsAreExact, NEW r \in Requests, handle[r] # "held",
         NEW then, TryAcquire(r, then)
  PROVE  SlotsAreExact' /\ Held' \subseteq Held \cup {r}
<1>1. CASE handle' = [handle EXCEPT ![r] = "held"] /\ active' = active + 1
  <2>1. Held' = Held \cup {r} /\ r \notin Held
    BY <1>1 DEF TypeOK, Held
  <2>2. Cardinality(Held') = Cardinality(Held) + 1
    BY <2>1, HeldIsFinite, FS_AddElement
  <2> QED BY <1>1, <2>1, <2>2 DEF SlotsAreExact, Held
<1>2. CASE UNCHANGED active /\ handle' = [handle EXCEPT ![r] = "unlimited"]
  <2>1. Held' = Held
    BY <1>2 DEF TypeOK, Held
  <2> QED BY <1>2, <2>1 DEF SlotsAreExact, Held
<1>3. CASE UNCHANGED <<active, handle>>
  BY <1>3 DEF SlotsAreExact, Held
<1> QED BY <1>1, <1>2, <1>3 DEF TryAcquire

\* A request takes a slot at most once: it has none when it asks for one.
NoSlotYet ==
  \A r \in Requests :
    request[r] \in {"new", "found"} \/ (request[r] = "admitted" /\ r \in Tools)
      => handle[r] = "none"

\* What the slots rely on.
SlotInv == SlotsAreExact /\ SlotsAreReturned /\ FoundIsTool /\ NoSlotYet

LEMMA SlotStep == TypeOK /\ SlotInv /\ [Next]_vars => SlotInv'
<1> SUFFICES ASSUME TypeOK, SlotInv, [Next]_vars PROVE SlotInv'
  OBVIOUS
<1>1. ASSUME NEW r \in Requests, Arrive(r) PROVE SlotInv'
  <2>1. /\ request[r] = "new" /\ handle[r] = "none"
        /\ connection' = [connection EXCEPT ![r] = TRUE]
    BY <1>1 DEF Arrive, SlotInv, NoSlotYet
  <2>2. CASE r \in Queries /\ TryAcquire(r, "admitted")
    <3>1. SlotsAreExact' /\ Held' \subseteq Held \cup {r}
      BY <2>1, <2>2, TryAcquireIsExact DEF SlotInv
    <3>2. /\ r \notin Tools
          /\ \E to \in {"admitted", "refused"} : request' = [request EXCEPT ![r] = to]
          /\ \A q \in Requests : q # r => handle'[q] = handle[q]
      BY <2>2, RequestsAssumption DEF TryAcquire, TypeOK
    <3>3. SlotsAreReturned'
      BY <2>1, <2>2, <3>1, <3>2 DEF TypeOK, SlotInv, SlotsAreReturned, Held
    <3>4. FoundIsTool' /\ NoSlotYet'
      BY <3>2 DEF TypeOK, SlotInv, FoundIsTool, NoSlotYet
    <3> QED BY <3>1, <3>3, <3>4 DEF SlotInv
  <2>3. ASSUME NEW to \in {"refused", "running", "admitted"},
               to = "admitted" => r \in Tools,
               request' = [request EXCEPT ![r] = to], UNCHANGED <<active, handle>>
        PROVE  SlotInv'
    <3>1. SlotsAreExact'
      BY <2>3 DEF SlotInv, SlotsAreExact
    <3>2. SlotsAreReturned'
      BY <2>1, <2>3 DEF TypeOK, SlotInv, SlotsAreReturned
    <3>3. FoundIsTool' /\ NoSlotYet'
      BY <2>1, <2>3 DEF TypeOK, SlotInv, FoundIsTool, NoSlotYet
    <3> QED BY <3>1, <3>2, <3>3 DEF SlotInv
  <2> QED BY <1>1, <2>2, <2>3 DEF Arrive
<1>2. ASSUME NEW r \in Requests, LookUp(r) PROVE SlotInv'
  <2>1. SlotsAreExact'
    BY <1>2 DEF LookUp, SlotInv, SlotsAreExact
  <2>2. SlotsAreReturned'
    BY <1>2 DEF TypeOK, LookUp, SlotInv, SlotsAreReturned
  <2>3. FoundIsTool' /\ NoSlotYet'
    BY <1>2 DEF TypeOK, LookUp, SlotInv, FoundIsTool, NoSlotYet
  <2> QED BY <2>1, <2>2, <2>3 DEF SlotInv
<1>3. ASSUME NEW r \in Requests, Execute(r) PROVE SlotInv'
  <2>1. r \in Tools /\ r \notin Queries /\ handle[r] = "none"
    BY <1>3, RequestsAssumption DEF Execute, SlotInv, FoundIsTool, NoSlotYet
  <2>2. SlotsAreExact' /\ Held' \subseteq Held \cup {r}
    BY <1>3, <2>1, TryAcquireIsExact DEF Execute, SlotInv
  <2>3. /\ \E to \in {"running", "refused"} : request' = [request EXCEPT ![r] = to]
        /\ \A q \in Requests : q # r => handle'[q] = handle[q]
    BY <1>3 DEF Execute, TryAcquire, TypeOK
  <2>4. SlotsAreReturned'
    BY <1>3, <2>1, <2>2, <2>3 DEF TypeOK, Execute, SlotInv, SlotsAreReturned, Held
  <2>5. FoundIsTool' /\ NoSlotYet'
    BY <2>3 DEF TypeOK, SlotInv, FoundIsTool, NoSlotYet
  <2> QED BY <2>2, <2>4, <2>5 DEF SlotInv
<1>4. ASSUME NEW r \in Requests, Answer(r) PROVE SlotInv'
  <2>1. SlotsAreExact' /\ handle'[r] # "held" /\ Held' \subseteq Held
    BY <1>4, ReleaseIsExact DEF Answer, SlotInv
  <2>2. \A q \in Requests : q # r => handle'[q] = handle[q]
    BY <1>4 DEF Answer, Release, TypeOK
  <2>3. SlotsAreReturned'
    BY <1>4, <2>1, <2>2 DEF TypeOK, Answer, SlotInv, SlotsAreReturned
  <2>4. FoundIsTool' /\ NoSlotYet'
    BY <1>4, <2>2 DEF TypeOK, Answer, SlotInv, FoundIsTool, NoSlotYet
  <2> QED BY <2>1, <2>3, <2>4 DEF SlotInv
<1>5. ASSUME NEW r \in Requests, Close(r) PROVE SlotInv'
  <2>1. CASE r \in Queries
    <3>1. SlotsAreExact' /\ handle'[r] # "held" /\ Held' \subseteq Held
      BY <1>5, <2>1, ReleaseIsExact DEF Close, SlotInv
    <3>2. /\ handle[r] = "none" => handle'[r] = "none"
          /\ \A q \in Requests : q # r => handle'[q] = handle[q]
      BY <1>5, <2>1 DEF Close, Release, TypeOK
    <3>3. SlotsAreReturned'
      BY <1>5, <3>1, <3>2 DEF TypeOK, Close, SlotInv, SlotsAreReturned
    <3>4. FoundIsTool' /\ NoSlotYet'
      BY <1>5, <3>2 DEF TypeOK, Close, SlotInv, FoundIsTool, NoSlotYet
    <3> QED BY <3>1, <3>3, <3>4 DEF SlotInv
  <2>2. CASE r \notin Queries
    <3>1. SlotsAreExact' /\ FoundIsTool' /\ NoSlotYet'
      BY <1>5, <2>2 DEF Close, SlotInv, SlotsAreExact, FoundIsTool, NoSlotYet
    <3>2. SlotsAreReturned'
      BY <1>5, <2>2 DEF TypeOK, Close, SlotInv, SlotsAreReturned
    <3> QED BY <3>1, <3>2 DEF SlotInv
  <2> QED BY <2>1, <2>2
<1>6. CASE UNCHANGED traffic
  BY <1>6 DEF traffic, SlotInv, SlotsAreExact, SlotsAreReturned, FoundIsTool, NoSlotYet
<1> QED
  BY <1>1, <1>2, <1>3, <1>4, <1>5, <1>6
     DEF Next, InitializationSucceeds, InitializationFails, Reconfigure, Tick, SigTerm,
         DrainEnds, ServerClosed, ShutdownStep, vars, traffic

LEMMA SlotInvHolds == Spec => []SlotInv
<1>1. Init => SlotInv
  <2> SUFFICES ASSUME Init PROVE SlotInv
    OBVIOUS
  <2>1. {r \in Requests : handle[r] = "held"} = {}
    BY DEF Init
  <2>2. SlotsAreExact
    BY <2>1, FS_EmptySet DEF Init, SlotsAreExact
  <2> QED BY <2>2 DEF Init, SlotInv, SlotsAreReturned, FoundIsTool, NoSlotYet
<1> QED BY <1>1, SlotStep, ServerTypeCorrect, PTL DEF Spec

\* The counter of slots is the number of requests that hold one, whatever the order
\* of finish, close and changes of the cap (tryAcquireQuerySlot, release).
THEOREM SlotsStayExact == Spec => []SlotsAreExact
<1>1. SlotInv => SlotsAreExact
  BY DEF SlotInv
<1> QED BY <1>1, SlotInvHolds, PTL

\* No slot outlives its request (queryConcurrencyMiddleware, the finally of the tools).
THEOREM SlotsComeBack == Spec => []SlotsAreReturned
<1>1. SlotInv => SlotsAreReturned
  BY DEF SlotInv
<1> QED BY <1>1, SlotInvHolds, PTL

-----------------------------------------------------------------------------
(* WatchMode: starts and stops *)

Ids == 0 .. Len(watched)
Starting == [pc : {"idle", "queued", "lookup", "close"}, env : Envs \cup {None},
             closes : Ids]

\* Types of what the starts and stops keep; a watcher that is named has been made.
ControlType ==
  /\ watched \in Seq(Envs)
  /\ watcher \in Ids
  /\ open \subseteq Ids \ {0}
  /\ chain \in Seq(Starters)
  /\ start \in [Starters -> Starting]
  /\ stop \in [Stoppers -> [pc : {"idle", "close"}, closes : Ids]]
  /\ overtaken \in BOOLEAN

\* A start in progress waits in the chain, for an environment.
InProgressIsQueued ==
  \A s \in Starters :
    start[s].pc # "idle" => start[s].env \in Envs /\ \E i \in 1 .. Len(chain) : chain[i] = s

\* The start that runs is the first of the chain, so there is one.
Running(s) == start[s].pc \in {"lookup", "close"}
RunningIsFirst == \A s \in Starters : Running(s) => Head(chain) = s

\* What a start has closed, before it makes the next watcher, was the only one.
ClosedIsAlone ==
  ~overtaken => \A s \in Starters : start[s].pc = "close" => open = {}

\* What a stop is closing is closed, and no watcher gets its name.
StoppedIsClosed ==
  \A s \in Stoppers : stop[s].pc = "close" => stop[s].closes \notin open

IInv ==
  /\ ControlType
  /\ InProgressIsQueued
  /\ RunningIsFirst
  /\ ClosedIsAlone
  /\ StoppedIsClosed
  /\ NoOrphan

-----------------------------------------------------------------------------
(* Starts *)

LEMMA SomeoneIsFirst ==
  ASSUME IInv, NEW s \in Starters, start[s].pc # "idle"
  PROVE  chain # <<>> /\ start[s].env \in Envs
  BY DEF IInv, ControlType, InProgressIsQueued

\* When the first start leaves the chain, none runs.
LEMMA LeaveFields ==
  ASSUME IInv, NEW s \in Starters, start[s].pc # "idle", Head(chain) = s, Leave(s)
  PROVE  /\ chain' \in Seq(Starters)
         /\ start' \in [Starters -> Starting]
         /\ \A q \in Starters : start'[q].pc \notin {"lookup", "close"}
         /\ InProgressIsQueued'
<1>1. chain \in Seq(Starters) /\ chain # <<>>
  BY SomeoneIsFirst DEF IInv, ControlType
<1>2. chain' = Tail(chain) /\ chain' \in Seq(Starters) /\ Len(chain') = Len(chain) - 1
  BY <1>1 DEF Leave
<1>3. \A i \in 2 .. Len(chain) : i - 1 \in 1 .. Len(chain') /\ chain'[i - 1] = chain[i]
  BY <1>1, <1>2
<1>4. /\ start' \in [Starters -> Starting] /\ start'[s].pc = "idle"
      /\ \A q \in Starters : q # s => start'[q] = start[q]
  BY DEF IInv, ControlType, Leave, Starting, Ids
<1>5. \A q \in Starters : start'[q].pc \notin {"lookup", "close"}
  BY <1>4 DEF IInv, RunningIsFirst, Running
<1>6. ASSUME NEW q \in Starters, start'[q].pc # "idle"
      PROVE  start'[q].env \in Envs /\ \E i \in 1 .. Len(chain') : chain'[i] = q
  <2>1. q # s /\ start'[q] = start[q]
    BY <1>4, <1>6
  <2>2. start[q].env \in Envs
    BY <1>6, <2>1 DEF IInv, InProgressIsQueued
  <2>3. PICK i \in 1 .. Len(chain) : chain[i] = q
    BY <1>6, <2>1 DEF IInv, InProgressIsQueued
  <2>4. i # 1
    BY <1>1, <2>1, <2>3
  <2>5. i \in 2 .. Len(chain)
    BY <1>1, <2>3, <2>4
  <2> QED BY <1>3, <2>1, <2>2, <2>3, <2>5
<1> QED BY <1>2, <1>4, <1>5, <1>6 DEF InProgressIsQueued

\* A start that leaves without a watcher changes nothing else.
LEMMA LeaveStep ==
  ASSUME IInv, NEW s \in Starters, start[s].pc # "idle", Head(chain) = s, Leave(s),
         UNCHANGED <<watcher, watched, open, stop, overtaken>>
  PROVE  IInv'
<1>1. ControlType' /\ InProgressIsQueued'
  BY LeaveFields DEF IInv, ControlType, Ids, Starting
<1>2. RunningIsFirst' /\ ClosedIsAlone'
  BY LeaveFields DEF RunningIsFirst, Running, ClosedIsAlone
<1>3. StoppedIsClosed' /\ NoOrphan'
  BY DEF IInv, StoppedIsClosed, NoOrphan
<1> QED BY <1>1, <1>2, <1>3 DEF IInv

\* A start that makes its watcher makes the only one.
LEMMA StartStep ==
  ASSUME IInv, NEW s \in Starters, Running(s), ~overtaken => open = {},
         StartWatcher(start[s].env), Leave(s), UNCHANGED <<stop, overtaken>>
  PROVE  IInv'
<1> DEFINE new == Len(watched) + 1
<1>1. /\ start[s].env \in Envs /\ start[s].pc # "idle" /\ Head(chain) = s
      /\ watched \in Seq(Envs) /\ Len(watched) \in Nat
  BY SomeoneIsFirst DEF IInv, ControlType, Running, RunningIsFirst
<1>2. watched' \in Seq(Envs) /\ Len(watched') = new
  BY <1>1 DEF StartWatcher
<1>3. open' = open \cup {new} /\ watcher' = new
  BY DEF StartWatcher
<1>4. Ids \subseteq Ids' /\ new \in Ids' /\ new # 0 /\ new \notin Ids
  BY <1>1, <1>2 DEF Ids
<1>5. /\ chain' \in Seq(Starters) /\ InProgressIsQueued'
      /\ \A q \in Starters : start'[q].pc \notin {"lookup", "close"}
      /\ start' \in [Starters -> Starting]
  BY <1>1, LeaveFields
<1>6. Starting \subseteq Starting'
  BY <1>4 DEF Starting
<1>7. stop' \in [Stoppers -> [pc : {"idle", "close"}, closes : Ids']]
  BY <1>4 DEF IInv, ControlType
<1>8. start' \in [Starters -> Starting']
  BY <1>5, <1>6
<1>9. open' \subseteq Ids' \ {0}
  BY <1>3, <1>4 DEF IInv, ControlType
<1>10. ControlType'
  BY <1>2, <1>3, <1>4, <1>5, <1>7, <1>8, <1>9 DEF IInv, ControlType
<1>11. RunningIsFirst' /\ ClosedIsAlone'
  BY <1>5 DEF RunningIsFirst, Running, ClosedIsAlone
<1>12. StoppedIsClosed'
  BY <1>3, <1>4 DEF IInv, ControlType, StoppedIsClosed
<1>13. NoOrphan'
  BY <1>3 DEF NoOrphan
<1> QED BY <1>5, <1>10, <1>11, <1>12, <1>13 DEF IInv

-----------------------------------------------------------------------------

LEMMA IInvStep == IInv /\ [WatchNext]_watchVars => IInv'
<1> SUFFICES ASSUME IInv, [WatchNext]_watchVars PROVE IInv'
  OBVIOUS
<1>1. ASSUME NEW s \in Starters, NEW env \in Envs, EnsureWatching(s, env) PROVE IInv'
  <2>1. /\ chain' = Append(chain, s) /\ UNCHANGED <<watcher, watched, open, stop, overtaken>>
        /\ start' = [start EXCEPT ![s] = [pc |-> "queued", env |-> env, closes |-> 0]]
    BY <1>1 DEF EnsureWatching
  <2>2. /\ chain' \in Seq(Starters) /\ Len(chain') = Len(chain) + 1 /\ chain'[Len(chain')] = s
        /\ \A i \in 1 .. Len(chain) : chain'[i] = chain[i]
        /\ Len(chain) \in Nat
    BY <2>1 DEF IInv, ControlType
  <2>3. /\ start' \in [Starters -> Starting] /\ start'[s].pc = "queued" /\ start'[s].env = env
        /\ \A q \in Starters : q # s => start'[q] = start[q]
    BY <2>1 DEF IInv, ControlType, Starting, Ids
  <2>4. ControlType'
    BY <2>1, <2>2, <2>3 DEF IInv, ControlType, Ids, Starting
  <2>5. InProgressIsQueued'
    BY <2>2, <2>3 DEF IInv, InProgressIsQueued
  <2>6. ASSUME NEW q \in Starters, Running(q)' PROVE Head(chain') = q
    <3>1. q # s /\ Running(q)
      BY <2>3, <2>6 DEF Running
    <3>2. chain # <<>> /\ Head(chain) = q
      BY <3>1, SomeoneIsFirst DEF IInv, RunningIsFirst, Running
    <3> QED BY <2>1, <3>2 DEF IInv, ControlType
  <2>7. ClosedIsAlone' /\ StoppedIsClosed' /\ NoOrphan'
    BY <2>1, <2>3 DEF IInv, ClosedIsAlone, StoppedIsClosed, NoOrphan
  <2> QED BY <2>4, <2>5, <2>6, <2>7 DEF IInv, RunningIsFirst
<1>2. ASSUME NEW s \in Starters, Check(s) PROVE IInv'
  <2>1. /\ UNCHANGED <<watcher, watched, open, stop, overtaken>> /\ start[s].pc = "queued"
        /\ Head(chain) = s
    BY <1>2 DEF Check, MyTurn
  <2>2. CASE Leave(s)
    BY <2>1, <2>2, LeaveStep
  <2>3. CASE start' = [start EXCEPT ![s].pc = "lookup"] /\ UNCHANGED chain
    <3>1. /\ start' \in [Starters -> Starting]
          /\ start'[s].pc = "lookup" /\ start'[s].env = start[s].env
          /\ \A q \in Starters : q # s => start'[q] = start[q]
      BY <2>3 DEF IInv, ControlType, Starting
    <3>2. ControlType'
      BY <2>1, <2>3, <3>1 DEF IInv, ControlType, Ids, Starting
    <3>3. InProgressIsQueued'
      BY <2>1, <2>3, <3>1 DEF IInv, InProgressIsQueued
    <3>4. RunningIsFirst' /\ ClosedIsAlone'
      BY <2>1, <2>3, <3>1 DEF IInv, RunningIsFirst, Running, ClosedIsAlone
    <3>5. StoppedIsClosed' /\ NoOrphan'
      BY <2>1 DEF IInv, StoppedIsClosed, NoOrphan
    <3> QED BY <3>2, <3>3, <3>4, <3>5 DEF IInv
  <2> QED BY <1>2, <2>2, <2>3 DEF Check
<1>3. ASSUME NEW s \in Starters, Found(s) PROVE IInv'
  <2>1. start[s].pc = "lookup" /\ UNCHANGED <<stop, overtaken>> /\ Running(s)
    BY <1>3 DEF Found, Running
  <2>2. CASE watcher # 0
    <3>1. /\ start' = [start EXCEPT ![s].pc = "close", ![s].closes = watcher]
          /\ open' = open \ {watcher} /\ UNCHANGED <<watcher, watched, chain>>
      BY <1>3, <2>2 DEF Found, CloseWatcher
    <3>2. /\ start' \in [Starters -> Starting]
          /\ start'[s].pc = "close" /\ start'[s].env = start[s].env
          /\ \A q \in Starters : q # s => start'[q] = start[q]
      <4> DEFINE closing == [start[s] EXCEPT !.pc = "close", !.closes = watcher]
      <4>1. closing \in Starting /\ closing.pc = "close" /\ closing.env = start[s].env
        BY DEF IInv, ControlType, Starting
      <4>2. start' = [start EXCEPT ![s] = closing]
        BY <3>1
      <4> HIDE DEF closing
      <4> QED BY <4>1, <4>2 DEF IInv, ControlType
    <3>3. ControlType'
      BY <2>1, <3>1, <3>2 DEF IInv, ControlType, Ids, Starting
    <3>4. InProgressIsQueued' /\ RunningIsFirst'
      BY <2>1, <3>1, <3>2 DEF IInv, InProgressIsQueued, RunningIsFirst, Running
    <3>5. ~overtaken => open' = {}
      BY <3>1 DEF IInv, NoOrphan
    <3>6. ClosedIsAlone' /\ StoppedIsClosed' /\ NoOrphan'
      BY <2>1, <3>1, <3>5 DEF IInv, ClosedIsAlone, StoppedIsClosed, NoOrphan
    <3> QED BY <3>3, <3>4, <3>6 DEF IInv
  <2>3. CASE watcher = 0
    <3>1. ~overtaken => open = {}
      BY <2>3 DEF IInv, ControlType, NoOrphan
    <3> QED BY <1>3, <2>1, <2>3, <3>1, StartStep DEF Found
  <2> QED BY <2>2, <2>3
<1>4. ASSUME NEW s \in Starters, NotFound(s) PROVE IInv'
  <2>1. start[s].pc # "idle" /\ Head(chain) = s
    BY <1>4 DEF NotFound, IInv, RunningIsFirst, Running
  <2> QED BY <1>4, <2>1, LeaveStep DEF NotFound
<1>5. ASSUME NEW s \in Starters, Replace(s) PROVE IInv'
  <2>1. Running(s) /\ (~overtaken => open = {})
    BY <1>5 DEF Replace, Running, IInv, ClosedIsAlone
  <2> QED BY <1>5, <2>1, StartStep DEF Replace
<1>6. ASSUME NEW s \in Stoppers, StopWatchMode(s) PROVE IInv'
  <2>1. UNCHANGED <<watcher, watched, chain, start, overtaken>> /\ open' \subseteq open
    BY <1>6 DEF StopWatchMode, CloseWatcher
  <2>2. /\ stop' \in [Stoppers -> [pc : {"idle", "close"}, closes : Ids]]
        /\ StoppedIsClosed'
    <3>1. CASE watcher # 0
      <4>1. /\ stop' = [stop EXCEPT ![s] = [pc |-> "close", closes |-> watcher]]
            /\ open' = open \ {watcher}
        BY <1>6, <3>1 DEF StopWatchMode, CloseWatcher
      <4>2. /\ stop' \in [Stoppers -> [pc : {"idle", "close"}, closes : Ids]]
            /\ stop'[s].closes = watcher
            /\ \A q \in Stoppers : q # s => stop'[q] = stop[q]
        BY <4>1 DEF IInv, ControlType
      <4>3. StoppedIsClosed'
        BY <4>1, <4>2 DEF IInv, StoppedIsClosed
      <4> QED BY <4>2, <4>3
    <3>2. CASE watcher = 0
      BY <1>6, <3>2 DEF StopWatchMode, IInv, ControlType, StoppedIsClosed
    <3> QED BY <3>1, <3>2
  <2>3. ControlType'
    BY <2>1, <2>2 DEF IInv, ControlType, Ids, Starting
  <2>4. InProgressIsQueued' /\ RunningIsFirst'
    BY <2>1 DEF IInv, InProgressIsQueued, RunningIsFirst, Running
  <2>5. ClosedIsAlone' /\ NoOrphan'
    BY <2>1 DEF IInv, ClosedIsAlone, NoOrphan
  <2> QED BY <2>2, <2>3, <2>4, <2>5 DEF IInv
<1>7. ASSUME NEW s \in Stoppers, Stopped(s) PROVE IInv'
  <2>1. /\ UNCHANGED <<watched, open, chain, start>> /\ watcher' = 0
        /\ stop' = [stop EXCEPT ![s] = [pc |-> "idle", closes |-> 0]]
        /\ overtaken' = (overtaken \/ watcher \notin {0, stop[s].closes})
        /\ stop[s].pc = "close"
    BY <1>7 DEF Stopped, content
  <2>2. ControlType'
    BY <2>1 DEF IInv, ControlType, Ids, Starting
  <2>3. InProgressIsQueued' /\ RunningIsFirst' /\ ClosedIsAlone'
    BY <2>1 DEF IInv, ControlType, InProgressIsQueued, RunningIsFirst, Running, ClosedIsAlone
  <2>4. StoppedIsClosed'
    BY <2>1 DEF IInv, ControlType, StoppedIsClosed
  <2>5. ~overtaken' => open = {}
    BY <2>1 DEF IInv, ControlType, StoppedIsClosed, NoOrphan
  <2>6. NoOrphan'
    BY <2>1, <2>5 DEF NoOrphan
  <2> QED BY <2>2, <2>3, <2>4, <2>6 DEF IInv
<1>8. CASE UNCHANGED control
  BY <1>8 DEF control, IInv, ControlType, Ids, Starting, InProgressIsQueued, RunningIsFirst,
              Running, ClosedIsAlone, StoppedIsClosed, NoOrphan
<1> QED
  BY <1>1, <1>2, <1>3, <1>4, <1>5, <1>6, <1>7, <1>8
     DEF WatchNext, Edit, Deliver, ReloadReads, ReloadRefused, ReloadEnds, Emit, watchVars, control

LEMMA IInvInit == WatchInit => IInv
<1> SUFFICES ASSUME WatchInit PROVE IInv
  OBVIOUS
<1>1. Ids = {0}
  BY DEF WatchInit, Ids
<1>2. start \in [Starters -> Starting]
  BY <1>1 DEF WatchInit, Starting
<1>3. stop \in [Stoppers -> [pc : {"idle", "close"}, closes : Ids]]
  BY <1>1 DEF WatchInit
<1>4. watched \in Seq(Envs) /\ chain \in Seq(Starters)
  BY DEF WatchInit
<1>5. ControlType
  BY <1>1, <1>2, <1>3, <1>4 DEF WatchInit, ControlType
<1> QED BY <1>5 DEF WatchInit, IInv, InProgressIsQueued, RunningIsFirst, Running, ClosedIsAlone,
                    StoppedIsClosed, NoOrphan

\* No watcher is left running that nothing refers to, however starts of different
\* environments and stops interleave, unless a start overtakes a stop (setupChain).
THEOREM NoWatcherIsOrphaned == WatchSpec => []NoOrphan
<1>1. IInv => NoOrphan
  BY DEF IInv
<1> QED BY <1>1, IInvInit, IInvStep, PTL DEF WatchSpec

-----------------------------------------------------------------------------
(* Edits and events *)

ContentType ==
  /\ watching \in Envs \cup {None}
  /\ Len(watched) <= MaxWatchers
  /\ disk \in [Envs -> Nat] /\ served \in [Envs -> Nat] /\ told \in [Envs -> Nat]
  /\ events \subseteq Event
  /\ broken \subseteq Envs /\ missed \subseteq Envs

\* An event that goes on is one.
LEMMA EventKept ==
  ASSUME NEW v \in Event, NEW pc \in {"event", "reload", "read", "emit"}
  PROVE  [v EXCEPT !.pc = pc] \in Event
BY DEF Event

\* What a reload that has read its package makes of its event.
ReadBy(v) == [v EXCEPT !.pc = "read", !.read = disk[v.env], !.failed = v.env \in broken]

LEMMA ReadByFields ==
  ASSUME NEW v \in Event, disk[v.env] \in Nat
  PROVE  /\ ReadBy(v) \in Event
         /\ ReadBy(v).env = v.env /\ ReadBy(v).pc = "read" /\ ReadBy(v).read = disk[v.env]
         /\ v.env \notin broken => ReadBy(v).failed = FALSE
<1>1. CASE v.env \in broken
  <2>1. (v.env \in broken) = TRUE
    BY <1>1
  <2>2. ReadBy(v) = [v EXCEPT !.pc = "read", !.read = disk[v.env], !.failed = TRUE]
    BY <2>1, Zenon DEF ReadBy
  <2> QED BY <1>1, <2>2 DEF Event
<1>2. CASE v.env \notin broken
  <2>1. (v.env \in broken) = FALSE
    BY <1>2
  <2>2. ReadBy(v) = [v EXCEPT !.pc = "read", !.read = disk[v.env], !.failed = FALSE]
    BY <2>1, Zenon DEF ReadBy
  <2> QED BY <1>2, <2>2 DEF Event
<1> QED BY <1>1, <1>2

LEMMA ContentStep == IInv /\ ContentType /\ [WatchNext]_watchVars => ContentType'
<1> SUFFICES ASSUME IInv, ContentType, [WatchNext]_watchVars PROVE ContentType'
  OBVIOUS
<1> USE DEF ContentType
<1>1. ASSUME UNCHANGED <<disk, served, told, broken, watching, watched>>,
             events' \subseteq Event, missed' \subseteq Envs
      PROVE  ContentType'
  BY <1>1
<1>2. ASSUME NEW w, CloseWatcher(w) PROVE events' \subseteq Event /\ missed' \subseteq Envs
  BY <1>2 DEF CloseWatcher, Undelivered, Event
<1>3. ASSUME NEW s \in Starters, start[s].pc # "idle", StartWatcher(start[s].env), UNCHANGED content
      PROVE  ContentType'
  <2>1. start[s].env \in Envs /\ watched \in Seq(Envs)
    BY <1>3, SomeoneIsFirst DEF IInv, ControlType
  <2>2. Len(watched') <= MaxWatchers /\ watching' \in Envs
    BY <1>3, <2>1, BoundsAssumption DEF StartWatcher
  <2> QED BY <1>3, <2>2 DEF content
<1>4. ASSUME NEW s \in Starters, \/ \E env \in Envs : EnsureWatching(s, env)
                                 \/ Check(s) \/ NotFound(s) \/ Found(s) \/ Replace(s)
      PROVE  ContentType'
  <2>1. CASE (\E env \in Envs : EnsureWatching(s, env)) \/ Check(s) \/ NotFound(s)
    BY <1>1, <2>1 DEF EnsureWatching, Check, NotFound, content
  <2>2. CASE Found(s) /\ watcher # 0
    BY <1>1, <1>2, <2>2 DEF Found
  <2>3. CASE Found(s) /\ watcher = 0
    BY <1>3, <2>3 DEF Found, content
  <2>4. CASE Replace(s)
    BY <1>3, <2>4 DEF Replace
  <2> QED BY <1>4, <2>1, <2>2, <2>3, <2>4
<1>5. ASSUME NEW s \in Stoppers, StopWatchMode(s) \/ Stopped(s) PROVE ContentType'
  <2>1. CASE StopWatchMode(s) /\ watcher # 0
    BY <1>1, <1>2, <2>1 DEF StopWatchMode
  <2>2. CASE StopWatchMode(s) /\ watcher = 0
    BY <2>2 DEF StopWatchMode
  <2>3. CASE Stopped(s)
    BY <2>3 DEF Stopped, content
  <2> QED BY <1>5, <2>1, <2>2, <2>3
<1>6. ASSUME NEW env \in Envs, NEW compiles \in BOOLEAN, Edit(env, compiles) PROVE ContentType'
  <2>1. disk' \in [Envs -> Nat] /\ disk'[env] \in Nat
    BY <1>6 DEF Edit
  <2>2. open \subseteq Watchers
    <3>1. Len(watched) \in Nat
      BY DEF IInv, ControlType
    <3> QED BY <3>1, BoundsAssumption DEF IInv, ControlType, Ids, Watchers
  <2>3. \A w \in open : [by |-> w, env |-> env, edit |-> disk'[env], pc |-> "event",
                          read |-> 0, failed |-> FALSE] \in Event
    BY <2>1, <2>2 DEF Event
  <2>4. events' \subseteq Event
    BY <1>6, <2>3 DEF Edit
  <2>5. broken' \subseteq Envs /\ missed' \subseteq Envs
    BY <1>6 DEF Edit
  <2> QED BY <1>6, <2>1, <2>4, <2>5 DEF Edit, control
<1>7. ASSUME NEW v \in events,
             Deliver(v) \/ ReloadReads(v) \/ ReloadRefused(v) \/ ReloadEnds(v) \/ Emit(v)
      PROVE  ContentType'
  <2>1. v \in Event /\ v.env \in Envs /\ v.read \in Nat
    BY DEF Event
  <2>2. disk[v.env] \in Nat
    BY <2>1
  <2>3. [v EXCEPT !.pc = "reload"] \in Event /\ [v EXCEPT !.pc = "emit"] \in Event /\ ReadBy(v) \in Event
    BY <2>1, <2>2, EventKept, ReadByFields
  <2>4. CASE Deliver(v)
    BY <1>1, <2>1, <2>3, <2>4 DEF Deliver, control
  <2>5. CASE ReloadReads(v)
    <3>1. events' = (events \ {v}) \cup {ReadBy(v)}
      BY <2>5, Zenon DEF ReloadReads, ReadBy
    <3> QED BY <1>1, <2>3, <2>5, <3>1 DEF ReloadReads, control
  <2>6. CASE ReloadRefused(v)
    BY <1>1, <2>1, <2>6 DEF ReloadRefused, control
  <2>7. CASE ReloadEnds(v)
    <3>1. events' \subseteq Event
      BY <2>3, <2>7 DEF ReloadEnds
    <3>2. served' \in [Envs -> Nat]
      BY <2>1, <2>7 DEF ReloadEnds
    <3> QED BY <2>7, <3>1, <3>2 DEF ReloadEnds, control
  <2>8. CASE Emit(v)
    BY <2>1, <2>8 DEF Emit, control
  <2> QED BY <1>7, <2>4, <2>5, <2>6, <2>7, <2>8
<1>8. CASE UNCHANGED watchVars
  BY <1>8 DEF watchVars
<1> QED BY <1>4, <1>5, <1>6, <1>7, <1>8 DEF WatchNext

-----------------------------------------------------------------------------
(* The last edit *)

Waiting(e) == {v \in events : v.env = e /\ v.pc \in {"event", "reload"}}
Reading(e) == {v \in events : v.env = e /\ v.pc = "read"}
Telling(e) == {v \in events : v.env = e /\ v.pc = "emit"}

\* Where the last edit is: an event has still to read the package, or every reload
\* under way has read the last edit, or it is served and the pages know or will be
\* told. A reload of an older edit holds the package's mutex, so the event of the
\* last one waits for as long as it runs.
OnItsWay(e) ==
  \/ Waiting(e) # {}
  \/ /\ \A v \in Reading(e) : v.read = disk[e] /\ v.failed = FALSE
     /\ \/ Reading(e) # {}
        \/ served[e] = disk[e] /\ (told[e] = disk[e] \/ Telling(e) # {})

Due(e) == disk[e] > 0 /\ e \notin missed \cup broken
LastEditOnItsWay == \A e \in Envs : Due(e) => OnItsWay(e)

\* What leaves the events of an environment alone.
LEMMA OthersKept ==
  ASSUME NEW e \in Envs, OnItsWay(e), \A v : v.env = e => (v \in events' <=> v \in events),
         disk'[e] = disk[e], served'[e] = served[e], told'[e] = told[e]
  PROVE  OnItsWay(e)'
<1>1. Waiting(e)' = Waiting(e) /\ Reading(e)' = Reading(e) /\ Telling(e)' = Telling(e)
  BY DEF Waiting, Reading, Telling
<1> QED BY <1>1 DEF OnItsWay

\* An event that is not delivered takes its edit with it.
LEMMA ClosedMisses ==
  ASSUME NEW e \in Envs, LastEditOnItsWay, NEW w, CloseWatcher(w),
         UNCHANGED <<disk, broken, served, told>>, Due(e)'
  PROVE  OnItsWay(e)'
<1>1. \A v \in Undelivered(w) : v.env # e
  BY DEF CloseWatcher, Due
<1>2. \A v : v.env = e => (v \in events' <=> v \in events)
  BY <1>1 DEF CloseWatcher
<1>3. OnItsWay(e)
  BY DEF CloseWatcher, Due, LastEditOnItsWay
<1> QED BY <1>2, <1>3, OthersKept

\* An event on its way through the reload, of another environment or of e's.
LEMMA EventStep ==
  ASSUME ContentType, LastEditOnItsWay, NEW e \in Envs, Due(e)', NEW v \in events,
         Deliver(v) \/ ReloadReads(v) \/ ReloadRefused(v) \/ ReloadEnds(v) \/ Emit(v)
  PROVE  OnItsWay(e)'
<1>1. /\ v \in Event /\ v.env \in Envs /\ v.read \in Nat /\ UNCHANGED <<disk, broken>>
      /\ missed \subseteq missed'
  BY DEF ContentType, Event, Deliver, ReloadReads, ReloadRefused, ReloadEnds, Emit
<1>2. OnItsWay(e)
  BY <1>1 DEF Due, LastEditOnItsWay
<1>3. \A pc : /\ [v EXCEPT !.pc = pc].env = v.env /\ [v EXCEPT !.pc = pc].pc = pc
              /\ [v EXCEPT !.pc = pc].read = v.read
  BY <1>1 DEF Event
<1>4. CASE v.env # e
  <2>1. ReadBy(v).env = v.env
    BY <1>1, ReadByFields DEF ContentType
  <2>2. \A u : u.env = e => (u \in events' <=> u \in events)
    <3>1. ASSUME NEW w, w.env # e, events' = (events \ {v}) \cup {w} \/ events' = events \ {v}
          PROVE  \A u : u.env = e => (u \in events' <=> u \in events)
      BY <1>4, <3>1
    <3>2. CASE Deliver(v)
      BY <1>3, <1>4, <3>1, <3>2 DEF Deliver
    <3>3. CASE ReloadReads(v)
      <4>1. events' = (events \ {v}) \cup {ReadBy(v)}
        BY <3>3, Zenon DEF ReloadReads, ReadBy
      <4> QED BY <1>4, <2>1, <3>1, <4>1
    <3>4. CASE ReloadRefused(v) \/ Emit(v)
      BY <1>4, <3>1, <3>4 DEF ReloadRefused, Emit
    <3>5. CASE ReloadEnds(v)
      <4>1. events' = (events \ {v}) \cup {[v EXCEPT !.pc = "emit"]} \/ events' = events \ {v}
        BY <3>5, Zenon DEF ReloadEnds
      <4> QED BY <1>3, <1>4, <3>1, <4>1
    <3> QED BY <3>2, <3>3, <3>4, <3>5
  <2>3. served'[e] = served[e] /\ told'[e] = told[e]
    BY <1>1, <1>4 DEF ContentType, Deliver, ReloadReads, ReloadRefused, ReloadEnds, Emit
  <2> QED BY <1>1, <1>2, <2>2, <2>3, OthersKept
<1>5. SUFFICES ASSUME v.env = e PROVE OnItsWay(e)'
  BY <1>4
<1>6. CASE Deliver(v)
  <2>1. events' = (events \ {v}) \cup {[v EXCEPT !.pc = "reload"]}
    BY <1>5, <1>6 DEF Deliver, Due
  <2>2. [v EXCEPT !.pc = "reload"] \in Waiting(e)'
    BY <1>3, <1>5, <2>1 DEF Waiting
  <2> QED BY <2>2 DEF OnItsWay
<1>7. CASE ReloadReads(v)
  <2>1. events' = (events \ {v}) \cup {ReadBy(v)}
    BY <1>7, Zenon DEF ReloadReads, ReadBy
  <2>2. v.env \notin broken
    BY <1>1, <1>5 DEF Due
  <2>3. /\ ReadBy(v).env = e /\ ReadBy(v).pc = "read" /\ ReadBy(v).read = disk[e]
        /\ ReadBy(v).failed = FALSE
    BY <1>1, <1>5, <2>2, ReadByFields DEF ContentType
  <2>4. Reading(e) = {}
    BY <1>5, <1>7 DEF ReloadReads, Reading
  <2>5. Reading(e)' = {ReadBy(v)}
    BY <2>1, <2>3, <2>4 DEF Reading
  <2> QED BY <1>1, <2>3, <2>5 DEF OnItsWay
<1>8. CASE ReloadRefused(v)
  BY <1>5, <1>8 DEF ReloadRefused, Due
<1>9. CASE ReloadEnds(v)
  <2>1. v.pc = "read" /\ v \in Reading(e) /\ told' = told
    BY <1>5, <1>9 DEF ReloadEnds, Reading
  <2>2. CASE Waiting(e) # {}
    <3>1. PICK u \in events : u.env = e /\ u.pc \in {"event", "reload"}
      BY <2>2 DEF Waiting
    <3>2. u \in events'
      BY <1>9, <2>1, <3>1 DEF ReloadEnds
    <3>3. u \in Waiting(e)'
      BY <3>1, <3>2 DEF Waiting
    <3> QED BY <3>3 DEF OnItsWay
  <2>3. CASE Waiting(e) = {}
    <3>1. \A u \in Reading(e) : u.read = disk[e] /\ u.failed = FALSE
      BY <1>2, <2>3 DEF OnItsWay
    <3>2. /\ events' = (events \ {v}) \cup {[v EXCEPT !.pc = "emit"]}
          /\ served' = [served EXCEPT ![v.env] = v.read]
      BY <1>9, <2>1, <3>1 DEF ReloadEnds
    <3>3. served'[e] = disk[e]
      BY <1>5, <2>1, <3>1, <3>2 DEF ContentType
    <3>4. [v EXCEPT !.pc = "emit"] \in Telling(e)'
      BY <1>3, <1>5, <3>2 DEF Telling
    <3>5. Reading(e)' \subseteq Reading(e)
      BY <1>3, <3>2 DEF Reading
    <3> QED BY <1>1, <3>1, <3>3, <3>4, <3>5 DEF OnItsWay
  <2> QED BY <2>2, <2>3
<1>10. CASE Emit(v)
  <2>1. /\ v.pc = "emit" /\ events' = events \ {v} /\ served' = served
        /\ told' = [told EXCEPT ![v.env] = served[v.env]]
    BY <1>10 DEF Emit
  <2>2. Waiting(e)' = Waiting(e) /\ Reading(e)' = Reading(e)
    BY <2>1 DEF Waiting, Reading
  <2>3. told'[e] = served[e]
    BY <1>5, <2>1 DEF ContentType
  <2> QED BY <1>1, <1>2, <2>1, <2>2, <2>3 DEF OnItsWay
<1> QED BY <1>6, <1>7, <1>8, <1>9, <1>10

LEMMA LastEditStep ==
  ASSUME ContentType, LastEditOnItsWay, [WatchNext]_watchVars
  PROVE  LastEditOnItsWay'
<1> SUFFICES ASSUME NEW e \in Envs, Due(e)' PROVE OnItsWay(e)'
  BY DEF LastEditOnItsWay
<1>1. ASSUME UNCHANGED content PROVE OnItsWay(e)'
  <2>1. OnItsWay(e)
    BY <1>1 DEF content, Due, LastEditOnItsWay
  <2> QED BY <1>1, <2>1, OthersKept DEF content
<1>2. ASSUME NEW s \in Starters, \/ \E env \in Envs : EnsureWatching(s, env)
                                 \/ Check(s) \/ NotFound(s) \/ Found(s) \/ Replace(s)
      PROVE  OnItsWay(e)'
  BY <1>1, <1>2, ClosedMisses DEF EnsureWatching, Check, NotFound, Found, Replace, content
<1>3. ASSUME NEW s \in Stoppers, StopWatchMode(s) \/ Stopped(s) PROVE OnItsWay(e)'
  BY <1>1, <1>3, ClosedMisses DEF StopWatchMode, Stopped, content
<1>4. ASSUME NEW env \in Envs, NEW compiles \in BOOLEAN, Edit(env, compiles) PROVE OnItsWay(e)'
  <2> DEFINE seeing == {w \in open : watched[w] = env}
             new(w) == [by |-> w, env |-> env, edit |-> disk'[env], pc |-> "event",
                        read |-> 0, failed |-> FALSE]
  <2>1. /\ events' = events \cup {new(w) : w \in seeing}
        /\ disk' = [disk EXCEPT ![env] = @ + 1]
        /\ UNCHANGED <<served, told>>
    BY <1>4 DEF Edit
  <2>2. CASE e = env
    <3>1. seeing # {}
      BY <1>4, <2>2 DEF Edit, Due
    <3>2. PICK w : w \in seeing
      BY <3>1
    <3>3. new(w).env = env /\ new(w).pc = "event"
      OBVIOUS
    <3> HIDE DEF new
    <3>4. new(w) \in events'
      BY <2>1, <3>2
    <3>5. new(w) \in Waiting(e)'
      BY <2>2, <3>3, <3>4 DEF Waiting
    <3> QED BY <3>5 DEF OnItsWay
  <2>3. CASE e # env
    <3>1. disk'[e] = disk[e] /\ (e \in missed' <=> e \in missed) /\ (e \in broken' <=> e \in broken)
      BY <1>4, <2>1, <2>3 DEF Edit, ContentType
    <3>2. OnItsWay(e)
      BY <3>1 DEF Due, LastEditOnItsWay
    <3>3. \A v : v.env = e => (v \in events' <=> v \in events)
      BY <2>1, <2>3
    <3> QED BY <2>1, <3>1, <3>2, <3>3, OthersKept
  <2> QED BY <2>2, <2>3
<1>5. ASSUME NEW v \in events,
             Deliver(v) \/ ReloadReads(v) \/ ReloadRefused(v) \/ ReloadEnds(v) \/ Emit(v)
      PROVE  OnItsWay(e)'
  BY <1>5, EventStep
<1>6. CASE UNCHANGED watchVars
  BY <1>1, <1>6 DEF watchVars, content
<1> QED BY <1>2, <1>3, <1>4, <1>5, <1>6 DEF WatchNext

WatchInv == IInv /\ ContentType /\ LastEditOnItsWay

LEMMA WatchInvariance == WatchSpec => []WatchInv
<1>1. WatchInit => WatchInv
  <2> SUFFICES ASSUME WatchInit PROVE ContentType /\ LastEditOnItsWay
    BY IInvInit DEF WatchInv
  <2>1. ContentType
    BY BoundsAssumption DEF WatchInit, ContentType
  <2>2. LastEditOnItsWay
    BY DEF WatchInit, LastEditOnItsWay, Due
  <2> QED BY <2>1, <2>2
<1>2. WatchInv /\ [WatchNext]_watchVars => WatchInv'
  BY IInvStep, ContentStep, LastEditStep DEF WatchInv
<1> QED BY <1>1, <1>2, PTL DEF WatchSpec

\* Every step of the watchers, the edits and the events leaves each variable in its
\* type, for any environments, requests and bounds.
THEOREM WatchTypes == WatchSpec => []WatchTypeOK
<1>1. WatchInv => WatchTypeOK
  <2> SUFFICES ASSUME WatchInv PROVE WatchTypeOK
    OBVIOUS
  <2> USE DEF WatchInv, IInv, ControlType, ContentType
  <2>1. Len(watched) \in Nat
    OBVIOUS
  <2>2. Ids \subseteq Watchers \cup {0}
    BY <2>1, BoundsAssumption DEF Ids, Watchers
  <2>3. open \subseteq Watchers /\ watcher \in Watchers \cup {0}
    BY <2>2
  <2>4. start \in [Starters -> [pc : {"idle", "queued", "lookup", "close"}, env : Envs \cup {None},
                               closes : Watchers \cup {0}]]
    BY <2>2 DEF Starting
  <2>5. stop \in [Stoppers -> [pc : {"idle", "close"}, closes : Watchers \cup {0}]]
    BY <2>2
  <2> QED BY <2>3, <2>4, <2>5 DEF WatchTypeOK
<1> QED BY <1>1, WatchInvariance, PTL

\* Of several quick edits the last is the one that is served and the one the pages
\* were told of once no event of its environment is under way, if it was watched,
\* compiles and was not refused: a reload that read an older edit cannot be the
\* last to finish (onEvent, and the package's mutex behind getPackage).
THEOREM LastEditAlwaysShown == WatchSpec => []LastEditIsShown
<1>1. WatchInv => LastEditIsShown
  BY DEF WatchInv, LastEditOnItsWay, OnItsWay, Due, Waiting, Reading, Telling, LastEditIsShown
<1> QED BY <1>1, WatchInvariance, PTL

-----------------------------------------------------------------------------
(* MaterializationScheduler *)

\* A sweep has a package in hand exactly while it awaits, and advances only a state
\* object that is in the map, of the schedule it read.
PackageInHand ==
  \A t \in Ticks :
    /\ IF tick[t].pc \in {"anchor", "fire"}
       THEN /\ tick[t].package \in Packages
            /\ tick[t].crons[tick[t].package] # NoCron
            /\ tick[t].package \notin tick[t].queue
       ELSE tick[t].package = NoPackage
    /\ tick[t].attached =>
         /\ tick[t].pc = "fire"
         /\ entry[tick[t].package].schedule = tick[t].crons[tick[t].package]
    /\ tick[t].pc = "fire" => tick[t].fires < MaxFires
    /\ tick[t].pc = "idle" => tick[t].queue = {}
    /\ tick[t].now <= now

HandInv == SchedulerTypeOK /\ PackageInHand

\* The rows are written in the order of the clock, and what they cover is accounted
\* for.
BooksInOrder ==
  \A p \in Packages :
    /\ settled[p] <= now
    /\ \A r \in records[p] : r.sweep <= r.at /\ r.at <= settled[p]

FiresOn(t, p) == tick[t].pc = "fire" /\ tick[t].package = p

\* A package is owed by one sweep, which started after the sweeps that fired it.
OneOwes(p) ==
  \A t \in Ticks : p \in Owed(t) =>
    /\ \A u \in Ticks \ {t} : p \notin Owed(u)
    /\ \A r \in records[p] : r.sweep <= tick[t].now

\* Nothing is armed for an occurrence that a recorded run has covered.
NotTooSoon(p) ==
  entry[p] # NoEntry => \A r \in records[p] : NextAfter(entry[p].schedule, r.sweep) <= entry[p].next

\* Nor about to be fired for one.
DueAnew(p) ==
  \A t \in Ticks : FiresOn(t, p) =>
    /\ tick[t].attached \/ entry[p] = NoEntry
    /\ \A r \in records[p] : NextAfter(tick[t].crons[p], r.sweep) <= tick[t].now

OnceRight(p) == OneOwes(p) /\ NotTooSoon(p) /\ DueAnew(p)

OnceInv == \A p \in Packages \ raced : OnceRight(p)

-----------------------------------------------------------------------------
(* The pieces of a step *)

LEMMA NextAfterFacts ==
  ASSUME NEW s \in Crons, NEW t \in Times
  PROVE  /\ NextAfter(s, t) \in Nat
         /\ \A u \in Times : t <= u => NextAfter(s, t) <= NextAfter(s, u)
BY CronAssumption

LEMMA TimesAreNat == /\ Times \subseteq Nat
                     /\ 0 \in Times
BY SchedulerBounds DEF Times

LEMMA NoTickType ==
  /\ NoTick \in Sweep
  /\ NoTick.pc = "idle" /\ NoTick.queue = {} /\ NoTick.package = NoPackage
  /\ NoTick.now = 0 /\ ~NoTick.attached
BY TimesAreNat, SchedulerBounds DEF NoTick, Sweep

LEMMA EntryFacts == /\ NoEntry \notin Entry
                    /\ \A e \in Entry : e.schedule \in Crons /\ e.schedule # NoCron /\ e.next \in Nat
                    /\ NoEntry.schedule = NoCron
BY CronAssumption DEF Entry, NoEntry

\* Two states of a sweep that differ at most in a state object having left the map.
Follows(a, b) ==
  /\ a.pc = b.pc /\ a.now = b.now /\ a.queue = b.queue /\ a.crons = b.crons
  /\ a.fires = b.fires /\ a.package = b.package
  /\ a.attached => b.attached

LEMMA DetachFacts ==
  ASSUME tick \in [Ticks -> Sweep], NEW p
  PROVE  /\ Detach(p) \in [Ticks -> Sweep]
         /\ \A u \in Ticks : /\ Follows(Detach(p)[u], tick[u])
                             /\ tick[u].package = p => ~Detach(p)[u].attached
                             /\ tick[u].package # p => Detach(p)[u] = tick[u]
<1>1. ASSUME NEW u \in Ticks
      PROVE  /\ Detach(p)[u] \in Sweep
             /\ Follows(Detach(p)[u], tick[u])
             /\ tick[u].package = p => ~Detach(p)[u].attached
             /\ tick[u].package # p => Detach(p)[u] = tick[u]
  BY <1>1 DEF Detach, Follows, Sweep
<1> QED BY <1>1 DEF Detach

\* A sweep that turns to p leaves it armed for the schedule it read, and may have it
\* in hand to fire it.
Turns(t, p) ==
  /\ tick' \in [Ticks -> Sweep] /\ entry' \in [Packages -> Entry \cup {NoEntry}]
  /\ entry'[p] \in Entry /\ entry'[p].schedule = tick[t].crons[p]
  /\ \A q \in Packages \ {p} : entry'[q] = entry[q]
  /\ tick'[t].now = tick[t].now /\ tick'[t].queue = tick[t].queue \ {p}
  /\ tick'[t].crons = tick[t].crons
  /\ \/ /\ tick'[t].pc = "fire" /\ tick'[t].package = p /\ tick'[t].fires < MaxFires
        /\ tick'[t].attached /\ entry'[p].next <= tick[t].now
     \/ tick'[t].pc = "sweep" /\ tick'[t].package = NoPackage /\ ~tick'[t].attached
  /\ \A u \in Ticks \ {t} :
       /\ Follows(tick'[u], tick[u])
       /\ tick[u].package # p => tick'[u] = tick[u]
       /\ tick[u].package = p /\ tick'[u].attached => entry[p].schedule = tick[t].crons[p]
  /\ UNCHANGED <<now, records, run, loaded, cron, raced>>

LEMMA DecideTurns ==
  ASSUME SchedulerTypeOK, NEW t \in Ticks, NEW p \in Packages, NEW e \in Entry,
         NEW ticks \in [Ticks -> Sweep], Decide(t, p, e, ticks),
         entry' = [entry EXCEPT ![p] = e], e.schedule = tick[t].crons[p],
         UNCHANGED <<now, records, run, loaded, cron, raced>>,
         \A u \in Ticks \ {t} :
           /\ Follows(ticks[u], tick[u])
           /\ tick[u].package # p => ticks[u] = tick[u]
           /\ tick[u].package = p /\ ticks[u].attached => entry[p].schedule = e.schedule
  PROVE  Turns(t, p)
<1> DEFINE fires == tick[t].now >= e.next /\ tick[t].fires < MaxFires
           new == [tick[t] EXCEPT !.queue = tick[t].queue \ {p}, !.seen = tick[t].seen \cup {p},
                                  !.pc = IF fires THEN "fire" ELSE "sweep",
                                  !.package = IF fires THEN p ELSE NoPackage,
                                  !.attached = fires]
<1>1. tick' = [ticks EXCEPT ![t] = new]
  BY DEF Decide
<1>2. /\ tick[t] \in Sweep /\ tick[t].now \in Nat /\ e.next \in Nat
  BY EntryFacts, TimesAreNat DEF SchedulerTypeOK, Sweep
<1>3. /\ new \in Sweep /\ new.now = tick[t].now /\ new.queue = tick[t].queue \ {p}
      /\ new.crons = tick[t].crons /\ new.fires = tick[t].fires
  BY <1>2 DEF Sweep
<1>4. IF fires THEN new.pc = "fire" /\ new.package = p /\ new.attached
               ELSE new.pc = "sweep" /\ new.package = NoPackage /\ ~new.attached
  BY <1>2 DEF Sweep
<1> HIDE DEF new
<1>5. /\ tick' \in [Ticks -> Sweep] /\ tick'[t] = new
      /\ \A u \in Ticks \ {t} : tick'[u] = ticks[u]
  BY <1>1, <1>3
<1>6. /\ entry' \in [Packages -> Entry \cup {NoEntry}] /\ entry'[p] = e
      /\ \A q \in Packages \ {p} : entry'[q] = entry[q]
  BY DEF SchedulerTypeOK
<1> QED BY <1>2, <1>3, <1>4, <1>5, <1>6 DEF Turns

\* What is accounted for grows, for p at most.
SettledUp(p) ==
  /\ settled' \in [Packages -> Times]
  /\ \A q \in Packages : settled[q] <= settled'[q] /\ settled'[q] <= now
  /\ \A q \in Packages \ {p} : settled'[q] = settled[q]

LEMMA SettleFacts ==
  ASSUME SchedulerTypeOK, \A q \in Packages : settled[q] <= now, NEW p \in Packages,
         NEW u \in Times, u <= now,
         settled' = settled \/ Settle(p, u)
  PROVE  SettledUp(p) /\ (Settle(p, u) => u <= settled'[p])
<1>1. /\ \A q \in Packages : settled[q] \in Nat /\ settled[q] \in Times
      /\ u \in Nat /\ now \in Nat
  BY TimesAreNat DEF SchedulerTypeOK
<1>2. CASE settled' = settled /\ ~Settle(p, u)
  BY <1>1, <1>2 DEF SettledUp, SchedulerTypeOK
<1>3. CASE Settle(p, u)
  <2>1. settled' = [settled EXCEPT ![p] = IF u > settled[p] THEN u ELSE settled[p]]
    BY <1>3 DEF Settle
  <2> QED BY <1>1, <2>1 DEF SettledUp, SchedulerTypeOK
<1> QED BY <1>2, <1>3

\* What a turn may arm p for.
ArmsFrom(t, p) ==
  \/ entry' = entry /\ settled' = settled /\ refused' = refused
  \/ \E a \in Times :
       /\ entry'[p].next = NextAfter(tick[t].crons[p], a)
       /\ a = tick[t].now \/ \A r \in records[p] : r.at <= a
       /\ a <= settled'[p] /\ SettledUp(p)
       /\ refused' = refused \ {p}

LEMMA TurnsOf ==
  ASSUME HandInv, BooksInOrder, NEW t \in Ticks,
         \/ Arm(t) \/ ArmUnanchored(t)
         \/ \E p \in Packages : SweepArmed(t, p) \/ SweepRearms(t, p)
  PROVE  \E p \in Owed(t) : /\ Turns(t, p) /\ ArmsFrom(t, p)
                            /\ \/ tick[t].pc = "sweep" /\ p \in tick[t].queue
                               \/ tick[t].pc = "anchor" /\ p = tick[t].package
<1>1. /\ SchedulerTypeOK /\ PackageInHand
      /\ tick[t] \in Sweep /\ tick[t].now \in Times /\ tick[t].now <= now
      /\ \A q \in Packages : tick[t].crons[q] \in Crons \cup {NoCron}
      /\ \A q \in Packages : settled[q] <= now
  BY DEF HandInv, SchedulerTypeOK, PackageInHand, Sweep, BooksInOrder
<1>2. ASSUME NEW p \in Packages
      PROVE  /\ Detach(p) \in [Ticks -> Sweep]
             /\ \A u \in Ticks : /\ Follows(Detach(p)[u], tick[u])
                                 /\ tick[u].package = p => ~Detach(p)[u].attached
                                 /\ tick[u].package # p => Detach(p)[u] = tick[u]
  BY <1>1, DetachFacts DEF SchedulerTypeOK
<1>3. ASSUME NEW p \in Packages, NEW a \in Times, NEW e,
             tick[t].crons[p] # NoCron,
             e = [schedule |-> tick[t].crons[p], next |-> NextAfter(tick[t].crons[p], a)],
             entry' = [entry EXCEPT ![p] = e], Decide(t, p, e, Detach(p)),
             UNCHANGED <<now, records, run, loaded, cron, raced>>
      PROVE  Turns(t, p) /\ entry'[p].next = NextAfter(tick[t].crons[p], a)
  <2>1. e \in Entry /\ e.schedule = tick[t].crons[p] /\ e.next = NextAfter(tick[t].crons[p], a)
    BY <1>1, <1>3, NextAfterFacts DEF Entry
  <2>2. Turns(t, p)
    <3>1. /\ Detach(p) \in [Ticks -> Sweep]
          /\ \A u \in Ticks \ {t} :
               /\ Follows(Detach(p)[u], tick[u])
               /\ tick[u].package # p => Detach(p)[u] = tick[u]
               /\ tick[u].package = p /\ Detach(p)[u].attached => entry[p].schedule = e.schedule
      BY <1>2
    <3>2. Decide(t, p, e, Detach(p)) /\ entry' = [entry EXCEPT ![p] = e]
          /\ UNCHANGED <<now, records, run, loaded, cron, raced>>
      BY <1>3
    <3> QED BY <1>1, <2>1, <3>1, <3>2, DecideTurns
  <2>3. entry'[p] = e
    BY <1>1, <1>3 DEF SchedulerTypeOK
  <2> QED BY <2>1, <2>2, <2>3
<1>4. ASSUME NEW p \in Packages, SweepArmed(t, p)
      PROVE  p \in Owed(t) /\ Turns(t, p) /\ ArmsFrom(t, p) /\ tick[t].pc = "sweep" /\ p \in tick[t].queue
  <2>1. /\ entry[p] \in Entry /\ entry[p].schedule = tick[t].crons[p]
        /\ Decide(t, p, entry[p], tick)
        /\ UNCHANGED <<now, records, run, loaded, cron, raced, entry, settled, refused>>
    BY <1>1, <1>4 DEF SweepArmed, SchedulerTypeOK, rowVars, historyVars
  <2>2. entry' = [entry EXCEPT ![p] = entry[p]] /\ tick \in [Ticks -> Sweep]
    BY <1>1, <2>1 DEF SchedulerTypeOK
  <2>3. \A u \in Ticks : /\ Follows(tick[u], tick[u])
                         /\ tick[u].package = p /\ tick[u].attached
                            => entry[p].schedule = entry[p].schedule
    BY DEF Follows
  <2>4. Turns(t, p)
    BY <1>1, <2>1, <2>2, <2>3, DecideTurns
  <2> QED BY <1>4, <2>1, <2>4 DEF SweepArmed, Owed, ArmsFrom
<1>5. ASSUME NEW p \in Packages, SweepRearms(t, p)
      PROVE  p \in Owed(t) /\ Turns(t, p) /\ ArmsFrom(t, p) /\ tick[t].pc = "sweep" /\ p \in tick[t].queue
  <2>1. Turns(t, p) /\ entry'[p].next = NextAfter(tick[t].crons[p], tick[t].now)
    BY <1>1, <1>3, <1>5 DEF SweepRearms, rowVars, Settle
  <2>2. SettledUp(p) /\ tick[t].now <= settled'[p]
    BY <1>1, <1>5, SettleFacts DEF SweepRearms
  <2> QED BY <1>1, <1>5, <2>1, <2>2 DEF SweepRearms, Owed, ArmsFrom
<1>6. CASE ArmUnanchored(t)
  <2> DEFINE p == tick[t].package
  <2>1. p \in Packages /\ tick[t].crons[p] # NoCron /\ tick[t].pc = "anchor"
    BY <1>1, <1>6 DEF ArmUnanchored, PackageInHand
  <2>2. Turns(t, p) /\ entry'[p].next = NextAfter(tick[t].crons[p], tick[t].now)
    BY <1>1, <1>3, <1>6, <2>1 DEF ArmUnanchored, rowVars, Settle
  <2>3. SettledUp(p) /\ tick[t].now <= settled'[p]
    BY <1>1, <1>6, <2>1, SettleFacts DEF ArmUnanchored
  <2>4. p \in Owed(t) /\ ArmsFrom(t, p)
    BY <1>1, <1>6, <2>1, <2>2, <2>3 DEF ArmUnanchored, Owed, ArmsFrom
  <2> QED BY <2>1, <2>2, <2>4
<1>7. CASE Arm(t)
  <2> DEFINE p == tick[t].package
  <2>1. p \in Packages /\ tick[t].crons[p] # NoCron /\ tick[t].pc = "anchor"
    BY <1>1, <1>7 DEF Arm, PackageInHand
  <2>2. PICK r \in LatestScheduledFire(p) :
          LET armed == [schedule |-> tick[t].crons[p], next |-> NextAfter(tick[t].crons[p], r.at)]
          IN entry' = [entry EXCEPT ![p] = armed] /\ Decide(t, p, armed, Detach(p))
    BY <1>7 DEF Arm
  <2>3. r \in records[p] /\ r.at \in Times /\ r.at <= settled[p] /\ \A q \in records[p] : q.at <= r.at
    BY <1>1, <2>1, <2>2 DEF LatestScheduledFire, BooksInOrder, SchedulerTypeOK, Row
  <2>4. Turns(t, p) /\ entry'[p].next = NextAfter(tick[t].crons[p], r.at)
    BY <1>1, <1>3, <1>7, <2>1, <2>2, <2>3 DEF Arm, rowVars
  <2>5. SettledUp(p) /\ settled' = settled
    BY <1>1, <1>7, <2>1, SettleFacts DEF Arm
  <2>6. p \in Owed(t) /\ ArmsFrom(t, p)
    BY <1>1, <1>7, <2>1, <2>3, <2>4, <2>5 DEF Arm, Owed, ArmsFrom
  <2> QED BY <2>1, <2>4, <2>6
<1>8. CASE \E p \in Packages : SweepArmed(t, p) \/ SweepRearms(t, p)
  <2>1. PICK p \in Packages : SweepArmed(t, p) \/ SweepRearms(t, p)
    BY <1>8
  <2>2. p \in Owed(t) /\ Turns(t, p) /\ ArmsFrom(t, p) /\ tick[t].pc = "sweep" /\ p \in tick[t].queue
    BY <1>4, <1>5, <2>1
  <2> QED BY <2>2
<1> QED BY <1>6, <1>7, <1>8

\* After a fire the sweep has nothing in hand, and a state object of the map is armed
\* past the sweep.
Fires(t, p) ==
  /\ FiresOn(t, p)
  /\ tick' \in [Ticks -> Sweep] /\ entry' \in [Packages -> Entry \cup {NoEntry}]
  /\ tick'[t].pc = "sweep" /\ tick'[t].package = NoPackage /\ ~tick'[t].attached
  /\ tick'[t].now = tick[t].now /\ tick'[t].queue = tick[t].queue
  /\ \A u \in Ticks \ {t} : tick'[u] = tick[u]
  /\ \A q \in Packages \ {p} : entry'[q] = entry[q] /\ records'[q] = records[q]
  /\ IF tick[t].attached
     THEN /\ entry[p] \in Entry /\ entry'[p].schedule = entry[p].schedule
          /\ entry[p].schedule = tick[t].crons[p]
          /\ entry'[p].next = NextAfter(tick[t].crons[p], tick[t].now)
          /\ refused \ {p} \subseteq refused'
          /\ p \in refused' \/ tick[t].now <= settled'[p]
     ELSE entry' = entry /\ refused' = refused
  /\ SettledUp(p)
  /\ \A r \in records'[p] \ records[p] :
       r.sweep = tick[t].now /\ r.at = now /\ now <= settled'[p]
  /\ UNCHANGED <<now, loaded, cron, raced>>

AnyFire(t) == FireCreates(t) \/ FireCoalesces(t) \/ FireRefused(t) \/ FireFails(t)

LEMMA FiresOf ==
  ASSUME HandInv, BooksInOrder, NEW t \in Ticks, AnyFire(t)
  PROVE  Fires(t, tick[t].package)
<1> DEFINE p == tick[t].package
           s == tick[t].crons[p]
           n == NextAfter(s, tick[t].now)
<1>1. /\ SchedulerTypeOK /\ PackageInHand
      /\ tick[t].pc = "fire" /\ Advance(t) /\ UNCHANGED <<now, loaded, cron>>
      /\ raced' = raced
  BY DEF HandInv, AnyFire, FireCreates, FireCoalesces, FireRefused, FireFails, Settle
<1>2. /\ tick[t] \in Sweep /\ p \in Packages /\ s \in Crons
      /\ tick[t].now \in Times /\ now \in Times /\ tick[t].now <= now
      /\ tick[t].fires < MaxFires /\ tick[t].fires \in 0 .. MaxFires
      /\ tick[t].attached => entry[p].schedule = s
  BY <1>1 DEF SchedulerTypeOK, PackageInHand, Sweep
<1>3. n \in Nat /\ \A q \in Packages : settled[q] <= now
  BY <1>2, NextAfterFacts DEF BooksInOrder
<1>4. /\ tick' \in [Ticks -> Sweep]
      /\ tick'[t].pc = "sweep" /\ tick'[t].package = NoPackage /\ ~tick'[t].attached
      /\ tick'[t].now = tick[t].now /\ tick'[t].queue = tick[t].queue
      /\ \A u \in Ticks \ {t} : tick'[u] = tick[u]
  <2> DEFINE new == [tick[t] EXCEPT !.pc = "sweep", !.fires = tick[t].fires + 1,
                                    !.package = NoPackage, !.attached = FALSE]
  <2>1. /\ new \in Sweep /\ new.pc = "sweep" /\ new.package = NoPackage /\ ~new.attached
        /\ new.now = tick[t].now /\ new.queue = tick[t].queue
    <3>1. tick[t].fires + 1 \in 0 .. MaxFires
      BY <1>2, SchedulerBounds
    <3> QED BY <1>2, <3>1 DEF Sweep
  <2>2. tick' = [tick EXCEPT ![t] = new]
    BY <1>1 DEF Advance
  <2> HIDE DEF new
  <2> QED BY <1>1, <2>1, <2>2 DEF SchedulerTypeOK
<1>5. /\ entry' \in [Packages -> Entry \cup {NoEntry}]
      /\ \A q \in Packages \ {p} : entry'[q] = entry[q]
      /\ IF tick[t].attached
         THEN /\ entry[p] \in Entry /\ entry'[p].schedule = entry[p].schedule
              /\ entry'[p].next = n
         ELSE entry' = entry
  <2>1. CASE tick[t].attached
    <3>1. entry[p] \in Entry
      BY <1>1, <1>2, <2>1, EntryFacts, CronAssumption DEF SchedulerTypeOK
    <3>2. /\ [entry[p] EXCEPT !.next = n] \in Entry
          /\ [entry[p] EXCEPT !.next = n].schedule = entry[p].schedule
          /\ [entry[p] EXCEPT !.next = n].next = n
      BY <1>3, <3>1 DEF Entry
    <3>3. entry' = [entry EXCEPT ![p] = [entry[p] EXCEPT !.next = n]]
      BY <1>1, <2>1 DEF Advance
    <3> HIDE DEF n
    <3> QED BY <1>1, <1>2, <2>1, <3>1, <3>2, <3>3 DEF SchedulerTypeOK
  <2>2. CASE ~tick[t].attached
    BY <1>1, <2>2 DEF Advance, SchedulerTypeOK
  <2> QED BY <2>1, <2>2
<1> HIDE DEF n
<1>6. /\ \A q \in Packages \ {p} : records'[q] = records[q]
      /\ SettledUp(p)
      /\ \A r \in records'[p] \ records[p] :
           r.sweep = tick[t].now /\ r.at = now /\ now <= settled'[p]
      /\ IF tick[t].attached
         THEN refused \ {p} \subseteq refused' /\ (p \in refused' \/ tick[t].now <= settled'[p])
         ELSE refused' = refused
  <2>1. CASE FireCreates(t)
    <3> DEFINE row == [at |-> now, sweep |-> tick[t].now]
    <3>1. records' = [records EXCEPT ![p] = records[p] \cup {row}] /\ Settle(p, now) /\ Answered(t)
      BY <2>1 DEF FireCreates
    <3>2. /\ \A q \in Packages \ {p} : records'[q] = records[q]
          /\ \A r \in records'[p] \ records[p] : r.sweep = tick[t].now /\ r.at = now
      BY <1>1, <1>2, <3>1 DEF SchedulerTypeOK
    <3>3. now <= now /\ now \in Nat /\ tick[t].now \in Nat
      <4>1. now \in Nat /\ tick[t].now \in Nat
        BY <1>2, TimesAreNat
      <4> QED BY <4>1
    <3>4. SettledUp(p) /\ now <= settled'[p]
      BY <1>1, <1>2, <1>3, <3>1, <3>3, SettleFacts
    <3>5. tick[t].now <= settled'[p]
      <4>1. settled'[p] \in Nat
        BY <1>2, <3>4, TimesAreNat DEF SettledUp
      <4>2. tick[t].now <= now /\ now <= settled'[p]
        BY <1>2, <3>4
      <4> QED BY <3>3, <4>1, <4>2
    <3> QED BY <3>1, <3>2, <3>4, <3>5 DEF Answered
  <2>2. CASE FireCoalesces(t) \/ FireFails(t)
    <3>1. records' = records /\ Settle(p, tick[t].now) /\ Answered(t)
      BY <2>2 DEF FireCoalesces, FireFails, rowVars
    <3>2. SettledUp(p) /\ tick[t].now <= settled'[p]
      BY <1>1, <1>2, <1>3, <3>1, SettleFacts
    <3> QED BY <3>1, <3>2 DEF Answered
  <2>3. CASE FireRefused(t)
    <3>1. /\ records' = records /\ settled' = settled
          /\ refused' = IF tick[t].attached THEN refused \cup {p} ELSE refused
      BY <2>3 DEF FireRefused, rowVars
    <3>2. SettledUp(p)
      BY <1>1, <1>2, <1>3, <3>1, SettleFacts
    <3> QED BY <3>1, <3>2
  <2> QED BY <2>1, <2>2, <2>3 DEF AnyFire
<1>7. FiresOn(t, p)
  BY <1>1 DEF FiresOn
<1> USE DEF n
<1> QED BY <1>1, <1>2, <1>4, <1>5, <1>6, <1>7 DEF Fires

\* A sweep owes, and fires, no more than before.
Lesser(u, q) ==
  /\ q \in Owed(u)' => q \in Owed(u) /\ tick'[u].now = tick[u].now
  /\ FiresOn(u, q)' => /\ FiresOn(u, q) /\ tick'[u].crons[q] = tick[u].crons[q]
                       /\ tick[u].attached => tick'[u].attached \/ entry'[q] = NoEntry

\* Nothing is armed, and no sweep has more to do.
Quiet ==
  /\ tick' \in [Ticks -> Sweep] /\ entry' \in [Packages -> Entry \cup {NoEntry}]
  /\ \A q \in Packages : entry'[q] \in {entry[q], NoEntry}
  /\ \A u \in Ticks, q \in Packages : Lesser(u, q)
  /\ PackageInHand'

LEMMA FollowsIsLesser ==
  ASSUME SchedulerTypeOK, NEW u \in Ticks, NEW q \in Packages,
         tick'[u].pc = tick[u].pc, tick'[u].now = tick[u].now, tick'[u].queue \subseteq tick[u].queue,
         tick'[u].package = tick[u].package,
         q \notin tick[u].queue => tick'[u].crons[q] = tick[u].crons[q],
         PackageInHand,
         FiresOn(u, q) /\ tick[u].attached => tick'[u].attached \/ entry'[q] = NoEntry
  PROVE  Lesser(u, q)
BY DEF Lesser, Owed, FiresOn, PackageInHand

LEMMA QuietOf ==
  ASSUME HandInv, now' \in Times, now <= now',
         \/ UNCHANGED <<tick, entry>>
         \/ \E t \in Ticks : TickEnds(t) \/ FiresAnother(t)
         \/ \E t \in Ticks, p \in Packages : SweepSkips(t, p) \/ SweepLooksUp(t, p)
         \/ \E p \in Packages, s \in Crons \cup {NoCron} : EditSchedule(p, s)
  PROVE  Quiet
<1>1. /\ SchedulerTypeOK /\ PackageInHand
      /\ \A u \in Ticks : tick[u] \in Sweep /\ tick[u].queue \subseteq Packages
      /\ now \in Nat /\ now' \in Nat
  BY TimesAreNat DEF HandInv, SchedulerTypeOK, Sweep
<1>2. \A u \in Ticks : tick[u].now <= now' /\ tick[u].now <= now
  <2>1. ASSUME NEW u \in Ticks PROVE tick[u].now <= now' /\ tick[u].now <= now
    <3>1. tick[u].now \in Nat /\ tick[u].now <= now
      BY <1>1, TimesAreNat DEF PackageInHand, Sweep
    <3> QED BY <1>1, <3>1
  <2> QED BY <2>1
<1>3. CASE UNCHANGED <<tick, entry>>
  <2>1. \A u \in Ticks, q \in Packages : Lesser(u, q)
    BY <1>3 DEF Lesser, Owed, FiresOn
  <2>2. PackageInHand'
    BY <1>1, <1>2, <1>3 DEF PackageInHand
  <2> QED BY <1>1, <1>3, <2>1, <2>2 DEF Quiet, SchedulerTypeOK
<1>4. ASSUME NEW t \in Ticks, TickEnds(t) PROVE Quiet
  <2>1. tick'[t] = NoTick /\ now' = now
    BY <1>4 DEF TickEnds
  <2>2. ASSUME NEW u \in Ticks \ {t}
        PROVE  /\ tick'[u] \in Sweep /\ Follows(tick'[u], tick[u])
               /\ tick[u].attached /\ ~tick'[u].attached => tick[u].package \notin tick[t].seen
               /\ tick'[u].attached => tick[u].package \in tick[t].seen
    <3>1. CASE tick[u].package \notin tick[t].seen
      <4>1. tick'[u] = [tick[u] EXCEPT !.attached = FALSE]
        BY <1>4, <3>1 DEF TickEnds
      <4> QED BY <1>1, <3>1, <4>1 DEF Follows, Sweep
    <3>2. CASE tick[u].package \in tick[t].seen
      BY <1>1, <1>4, <3>2 DEF TickEnds, Follows
    <3> QED BY <3>1, <3>2
  <2>3. tick' \in [Ticks -> Sweep]
    <3>1. \A u \in Ticks : tick'[u] \in Sweep
      BY <2>1, <2>2, NoTickType
    <3>2. tick' = [u \in Ticks |-> tick'[u]]
      BY <1>4 DEF TickEnds
    <3> QED BY <3>1, <3>2
  <2>4. /\ \A q \in Packages : entry'[q] = IF q \in tick[t].seen THEN entry[q] ELSE NoEntry
        /\ entry' \in [Packages -> Entry \cup {NoEntry}]
    BY <1>1, <1>4 DEF TickEnds, SchedulerTypeOK
  <2>5. \A u \in Ticks, q \in Packages : Lesser(u, q)
    <3>1. ASSUME NEW u \in Ticks, NEW q \in Packages PROVE Lesser(u, q)
      <4>1. CASE u = t
        BY <2>1, <4>1, NoTickType, NoPackageAssumption DEF Lesser, Owed, FiresOn
      <4>2. CASE u # t
        <5>1. FiresOn(u, q) /\ tick[u].attached => tick'[u].attached \/ entry'[q] = NoEntry
          BY <2>2, <2>4, <4>2 DEF FiresOn
        <5> QED BY <1>1, <2>2, <4>2, <5>1, FollowsIsLesser DEF Follows
      <4> QED BY <4>1, <4>2
    <3> QED BY <3>1
  <2>6. PackageInHand'
    <3>1. ASSUME NEW u \in Ticks, u # t, tick'[u].attached
          PROVE  entry'[tick[u].package] = entry[tick[u].package] /\ tick[u].attached
      <4>1. tick[u].attached /\ tick[u].package \in Packages /\ tick[u].package \in tick[t].seen
        BY <1>1, <2>2, <3>1 DEF Follows, PackageInHand
      <4> QED BY <2>4, <4>1
    <3> QED BY <1>1, <1>2, <2>1, <2>2, <3>1, NoTickType, TimesAreNat DEF PackageInHand, Follows
  <2> QED BY <2>3, <2>4, <2>5, <2>6 DEF Quiet
<1>5. ASSUME NEW t \in Ticks, FiresAnother(t) PROVE Quiet
  <2> DEFINE new == [tick[t] EXCEPT !.fires = tick[t].fires + 1]
  <2>1. tick[t].fires + 1 \in 0 .. MaxFires /\ tick[t].pc = "sweep" /\ tick' = [tick EXCEPT ![t] = new]
    BY <1>1, <1>5, SchedulerBounds DEF FiresAnother, Sweep
  <2>2. /\ new \in Sweep /\ new.pc = tick[t].pc /\ new.now = tick[t].now
        /\ new.queue = tick[t].queue /\ new.crons = tick[t].crons
        /\ new.package = tick[t].package /\ new.attached = tick[t].attached
    BY <1>1, <2>1 DEF Sweep
  <2> HIDE DEF new
  <2>3. /\ tick' \in [Ticks -> Sweep] /\ tick'[t] = new
        /\ \A u \in Ticks \ {t} : tick'[u] = tick[u]
        /\ entry' = entry /\ now' = now
    BY <1>1, <1>5, <2>1, <2>2 DEF FiresAnother, SchedulerTypeOK
  <2>4. \A u \in Ticks, q \in Packages : Lesser(u, q)
    BY <2>2, <2>3 DEF Lesser, Owed, FiresOn
  <2>5. PackageInHand'
    BY <1>1, <2>1, <2>2, <2>3 DEF PackageInHand
  <2> QED BY <1>1, <2>3, <2>4, <2>5 DEF Quiet, SchedulerTypeOK
<1>6. ASSUME NEW t \in Ticks, NEW p \in Packages, SweepSkips(t, p) PROVE Quiet
  <2>1. /\ Detach(p) \in [Ticks -> Sweep]
        /\ \A u \in Ticks : /\ Follows(Detach(p)[u], tick[u])
                            /\ tick[u].package = p => ~Detach(p)[u].attached
                            /\ tick[u].package # p => Detach(p)[u] = tick[u]
    BY <1>1, DetachFacts DEF SchedulerTypeOK
  <2> DEFINE old == Detach(p)[t]
             new == [old EXCEPT !.queue = old.queue \ {p}]
  <2>2. /\ new \in Sweep /\ new.pc = tick[t].pc /\ new.now = tick[t].now
        /\ new.queue = tick[t].queue \ {p} /\ new.crons = tick[t].crons
        /\ new.fires = tick[t].fires /\ new.package = tick[t].package
        /\ new.attached = old.attached
    <3>1. old \in Sweep /\ Follows(old, tick[t])
      BY <2>1
    <3> HIDE DEF old
    <3>2. /\ new \in Sweep /\ new.pc = old.pc /\ new.now = old.now
          /\ new.queue = old.queue \ {p} /\ new.crons = old.crons
          /\ new.fires = old.fires /\ new.package = old.package
          /\ new.attached = old.attached
      BY <3>1 DEF Sweep
    <3> HIDE DEF new
    <3> QED BY <3>1, <3>2 DEF Follows
  <2>3. tick' = [Detach(p) EXCEPT ![t] = new] /\ now' = now
    BY <1>6, <2>1 DEF SweepSkips
  <2> HIDE DEF new
  <2>4. /\ tick' \in [Ticks -> Sweep]
        /\ \A u \in Ticks : /\ tick'[u].pc = tick[u].pc /\ tick'[u].now = tick[u].now
                            /\ tick'[u].queue \subseteq tick[u].queue
                            /\ tick'[u].queue = {} \/ tick[u].pc # "idle"
                            /\ tick'[u].crons = tick[u].crons /\ tick'[u].fires = tick[u].fires
                            /\ tick'[u].package = tick[u].package
                            /\ tick'[u].attached => tick[u].attached /\ tick[u].package # p
                            /\ tick[u].package # p /\ tick[u].attached => tick'[u].attached
    BY <1>1, <2>1, <2>2, <2>3 DEF Follows, PackageInHand
  <2>5. /\ entry' \in [Packages -> Entry \cup {NoEntry}] /\ entry'[p] = NoEntry
        /\ \A q \in Packages : q # p => entry'[q] = entry[q]
    BY <1>1, <1>6 DEF SweepSkips, SchedulerTypeOK
  <2>6. \A u \in Ticks, q \in Packages : Lesser(u, q)
    BY <1>1, <2>4, <2>5, FollowsIsLesser DEF FiresOn
  <2>7. PackageInHand'
    BY <1>1, <2>3, <2>4, <2>5 DEF PackageInHand
  <2> QED BY <2>4, <2>5, <2>6, <2>7 DEF Quiet
<1>7. ASSUME NEW t \in Ticks, NEW p \in Packages, SweepLooksUp(t, p) PROVE Quiet
  <2> DEFINE new == [tick[t] EXCEPT !.pc = "anchor", !.queue = tick[t].queue \ {p}, !.package = p]
  <2>1. /\ new \in Sweep /\ new.pc = "anchor" /\ new.package = p /\ new.now = tick[t].now
        /\ new.queue = tick[t].queue \ {p} /\ new.crons = tick[t].crons
        /\ new.attached = tick[t].attached
    BY <1>1 DEF Sweep
  <2>2. /\ tick[t].pc = "sweep" /\ p \in tick[t].queue /\ tick[t].crons[p] # NoCron
        /\ tick' = [tick EXCEPT ![t] = new] /\ entry' = entry /\ now' = now
    BY <1>7 DEF SweepLooksUp
  <2> HIDE DEF new
  <2>3. /\ tick' \in [Ticks -> Sweep] /\ tick'[t] = new
        /\ \A u \in Ticks \ {t} : tick'[u] = tick[u]
    BY <1>1, <2>1, <2>2 DEF SchedulerTypeOK
  <2>4. ~tick[t].attached
    BY <1>1, <2>2 DEF PackageInHand
  <2>5. \A u \in Ticks, q \in Packages : Lesser(u, q)
    BY <2>1, <2>2, <2>3 DEF Lesser, Owed, FiresOn
  <2>6. PackageInHand'
    BY <1>1, <2>1, <2>2, <2>3, <2>4 DEF PackageInHand
  <2> QED BY <1>1, <2>2, <2>3, <2>5, <2>6 DEF Quiet, SchedulerTypeOK
<1>8. ASSUME NEW p \in Packages, NEW s \in Crons \cup {NoCron}, EditSchedule(p, s) PROVE Quiet
  <2>1. ASSUME NEW u \in Ticks
        PROVE  /\ tick'[u] \in Sweep /\ tick'[u].pc = tick[u].pc /\ tick'[u].now = tick[u].now
               /\ tick'[u].queue = tick[u].queue /\ tick'[u].fires = tick[u].fires
               /\ tick'[u].package = tick[u].package /\ tick'[u].attached = tick[u].attached
               /\ \A q \in Packages : q # p \/ p \notin tick[u].queue
                                       => tick'[u].crons[q] = tick[u].crons[q]
    <3>1. CASE tick' = tick
      BY <1>1, <3>1
    <3>2. CASE tick' # tick
      <4>1. tick'[u] = IF p \in tick[u].queue THEN [tick[u] EXCEPT !.crons[p] = s] ELSE tick[u]
        BY <1>8, <3>2 DEF EditSchedule
      <4> QED BY <1>1, <4>1 DEF Sweep
    <3> QED BY <3>1, <3>2
  <2>2. tick' \in [Ticks -> Sweep]
    <3>1. tick' = [u \in Ticks |-> tick'[u]]
      BY <1>1, <1>8 DEF EditSchedule, SchedulerTypeOK
    <3> QED BY <2>1, <3>1
  <2>3. entry' = entry /\ now' = now
    BY <1>8 DEF EditSchedule
  <2>4. \A u \in Ticks, q \in Packages : Lesser(u, q)
    BY <1>1, <2>1, FollowsIsLesser
  <2>5. PackageInHand'
    BY <1>1, <2>1, <2>3 DEF PackageInHand
  <2> QED BY <1>1, <2>2, <2>3, <2>4, <2>5 DEF Quiet, SchedulerTypeOK
<1> QED BY <1>3, <1>4, <1>5, <1>6, <1>7, <1>8

-----------------------------------------------------------------------------
(* Types, the books, and nothing skipped *)

SafeInv == HandInv /\ BooksInOrder /\ NothingSkipped

\* What a sweep does leaves the other variables in their types.
LEMMA OtherTypes ==
  ASSUME SchedulerTypeOK, PackageInHand, SchedulerNext
  PROVE  /\ now' \in Times /\ now <= now' /\ loaded' \subseteq Packages
         /\ cron' \in [Packages -> Crons \cup {NoCron}]
         /\ records' \in [Packages -> SUBSET Row] /\ run' \in [Packages -> ActiveRun]
         /\ refused' \subseteq Packages /\ raced' \subseteq Packages
<1> USE DEF SchedulerTypeOK
<1>1. now \in Nat /\ now <= now
  BY TimesAreNat
<1>2. NoRun \in ActiveRun
  BY DEF NoRun, ActiveRun
<1>3. ASSUME NEW t \in Ticks,
             \/ TickStarts(t) \/ Arm(t) \/ ArmUnanchored(t) \/ TickEnds(t) \/ FiresAnother(t)
             \/ \E p \in Packages :
                  SweepSkips(t, p) \/ SweepArmed(t, p) \/ SweepRearms(t, p) \/ SweepLooksUp(t, p)
      PROVE  /\ UNCHANGED <<now, loaded, cron, records, run>>
             /\ refused' \subseteq Packages /\ raced' \subseteq Packages
  BY <1>3 DEF TickStarts, Arm, ArmUnanchored, TickEnds, FiresAnother, SweepSkips, SweepArmed,
              SweepRearms, SweepLooksUp, Settle, rowVars, historyVars
<1>4. ASSUME NEW t \in Ticks, FireCoalesces(t) \/ FireRefused(t) \/ FireFails(t)
      PROVE  /\ UNCHANGED <<now, loaded, cron, records, run>>
             /\ refused' \subseteq Packages /\ raced' \subseteq Packages
  <2>1. tick[t].package \in Packages
    BY <1>4 DEF FireCoalesces, FireRefused, FireFails, PackageInHand
  <2> QED BY <1>4, <2>1 DEF FireCoalesces, FireRefused, FireFails, Settle, Answered, rowVars
<1>5. ASSUME NEW t \in Ticks, FireCreates(t)
      PROVE  /\ UNCHANGED <<now, loaded, cron>>
             /\ records' \in [Packages -> SUBSET Row] /\ run' \in [Packages -> ActiveRun]
             /\ refused' \subseteq Packages /\ raced' \subseteq Packages
  <2> DEFINE p == tick[t].package
             row == [at |-> now, sweep |-> tick[t].now]
             started == [state |-> "live", row |-> {row}]
  <2>1. p \in Packages /\ row \in Row
    BY <1>5 DEF FireCreates, PackageInHand, Sweep, Row
  <2>2. started \in ActiveRun
    BY <2>1 DEF ActiveRun
  <2>3. /\ run' = [run EXCEPT ![p] = started]
        /\ records' = [records EXCEPT ![p] = records[p] \cup {row}]
    BY <1>5 DEF FireCreates
  <2> HIDE DEF row, started
  <2>4. run' \in [Packages -> ActiveRun]
    BY <2>1, <2>2, <2>3
  <2>5. records' \in [Packages -> SUBSET Row]
    BY <2>1, <2>3
  <2> QED BY <1>5, <2>4, <2>5 DEF FireCreates, Settle, Answered
<1>6. ASSUME NEW p \in Packages,
             \/ Load(p) \/ Unload(p)
             \/ \E s \in Crons \cup {NoCron} : EditSchedule(p, s)
      PROVE  /\ UNCHANGED <<now, records, run, refused, raced>>
             /\ loaded' \subseteq Packages
             /\ cron' \in [Packages -> Crons \cup {NoCron}]
  BY <1>6 DEF Load, Unload, EditSchedule, rowVars, historyVars
<1>7. ASSUME NEW p \in Packages,
             \/ RunOnDemand(p) \/ RunEnds(p) \/ RunIsLost(p) \/ StopLost(p) \/ PurgeRows(p)
             \/ \E r \in records[p] : DeleteRecord(p, r)
      PROVE  /\ UNCHANGED <<now, loaded, cron, refused, raced>>
             /\ records' \in [Packages -> SUBSET Row] /\ run' \in [Packages -> ActiveRun]
  <2>1. [state |-> "live", row |-> {}] \in ActiveRun
    BY DEF ActiveRun
  <2>2. [run[p] EXCEPT !.state = "dead"] \in ActiveRun
    BY DEF ActiveRun
  <2>3. \A r \in records[p] : [records EXCEPT ![p] = records[p] \ {r}] \in [Packages -> SUBSET Row]
    OBVIOUS
  <2> QED BY <1>2, <1>7, <2>1, <2>2, <2>3
          DEF RunOnDemand, RunEnds, RunIsLost, StopLost, PurgeRows, DeleteRecord, historyVars
<1>8. CASE TimePasses
  <2>1. now + 1 \in Times /\ now <= now + 1
    BY <1>1, <1>8, SchedulerBounds DEF TimePasses, Times
  <2> QED BY <1>8, <2>1 DEF TimePasses, rowVars, historyVars
<1>9. CASE Restart
  <2>1. \A p \in Packages : [run[p] EXCEPT !.state = "dead"] \in ActiveRun
    BY DEF ActiveRun
  <2> QED BY <1>1, <1>9, <2>1 DEF Restart
<1> QED BY <1>1, <1>3, <1>4, <1>5, <1>6, <1>7, <1>8, <1>9 DEF SchedulerNext

LEMMA TurnKeepsHand ==
  ASSUME SchedulerTypeOK, PackageInHand, NEW t \in Ticks, NEW p \in Packages, Turns(t, p)
  PROVE  PackageInHand'
<1>1. tick[t].crons[p] # NoCron /\ p \notin tick'[t].queue
  BY EntryFacts DEF Turns
<1>2. ASSUME NEW u \in Ticks \ {t}, tick'[u].attached
      PROVE  /\ tick[u].attached /\ tick[u].package \in Packages
             /\ entry'[tick[u].package].schedule = tick[u].crons[tick[u].package]
  <2>1. /\ tick[u].attached /\ tick[u].package \in Packages
        /\ entry[tick[u].package].schedule = tick[u].crons[tick[u].package]
    BY <1>2 DEF Turns, Follows, PackageInHand
  <2> QED BY <1>2, <2>1 DEF Turns
<1> QED BY <1>1, <1>2 DEF PackageInHand, Turns, Follows

LEMMA FireKeepsHand ==
  ASSUME SchedulerTypeOK, PackageInHand, NEW t \in Ticks, NEW p \in Packages, Fires(t, p)
  PROVE  PackageInHand'
<1>1. ASSUME NEW u \in Ticks \ {t}, tick'[u].attached
      PROVE  entry'[tick[u].package].schedule = entry[tick[u].package].schedule
  <2>1. tick[u].package \in Packages
    BY <1>1 DEF Fires, PackageInHand
  <2> QED BY <2>1 DEF Fires
<1> QED BY <1>1 DEF PackageInHand, Fires

\* Nothing is armed, and rows at most go: the books stay right.
LEMMA QuietKeepsBooks ==
  ASSUME SchedulerTypeOK, BooksInOrder, NothingSkipped, now \in Nat, now' \in Nat, now <= now',
         settled' = settled, refused \subseteq refused',
         \A q \in Packages : entry'[q] \in {entry[q], NoEntry} /\ records'[q] \subseteq records[q]
  PROVE  BooksInOrder' /\ NothingSkipped'
<1>1. \A q \in Packages : settled[q] \in Nat
  BY TimesAreNat DEF SchedulerTypeOK
<1>2. BooksInOrder'
  BY <1>1 DEF BooksInOrder
<1> QED BY <1>2 DEF NothingSkipped

\* The steps that arm nothing and start no sweep.
Aside ==
  \/ TimePasses
  \/ \E t \in Ticks : TickEnds(t) \/ FiresAnother(t)
  \/ \E t \in Ticks, p \in Packages : SweepSkips(t, p) \/ SweepLooksUp(t, p)
  \/ \E p \in Packages :
       \/ Load(p) \/ Unload(p) \/ RunOnDemand(p) \/ RunEnds(p) \/ RunIsLost(p) \/ StopLost(p)
       \/ PurgeRows(p)
       \/ \E s \in Crons \cup {NoCron} : EditSchedule(p, s)
       \/ \E r \in records[p] : DeleteRecord(p, r)

Turning ==
  \E t \in Ticks : \/ Arm(t) \/ ArmUnanchored(t)
                   \/ \E p \in Packages : SweepArmed(t, p) \/ SweepRearms(t, p)

LEMMA StepKinds ==
  SchedulerNext => \/ Aside \/ Turning \/ Restart
                   \/ \E t \in Ticks : TickStarts(t) \/ AnyFire(t)
BY DEF SchedulerNext, Aside, Turning, AnyFire

LEMMA AsideFacts ==
  ASSUME HandInv, Aside, now' \in Times, now <= now'
  PROVE  /\ Quiet /\ settled' = settled /\ refused' = refused /\ raced' = raced
         /\ \A q \in Packages : records'[q] \subseteq records[q]
<1>1. SchedulerTypeOK
  BY DEF HandInv
<1>2. /\ settled' = settled /\ refused' = refused /\ raced' = raced
      /\ \/ records' = records
         \/ \E p \in Packages, r \in Row : records' = [records EXCEPT ![p] = records[p] \ {r}]
         \/ \E p \in Packages : records' = [records EXCEPT ![p] = {}]
  BY <1>1 DEF Aside, TimePasses, TickEnds, FiresAnother, SweepSkips, SweepLooksUp, Load, Unload,
              RunOnDemand, RunEnds, RunIsLost, StopLost, PurgeRows, EditSchedule, DeleteRecord,
              rowVars, historyVars, SchedulerTypeOK
<1>3. \A q \in Packages : records'[q] \subseteq records[q]
  BY <1>1, <1>2 DEF SchedulerTypeOK
<1>4. \/ UNCHANGED <<tick, entry>>
      \/ \E t \in Ticks : TickEnds(t) \/ FiresAnother(t)
      \/ \E t \in Ticks, p \in Packages : SweepSkips(t, p) \/ SweepLooksUp(t, p)
      \/ \E p \in Packages, s \in Crons \cup {NoCron} : EditSchedule(p, s)
  BY DEF Aside, TimePasses, Load, Unload, RunOnDemand, RunEnds, RunIsLost, StopLost, PurgeRows,
         DeleteRecord, sweepVars
<1> QED BY <1>2, <1>3, <1>4, QuietOf

LEMMA SafeInit == SchedulerInit => SafeInv /\ OnceInv
<1> SUFFICES ASSUME SchedulerInit PROVE SafeInv /\ OnceInv
  OBVIOUS
<1>1. SchedulerTypeOK
  BY NoTickType, TimesAreNat DEF SchedulerInit, SchedulerTypeOK, ActiveRun, NoRun
<1>2. \A t \in Ticks : tick[t] = NoTick
  BY DEF SchedulerInit
<1>3. PackageInHand
  BY <1>2, NoTickType DEF SchedulerInit, PackageInHand
<1>4. BooksInOrder /\ NothingSkipped
  BY DEF SchedulerInit, BooksInOrder, NothingSkipped
<1>5. OnceInv
  BY <1>2, NoTickType, NoPackageAssumption
     DEF SchedulerInit, OnceInv, OnceRight, OneOwes, NotTooSoon, DueAnew, FiresOn, Owed
<1> QED BY <1>1, <1>3, <1>4, <1>5 DEF SafeInv, HandInv

LEMMA SafeStep == SafeInv /\ [SchedulerNext]_schedulerVars => SafeInv'
<1> SUFFICES ASSUME SafeInv, [SchedulerNext]_schedulerVars PROVE SafeInv'
  OBVIOUS
<1>1. /\ HandInv /\ SchedulerTypeOK /\ PackageInHand /\ BooksInOrder /\ NothingSkipped
      /\ now \in Nat /\ \A t \in Ticks : tick[t].now \in Times /\ tick[t].now <= now
      /\ \A p \in Packages : settled[p] \in Nat
      /\ \A p \in Packages : \A r \in records[p] : r.at \in Nat /\ r.sweep \in Nat
  <2>1. HandInv /\ SchedulerTypeOK /\ PackageInHand /\ BooksInOrder /\ NothingSkipped
    BY DEF SafeInv, HandInv
  <2>2. ASSUME NEW p \in Packages, NEW r \in records[p] PROVE r.at \in Nat /\ r.sweep \in Nat
    <3>1. r \in Row
      BY <2>1 DEF SchedulerTypeOK
    <3> QED BY <3>1, TimesAreNat DEF Row
  <2> QED BY <2>1, <2>2, TimesAreNat DEF SchedulerTypeOK, PackageInHand, Sweep
<1>2. CASE UNCHANGED schedulerVars
  BY <1>1, <1>2 DEF schedulerVars, sweepVars, rowVars, historyVars, SafeInv, HandInv,
     SchedulerTypeOK, PackageInHand, BooksInOrder, NothingSkipped
<1>3. ASSUME SchedulerNext
      PROVE  /\ now' \in Times /\ now' \in Nat /\ now <= now'
             /\ tick' \in [Ticks -> Sweep] /\ entry' \in [Packages -> Entry \cup {NoEntry}]
                /\ settled' \in [Packages -> Times] => SchedulerTypeOK'
  <2>1. /\ now' \in Times /\ now <= now' /\ loaded' \subseteq Packages
        /\ cron' \in [Packages -> Crons \cup {NoCron}]
        /\ records' \in [Packages -> SUBSET Row] /\ run' \in [Packages -> ActiveRun]
        /\ refused' \subseteq Packages /\ raced' \subseteq Packages
    BY <1>1, <1>3, OtherTypes
  <2> QED BY <2>1, TimesAreNat DEF SchedulerTypeOK
<1>4. ASSUME SchedulerNext, Aside PROVE SafeInv'
  <2>1. /\ Quiet /\ settled' = settled /\ refused' = refused
        /\ \A q \in Packages : records'[q] \subseteq records[q]
    BY <1>1, <1>3, <1>4, AsideFacts
  <2>2. BooksInOrder' /\ NothingSkipped'
    BY <1>1, <1>3, <1>4, <2>1, QuietKeepsBooks DEF Quiet
  <2>3. SchedulerTypeOK'
    BY <1>1, <1>3, <1>4, <2>1 DEF Quiet, SchedulerTypeOK
  <2> QED BY <2>1, <2>2, <2>3 DEF Quiet, SafeInv, HandInv
<1>5. ASSUME SchedulerNext, Turning PROVE SafeInv'
  <2>0. PICK t \in Ticks : \/ Arm(t) \/ ArmUnanchored(t)
                           \/ \E p \in Packages : SweepArmed(t, p) \/ SweepRearms(t, p)
    BY <1>5 DEF Turning
  <2>1. PICK p \in Owed(t) : Turns(t, p) /\ ArmsFrom(t, p)
    BY <1>1, <2>0, TurnsOf
  <2>2. p \in Packages /\ tick[t].crons[p] \in Crons
    BY <2>1, EntryFacts DEF Owed, Turns
  <2>3. SettledUp(p)
    BY <1>1, <2>1, TimesAreNat DEF ArmsFrom, SettledUp, SchedulerTypeOK, BooksInOrder
  <2>4. SchedulerTypeOK'
    BY <1>3, <1>5, <2>1, <2>3 DEF Turns, SettledUp
  <2>5. PackageInHand'
    BY <1>1, <2>1, <2>2, TurnKeepsHand
  <2>6. \A q \in Packages : settled'[q] \in Nat
    BY <2>3, TimesAreNat DEF SettledUp
  <2>7. BooksInOrder'
    BY <1>1, <2>1, <2>3, <2>6 DEF Turns, SettledUp, BooksInOrder
  <2>8. NothingSkipped'
    <3>1. ASSUME NEW q \in Packages, q \notin refused', entry'[q] # NoEntry
          PROVE  entry'[q].next <= NextAfter(entry'[q].schedule, settled'[q])
      <4>1. CASE entry' = entry /\ settled' = settled /\ refused' = refused
        BY <1>1, <3>1, <4>1 DEF NothingSkipped
      <4>2. CASE q # p /\ refused' = refused \ {p}
        BY <1>1, <2>1, <2>3, <3>1, <4>2 DEF Turns, SettledUp, NothingSkipped
      <4>3. CASE q = p /\ ~(entry' = entry /\ settled' = settled /\ refused' = refused)
        <5>1. PICK a \in Times : /\ entry'[p].next = NextAfter(tick[t].crons[p], a)
                                 /\ a <= settled'[p]
          BY <2>1, <4>3 DEF ArmsFrom
        <5>2. settled'[p] \in Times /\ entry'[p].schedule = tick[t].crons[p]
          BY <2>1, <2>2, <2>3 DEF SettledUp, Turns
        <5> QED BY <2>2, <4>3, <5>1, <5>2, NextAfterFacts
      <4> QED BY <2>1, <4>1, <4>2, <4>3 DEF ArmsFrom
    <3> QED BY <3>1 DEF NothingSkipped
  <2> QED BY <2>4, <2>5, <2>7, <2>8 DEF SafeInv, HandInv
<1>6. ASSUME SchedulerNext, NEW t \in Ticks, AnyFire(t) PROVE SafeInv'
  <2> DEFINE p == tick[t].package
  <2>1. Fires(t, p)
    BY <1>1, <1>6, FiresOf
  <2>2. p \in Packages /\ tick[t].crons[p] \in Crons
    BY <1>1, <2>1 DEF Fires, FiresOn, PackageInHand, SchedulerTypeOK, Sweep
  <2> HIDE DEF p
  <2>3. SchedulerTypeOK'
    BY <1>3, <1>6, <2>1 DEF Fires, SettledUp
  <2>4. PackageInHand'
    BY <1>1, <2>1, <2>2, FireKeepsHand
  <2>5. \A q \in Packages : settled'[q] \in Nat /\ settled'[q] \in Times
    BY <2>1, TimesAreNat DEF Fires, SettledUp
  <2>6. BooksInOrder'
    <3>1. ASSUME NEW q \in Packages, NEW r \in records'[q]
          PROVE  r.sweep <= r.at /\ r.at <= settled'[q]
      <4>1. CASE r \in records[q]
        BY <1>1, <2>1, <2>5, <4>1 DEF Fires, SettledUp, BooksInOrder
      <4>2. CASE r \notin records[q]
        BY <1>1, <2>1, <3>1, <4>2 DEF Fires
      <4> QED BY <4>1, <4>2
    <3> QED BY <2>1, <3>1 DEF Fires, SettledUp, BooksInOrder
  <2>7. NothingSkipped'
    <3>1. ASSUME NEW q \in Packages, q \notin refused', entry'[q] # NoEntry
          PROVE  entry'[q].next <= NextAfter(entry'[q].schedule, settled'[q])
      <4>1. CASE q # p
        BY <1>1, <2>1, <3>1, <4>1 DEF Fires, SettledUp, NothingSkipped
      <4>2. CASE q = p /\ tick[t].attached
        <5>1. /\ entry'[p].schedule = tick[t].crons[p]
              /\ entry'[p].next = NextAfter(tick[t].crons[p], tick[t].now)
              /\ tick[t].now <= settled'[p]
          BY <2>1, <3>1, <4>2 DEF Fires
        <5> QED BY <1>1, <2>2, <2>5, <4>2, <5>1, NextAfterFacts
      <4>3. CASE q = p /\ ~tick[t].attached
        <5>1. entry' = entry /\ refused' = refused /\ settled[p] <= settled'[p]
          BY <2>1, <2>2, <4>3 DEF Fires, SettledUp
        <5>2. entry[p] \in Entry /\ entry[p].next <= NextAfter(entry[p].schedule, settled[p])
          BY <1>1, <2>2, <3>1, <4>3, <5>1 DEF NothingSkipped, SchedulerTypeOK
        <5>3. /\ settled[p] \in Times /\ settled'[p] \in Times /\ entry[p].schedule \in Crons
              /\ entry[p].next \in Nat
          BY <1>1, <2>2, <2>5, <5>2, EntryFacts DEF SchedulerTypeOK
        <5>4. /\ NextAfter(entry[p].schedule, settled[p]) <= NextAfter(entry[p].schedule, settled'[p])
              /\ NextAfter(entry[p].schedule, settled[p]) \in Nat
              /\ NextAfter(entry[p].schedule, settled'[p]) \in Nat
          BY <5>1, <5>3, NextAfterFacts
        <5> QED BY <4>3, <5>1, <5>2, <5>3, <5>4
      <4> QED BY <4>1, <4>2, <4>3
    <3> QED BY <3>1 DEF NothingSkipped
  <2> QED BY <2>3, <2>4, <2>6, <2>7 DEF SafeInv, HandInv
<1>7. ASSUME SchedulerNext, NEW t \in Ticks, TickStarts(t) PROVE SafeInv'
  <2> DEFINE new == [NoTick EXCEPT !.pc = "sweep", !.now = now, !.queue = loaded, !.crons = cron]
  <2>1. /\ new \in Sweep /\ ~new.attached /\ new.pc = "sweep" /\ new.now = now
        /\ new.package = NoPackage
    BY <1>1, NoTickType DEF NoTick, Sweep, SchedulerTypeOK
  <2>2. /\ tick' = [tick EXCEPT ![t] = new] /\ UNCHANGED <<now, entry, records, settled, refused>>
    BY <1>7 DEF TickStarts, rowVars
  <2> HIDE DEF new
  <2>3. /\ tick' \in [Ticks -> Sweep] /\ tick'[t] = new
        /\ \A u \in Ticks : u # t => tick'[u] = tick[u]
    BY <1>1, <2>1, <2>2 DEF SchedulerTypeOK
  <2>4. SchedulerTypeOK'
    BY <1>1, <1>3, <1>7, <2>2, <2>3 DEF SchedulerTypeOK
  <2>5. PackageInHand'
    <3>1. now <= now
      BY <1>1
    <3> QED BY <1>1, <2>1, <2>2, <2>3, <3>1 DEF PackageInHand
  <2>6. BooksInOrder' /\ NothingSkipped'
    BY <1>1, <2>2 DEF BooksInOrder, NothingSkipped
  <2> QED BY <2>4, <2>5, <2>6 DEF SafeInv, HandInv
<1>8. ASSUME SchedulerNext, Restart PROVE SafeInv'
  <2>1. /\ tick' = [t \in Ticks |-> NoTick] /\ entry' = [p \in Packages |-> NoEntry]
        /\ UNCHANGED <<now, records, settled, refused>>
    BY <1>8 DEF Restart
  <2>2. SchedulerTypeOK'
    BY <1>1, <1>3, <1>8, <2>1, NoTickType DEF SchedulerTypeOK
  <2>3. PackageInHand'
    BY <1>1, <2>1, NoTickType DEF PackageInHand
  <2>4. BooksInOrder' /\ NothingSkipped'
    BY <1>1, <2>1 DEF BooksInOrder, NothingSkipped
  <2> QED BY <2>2, <2>3, <2>4 DEF SafeInv, HandInv
<1> QED BY <1>2, <1>4, <1>5, <1>6, <1>7, <1>8, StepKinds

-----------------------------------------------------------------------------
(* One run of an occurrence *)

\* A step that arms nothing for p, and after which no sweep has more to do with it.
LEMMA OnceKept ==
  ASSUME NEW p \in Packages, OnceRight(p), entry'[p] \in {entry[p], NoEntry},
         records'[p] \subseteq records[p], \A u \in Ticks : Lesser(u, p)
  PROVE  OnceRight(p)'
<1>1. \A u \in Ticks : FiresOn(u, p)' => tick'[u].now = tick[u].now
  BY DEF Lesser, FiresOn, Owed
<1>2. OneOwes(p)'
  BY DEF OnceRight, OneOwes, Lesser
<1>3. NotTooSoon(p)'
  BY DEF OnceRight, NotTooSoon
<1>4. DueAnew(p)'
  BY <1>1 DEF OnceRight, DueAnew, Lesser
<1> QED BY <1>2, <1>3, <1>4 DEF OnceRight

LEMMA OnceStep ==
  ASSUME SafeInv, OnceInv, [SchedulerNext]_schedulerVars
  PROVE  OnceInv'
<1>1. /\ HandInv /\ SchedulerTypeOK /\ PackageInHand /\ BooksInOrder
      /\ now \in Nat /\ \A t \in Ticks : tick[t].now \in Times /\ tick[t].now \in Nat
      /\ \A p \in Packages : settled[p] \in Nat /\ settled[p] <= now
      /\ \A p \in Packages : \A r \in records[p] :
           /\ r.at \in Nat /\ r.sweep \in Nat /\ r.sweep \in Times
           /\ r.sweep <= r.at /\ r.at <= settled[p]
  <2>1. HandInv /\ SchedulerTypeOK /\ PackageInHand /\ BooksInOrder
    BY DEF SafeInv, HandInv
  <2>2. ASSUME NEW p \in Packages, NEW r \in records[p]
        PROVE  /\ r.at \in Nat /\ r.sweep \in Nat /\ r.sweep \in Times
               /\ r.sweep <= r.at /\ r.at <= settled[p]
    <3>1. r \in Row
      BY <2>1 DEF SchedulerTypeOK
    <3> QED BY <2>1, <3>1, TimesAreNat DEF Row, BooksInOrder
  <2> QED BY <2>1, <2>2, TimesAreNat DEF SchedulerTypeOK, Sweep, BooksInOrder
<1>2. CASE UNCHANGED schedulerVars
  BY <1>2 DEF schedulerVars, sweepVars, rowVars, historyVars, OnceInv, OnceRight, OneOwes,
     NotTooSoon, DueAnew, FiresOn, Owed
<1>3. ASSUME SchedulerNext, Aside PROVE OnceInv'
  <2>1. now' \in Times /\ now <= now'
    BY <1>1, <1>3, OtherTypes
  <2>2. /\ Quiet /\ raced' = raced
        /\ \A q \in Packages : records'[q] \subseteq records[q]
    BY <1>1, <1>3, <2>1, AsideFacts
  <2> QED BY <2>2, OnceKept DEF OnceInv, Quiet
<1>4. ASSUME SchedulerNext, Turning PROVE OnceInv'
  <2>0. PICK t \in Ticks : \/ Arm(t) \/ ArmUnanchored(t)
                           \/ \E p \in Packages : SweepArmed(t, p) \/ SweepRearms(t, p)
    BY <1>4 DEF Turning
  <2>1. PICK p \in Owed(t) : /\ Turns(t, p) /\ ArmsFrom(t, p)
                             /\ \/ tick[t].pc = "sweep" /\ p \in tick[t].queue
                                \/ tick[t].pc = "anchor" /\ p = tick[t].package
    BY <1>1, <2>0, TurnsOf
  <2> DEFINE s == tick[t].crons[p]
  <2>2. p \in Packages /\ s \in Crons /\ entry'[p] \in Entry /\ entry'[p].schedule = s
    BY <2>1, EntryFacts DEF Owed, Turns
  <2>3. ASSUME NEW q \in Packages, q # p, OnceRight(q) PROVE OnceRight(q)'
    <3>1. \A u \in Ticks : Lesser(u, q)
      <4>1. Lesser(t, q)
        BY <2>1, <2>3, NoPackageAssumption DEF Turns, Lesser, Owed, FiresOn
      <4>2. ASSUME NEW u \in Ticks \ {t} PROVE Lesser(u, q)
        BY <2>1, <2>3, <4>2 DEF Turns, Follows, Lesser, Owed, FiresOn
      <4> QED BY <4>1, <4>2
    <3>2. entry'[q] = entry[q] /\ records' = records
      BY <2>1, <2>3 DEF Turns
    <3> QED BY <2>3, <3>1, <3>2, OnceKept
  <2>4. ASSUME OnceRight(p) PROVE OnceRight(p)'
    <3>1. /\ \A u \in Ticks \ {t} : p \notin Owed(u)
          /\ \A r \in records[p] : r.sweep <= tick[t].now
      BY <2>1, <2>4 DEF OnceRight, OneOwes
    <3>2. /\ \A u \in Ticks \ {t} : p \notin Owed(u)' /\ ~FiresOn(u, p)'
          /\ records' = records /\ tick'[t].now = tick[t].now /\ tick'[t].crons = tick[t].crons
      BY <2>1, <2>2, <3>1 DEF Turns, Follows, Owed, FiresOn
    <3>3. OneOwes(p)'
      BY <3>1, <3>2 DEF OneOwes
    <3>4. \A r \in records[p] : NextAfter(s, r.sweep) <= entry'[p].next
      <4>1. CASE entry' = entry
        BY <2>2, <2>4, <4>1, EntryFacts DEF OnceRight, NotTooSoon
      <4>2. CASE entry' # entry
        <5>1. PICK a \in Times : /\ entry'[p].next = NextAfter(s, a)
                                 /\ a = tick[t].now \/ \A r \in records[p] : r.at <= a
          BY <2>1, <4>2 DEF ArmsFrom
        <5>2. ASSUME NEW r \in records[p] PROVE r.sweep <= a /\ r.sweep \in Times
          <6>1. a \in Nat /\ r.at \in Nat /\ r.sweep \in Nat /\ r.sweep <= r.at /\ r.sweep \in Times
            BY <1>1, <2>2, TimesAreNat
          <6> QED BY <3>1, <5>1, <6>1
        <5> QED BY <2>2, <5>1, <5>2, NextAfterFacts
      <4> QED BY <4>1, <4>2
    <3>5. NotTooSoon(p)'
      BY <2>2, <3>2, <3>4 DEF NotTooSoon
    <3>6. DueAnew(p)'
      <4>1. ASSUME FiresOn(t, p)'
            PROVE  /\ tick'[t].attached
                   /\ \A r \in records[p] : NextAfter(s, r.sweep) <= tick[t].now
        <5>1. tick'[t].attached /\ entry'[p].next <= tick[t].now
          BY <2>1, <4>1 DEF Turns, FiresOn
        <5>2. ASSUME NEW r \in records[p] PROVE NextAfter(s, r.sweep) <= tick[t].now
          <6>1. /\ NextAfter(s, r.sweep) \in Nat /\ entry'[p].next \in Nat /\ tick[t].now \in Nat
                /\ NextAfter(s, r.sweep) <= entry'[p].next
            BY <1>1, <2>2, <3>4, NextAfterFacts, EntryFacts
          <6> QED BY <5>1, <6>1
        <5> QED BY <5>1, <5>2
      <4> QED BY <3>2, <4>1 DEF DueAnew
    <3> QED BY <3>3, <3>5, <3>6 DEF OnceRight
  <2>5. raced' = raced
    BY <2>1 DEF Turns
  <2> QED BY <2>3, <2>4, <2>5 DEF OnceInv
<1>5. ASSUME SchedulerNext, NEW t \in Ticks, AnyFire(t) PROVE OnceInv'
  <2>0. Fires(t, tick[t].package) /\ tick[t].package \in Packages
    BY <1>1, <1>5, FiresOf DEF Fires, FiresOn, PackageInHand
  <2>1. PICK p \in Packages : Fires(t, p)
    BY <2>0
  <2> DEFINE s == tick[t].crons[p]
  <2>2. p \in Packages /\ s \in Crons /\ p \notin tick[t].queue /\ FiresOn(t, p)
    BY <1>1, <2>1 DEF Fires, FiresOn, PackageInHand, SchedulerTypeOK, Sweep
  <2>3. ASSUME NEW q \in Packages, q # p, OnceRight(q) PROVE OnceRight(q)'
    <3>1. \A u \in Ticks : Lesser(u, q)
      <4>1. Lesser(t, q)
        BY <2>1, <2>3, NoPackageAssumption DEF Fires, Lesser, Owed, FiresOn
      <4>2. ASSUME NEW u \in Ticks \ {t} PROVE Lesser(u, q)
        BY <2>1, <4>2 DEF Fires, Lesser, Owed, FiresOn
      <4> QED BY <4>1, <4>2
    <3>2. entry'[q] = entry[q] /\ records'[q] = records[q]
      BY <2>1, <2>3 DEF Fires
    <3> QED BY <2>3, <3>1, <3>2, OnceKept
  <2>4. ASSUME OnceRight(p) PROVE OnceRight(p)'
    <3>1. p \in Owed(t)
      BY <2>2 DEF Owed, FiresOn
    <3>2. /\ \A u \in Ticks \ {t} : p \notin Owed(u)
          /\ \A r \in records[p] : r.sweep <= tick[t].now
      BY <2>4, <3>1 DEF OnceRight, OneOwes
    <3>3. \A u \in Ticks : p \notin Owed(u)' /\ ~FiresOn(u, p)'
      BY <2>1, <2>2, <3>2, NoPackageAssumption DEF Fires, Owed, FiresOn
    <3>4. NotTooSoon(p)'
      <4>1. CASE tick[t].attached
        <5>1. /\ entry'[p].schedule = s /\ entry'[p].next = NextAfter(s, tick[t].now)
          BY <2>1, <4>1 DEF Fires
        <5>2. ASSUME NEW r \in records'[p]
              PROVE  r.sweep \in Times /\ r.sweep <= tick[t].now
          <6>1. CASE r \in records[p]
            BY <1>1, <2>2, <3>2, <6>1
          <6>2. CASE r \notin records[p]
            BY <1>1, <2>1, <6>2 DEF Fires
          <6> QED BY <6>1, <6>2
        <5> QED BY <1>1, <2>2, <5>1, <5>2, NextAfterFacts DEF NotTooSoon
      <4>2. CASE ~tick[t].attached
        BY <2>1, <2>2, <2>4, <4>2 DEF OnceRight, DueAnew, Fires, NotTooSoon
      <4> QED BY <4>1, <4>2
    <3> QED BY <3>3, <3>4 DEF OnceRight, OneOwes, DueAnew
  <2>5. raced' = raced
    BY <2>1 DEF Fires
  <2> QED BY <2>3, <2>4, <2>5 DEF OnceInv
<1>6. ASSUME NEW t \in Ticks, TickStarts(t) PROVE OnceInv'
  <2>1. /\ tick[t].pc = "idle" /\ UNCHANGED <<entry, records>>
        /\ tick'[t].pc = "sweep" /\ tick'[t].now = now /\ tick'[t].queue = loaded
        /\ tick'[t].package = NoPackage
        /\ \A u \in Ticks \ {t} : tick'[u] = tick[u]
        /\ raced' = raced \cup {p \in loaded : \E u \in Ticks : p \in Owed(u)}
    BY <1>1, <1>6 DEF TickStarts, rowVars, NoTick, SchedulerTypeOK
  <2>2. ASSUME NEW q \in Packages, q \notin raced', q \notin loaded PROVE OnceRight(q)'
    <3>1. \A u \in Ticks : Lesser(u, q)
      <4>1. Lesser(t, q)
        BY <2>1, <2>2, NoPackageAssumption DEF Lesser, Owed, FiresOn
      <4>2. ASSUME NEW u \in Ticks \ {t} PROVE Lesser(u, q)
        BY <2>1, <4>2 DEF Lesser, Owed, FiresOn
      <4> QED BY <4>1, <4>2
    <3>2. OnceRight(q) /\ entry'[q] = entry[q] /\ records'[q] = records[q]
      BY <2>1, <2>2 DEF OnceInv
    <3> QED BY <3>1, <3>2, OnceKept
  <2>3. ASSUME NEW q \in Packages, q \notin raced', q \in loaded PROVE OnceRight(q)'
    <3>1. OnceRight(q) /\ \A u \in Ticks : q \notin Owed(u)
      BY <2>1, <2>3 DEF OnceInv
    <3>2. \A u \in Ticks \ {t} : q \notin Owed(u)' /\ ~FiresOn(u, q)'
      BY <2>1, <3>1 DEF Owed, FiresOn
    <3>3. \A r \in records[q] : r.sweep <= now
      BY <1>1
    <3>4. OneOwes(q)'
      BY <2>1, <3>2, <3>3 DEF OneOwes
    <3>5. DueAnew(q)'
      BY <2>1, <3>2 DEF DueAnew, FiresOn
    <3>6. NotTooSoon(q)'
      BY <2>1, <3>1 DEF OnceRight, NotTooSoon
    <3> QED BY <3>4, <3>5, <3>6 DEF OnceRight
  <2> QED BY <2>2, <2>3 DEF OnceInv
<1>7. ASSUME Restart PROVE OnceInv'
  <2>1. \A t \in Ticks : tick'[t] = NoTick
    BY <1>7 DEF Restart
  <2>2. \A p \in Packages : entry'[p] = NoEntry
    BY <1>7 DEF Restart
  <2> QED BY <2>1, <2>2, NoTickType, NoPackageAssumption
          DEF OnceInv, OnceRight, OneOwes, NotTooSoon, DueAnew, FiresOn, Owed
<1> QED BY <1>2, <1>3, <1>4, <1>5, <1>6, <1>7, StepKinds

-----------------------------------------------------------------------------

\* Every variable of the scheduler stays within its type, however sweeps overlap.
THEOREM SchedulerTypes == SchedulerSpec => []SchedulerTypeOK
<1>1. SafeInv => SchedulerTypeOK
  BY DEF SafeInv, HandInv
<1>2. SchedulerInit => SafeInv
  BY SafeInit
<1> QED BY <1>1, <1>2, SafeStep, PTL DEF SchedulerSpec

\* No occurrence is lost, however sweeps overlap: an armed package is due no later
\* than the first occurrence after the last one that was accounted for, across
\* unloads, capped sweeps, deleted runs and restarts, unless a row without a task
\* refused its fire (arm, recoveryAnchor and the advance of tick agree).
THEOREM NothingIsSkipped == SchedulerSpec => []NothingSkipped
<1>1. SafeInv => NothingSkipped
  BY DEF SafeInv
<1>2. SchedulerInit => SafeInv
  BY SafeInit
<1> QED BY <1>1, <1>2, SafeStep, PTL DEF SchedulerSpec

\* No occurrence that a recorded run covers is run again: what a sweep fires was
\* armed for an occurrence after the sweep of every run still recorded, across
\* restarts, failures and deletions, unless two sweeps of the process owed the
\* package at once (fire, arm).
THEOREM OccurrencesRunOnce == SchedulerSpec => OneRunPerOccurrence
<1> DEFINE Once ==
      \A t \in Ticks :
        LET p == tick[t].package
            fires == tick[t].pc = "fire" /\ tick'[t].pc = "sweep" /\ run'[p] # run[p]
        IN fires /\ p \notin raced
           => \A r \in records[p] : NextAfter(tick[t].crons[p], r.sweep) <= tick[t].now
<1>1. SafeInv /\ OnceInv => Once
  <2> SUFFICES ASSUME SafeInv, OnceInv, NEW t \in Ticks, tick[t].pc = "fire",
                      tick[t].package \notin raced,
                      NEW r \in records[tick[t].package]
               PROVE  NextAfter(tick[t].crons[tick[t].package], r.sweep) <= tick[t].now
    OBVIOUS
  <2>1. tick[t].package \in Packages
    BY DEF SafeInv, HandInv, PackageInHand
  <2>2. DueAnew(tick[t].package)
    BY <2>1 DEF OnceInv, OnceRight
  <2> QED BY <2>2 DEF DueAnew, FiresOn
<1>2. SafeInv /\ OnceInv /\ [SchedulerNext]_schedulerVars => (SafeInv /\ OnceInv)'
  BY SafeStep, OnceStep
<1>3. SafeInv /\ OnceInv /\ [SchedulerNext]_schedulerVars => [Once]_schedulerVars
  BY <1>1
<1> QED BY <1>2, <1>3, SafeInit, PTL DEF SchedulerSpec, OneRunPerOccurrence
=============================================================================
