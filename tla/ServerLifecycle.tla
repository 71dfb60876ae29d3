--------------------------- MODULE ServerLifecycle ---------------------------
(* One process of the server from start to exit: initialisation and readiness,  *)
(* the query slots, the memory governor, and the shutdown on SIGTERM, with      *)
(* requests in flight on the REST server and on the MCP server.                 *)
EXTENDS Naturals, FiniteSets

CONSTANTS
  Queries, \* REST requests of a gated route
  Streams, \* REST requests that hold a live-reload stream
  Tools,   \* MCP requests that execute a query
  Limits   \* values of PUBLISHER_MAX_CONCURRENT_QUERIES

Requests == Queries \cup Streams \cup Tools
Servers == {"main", "mcp"}
ServerOf(r) == IF r \in Tools THEN "mcp" ELSE "main"

ASSUME RequestsAssumption ==
  /\ IsFiniteSet(Requests)
  /\ Queries \cap Streams = {} /\ Queries \cap Tools = {} /\ Streams \cap Tools = {}
ASSUME LimitsAssumption == Limits \subseteq Nat /\ Limits # {}

VARIABLES
  init,             \* initialize of the environment store
  operationalState,
  ready,            \* what the readiness probe answers
  preGracefulShutdownCompleted,
  limit,            \* the cap, read on every request
  active,           \* slots taken
  handle,           \* of each request: the slot it took
  request,          \* of each request: how far it is
  connection,       \* of each request: its connection is open
  backpressured,    \* the governor's flag
  server,           \* of each server: accepting, closing or closed
  shutdown          \* progress of the SIGTERM handler

health == <<operationalState, ready, preGracefulShutdownCompleted>>
traffic == <<active, handle, request, connection>>
vars == <<init, operationalState, ready, preGracefulShutdownCompleted, limit, active, handle,
          request, connection, backpressured, server, shutdown>>

TypeOK ==
  /\ init \in {"running", "done", "failed"}
  /\ operationalState \in {"initializing", "serving", "draining"}
  /\ ready \in BOOLEAN /\ preGracefulShutdownCompleted \in BOOLEAN
  /\ limit \in Limits
  /\ active \in Nat
  /\ handle \in [Requests -> {"none", "unlimited", "held", "released"}]
  /\ request \in [Requests -> {"new", "admitted", "found", "running", "answered", "refused"}]
  /\ connection \in [Requests -> BOOLEAN]
  /\ backpressured \in BOOLEAN
  /\ server \in [Servers -> {"accepting", "closing", "closed"}]
  /\ shutdown \in {"none", "drain", "close", "sdk", "pool", "wait", "exited"}

Init ==
  /\ init = "running"
  /\ operationalState = "initializing"
  /\ ready = FALSE /\ preGracefulShutdownCompleted = FALSE
  /\ limit \in Limits
  /\ active = 0
  /\ handle = [r \in Requests |-> "none"]
  /\ request = [r \in Requests |-> "new"]
  /\ connection = [r \in Requests |-> FALSE]
  /\ backpressured = FALSE
  /\ server = [s \in Servers |-> "accepting"]
  /\ shutdown = "none"

Alive == shutdown # "exited"

-----------------------------------------------------------------------------
(* Health *)

\* Variant: the end of the initialisation makes the service ready whatever came in
\* between.
MarkReadyAlways ==
  /\ operationalState' = "serving"
  /\ ready' = TRUE
  /\ UNCHANGED preGracefulShutdownCompleted

MarkReady ==
  IF operationalState # "draining"
  THEN /\ operationalState' = "serving"
       /\ ready' = TRUE
       /\ UNCHANGED preGracefulShutdownCompleted
  ELSE UNCHANGED health

InitializationSucceeds ==
  /\ Alive
  /\ init = "running"
  /\ init' = "done"
  /\ MarkReady
  /\ UNCHANGED <<limit, traffic, backpressured, server, shutdown>>

\* markNotReady; the process stays.
InitializationFails ==
  /\ Alive
  /\ init = "running"
  /\ init' = "failed"
  /\ ready' = FALSE
  /\ UNCHANGED <<operationalState, preGracefulShutdownCompleted, limit, traffic, backpressured, server, shutdown>>

-----------------------------------------------------------------------------
(* Query slots *)

\* Variant: a second event gives the slot back a second time.
ReleaseTwice(r) ==
  /\ handle' = [handle EXCEPT ![r] = IF @ = "held" THEN "released" ELSE @]
  /\ active' = IF handle[r] \in {"held", "released"} /\ active > 0 THEN active - 1 ELSE active

\* release of a handle, once; a request without one has nothing to release.
Release(r) ==
  /\ handle' = [handle EXCEPT ![r] = IF @ = "held" THEN "released" ELSE @]
  /\ active' = IF handle[r] = "held" /\ active > 0 THEN active - 1 ELSE active

\* tryAcquireQuerySlot: a cap of zero takes no slot.
TryAcquire(r, then) ==
  \/ /\ limit = 0
     /\ handle' = [handle EXCEPT ![r] = "unlimited"]
     /\ request' = [request EXCEPT ![r] = then]
     /\ UNCHANGED active
  \/ /\ limit > 0 /\ active < limit
     /\ handle' = [handle EXCEPT ![r] = "held"]
     /\ active' = active + 1
     /\ request' = [request EXCEPT ![r] = then]
  \/ /\ limit > 0 /\ active >= limit
     /\ request' = [request EXCEPT ![r] = "refused"]
     /\ UNCHANGED <<active, handle>>

-----------------------------------------------------------------------------
(* Requests *)

\* Only the REST server has it.
DrainingGuard == operationalState = "draining" /\ preGracefulShutdownCompleted

\* A server that is closing still gets requests on connections it has.
Reaches(r) ==
  \/ server[ServerOf(r)] = "accepting"
  \/ /\ server[ServerOf(r)] = "closing"
     /\ \E q \in Requests : ServerOf(q) = ServerOf(r) /\ connection[q]

\* The slot of a REST query is taken on the way in, by the middleware.
Arrive(r) ==
  /\ Alive
  /\ request[r] = "new"
  /\ Reaches(r)
  /\ connection' = [connection EXCEPT ![r] = TRUE]
  /\ \/ /\ r \notin Tools
        /\ DrainingGuard
        /\ request' = [request EXCEPT ![r] = "refused"]
        /\ UNCHANGED <<active, handle>>
     \/ /\ r \in Streams
        /\ ~DrainingGuard
        /\ request' = [request EXCEPT ![r] = "running"]
        /\ UNCHANGED <<active, handle>>
     \/ /\ r \in Queries
        /\ ~DrainingGuard
        /\ TryAcquire(r, "admitted")
     \/ /\ r \in Tools
        /\ request' = [request EXCEPT ![r] = "admitted"]
        /\ UNCHANGED <<active, handle>>
  /\ UNCHANGED <<init, health, limit, backpressured, server, shutdown>>

\* getEnvironment, which waits for the initialisation, and assertCanAdmitQuery.
LookUp(r) ==
  /\ Alive
  /\ request[r] = "admitted"
  /\ init # "running"
  /\ request' = [request EXCEPT ![r] = IF backpressured THEN "refused"
                                        ELSE IF r \in Tools THEN "found" ELSE "running"]
  /\ UNCHANGED <<init, health, limit, active, handle, connection, backpressured, server, shutdown>>

\* A tool takes its slot when it has the model.
Execute(r) ==
  /\ Alive
  /\ request[r] = "found"
  /\ TryAcquire(r, "running")
  /\ UNCHANGED <<init, health, limit, connection, backpressured, server, shutdown>>

\* A query ends, by itself or by its timeout. The slot of a REST request waits for the
\* response, the one of a tool is released by the tool.
Answer(r) ==
  /\ Alive
  /\ r \notin Streams
  /\ request[r] = "running" \/ (request[r] = "refused" /\ handle[r] = "held")
  /\ request' = [request EXCEPT ![r] = "answered"]
  /\ Release(r)
  /\ UNCHANGED <<init, health, limit, connection, backpressured, server, shutdown>>

\* Variant: the slot is released by finish alone.
CloseKeepingSlot(r) ==
  /\ Alive
  /\ connection[r]
  /\ connection' = [connection EXCEPT ![r] = FALSE]
  /\ UNCHANGED <<init, health, limit, active, handle, request, backpressured, server, shutdown>>

\* The connection closes: after the response, because the client left or because the
\* socket timed out. It is the second release of a REST request that was answered.
Close(r) ==
  /\ Alive
  /\ connection[r]
  /\ connection' = [connection EXCEPT ![r] = FALSE]
  /\ IF r \in Queries THEN Release(r) ELSE UNCHANGED <<active, handle>>
  /\ UNCHANGED <<init, health, limit, request, backpressured, server, shutdown>>

Reconfigure ==
  /\ Alive
  /\ limit' \in Limits \ {limit}
  /\ UNCHANGED <<init, health, traffic, backpressured, server, shutdown>>

-----------------------------------------------------------------------------
(* Memory governor *)

\* A sample at or above the high mark, at or below the low one, between them, or none.
Tick(rss) ==
  /\ Alive
  /\ backpressured' = (rss = "high" \/ (rss # "low" /\ backpressured))
  /\ UNCHANGED <<init, health, limit, traffic, server, shutdown>>

-----------------------------------------------------------------------------
(* Shutdown *)

SigTerm ==
  /\ shutdown = "none"
  /\ ready' = FALSE
  /\ operationalState' = "draining"
  /\ shutdown' = "drain"
  /\ UNCHANGED <<init, preGracefulShutdownCompleted, limit, traffic, backpressured,
                 server>>

\* Variant: the second server is left to the exit.
DrainEndsMainOnly ==
  /\ shutdown = "drain"
  /\ preGracefulShutdownCompleted' = TRUE
  /\ server' = [server EXCEPT !["main"] = "closing"]
  /\ shutdown' = "close"
  /\ UNCHANGED <<init, operationalState, ready, limit, traffic, backpressured>>

\* The drain timer fires; both servers stop accepting.
DrainEnds ==
  /\ shutdown = "drain"
  /\ preGracefulShutdownCompleted' = TRUE
  /\ server' = [s \in Servers |-> "closing"]
  /\ shutdown' = "close"
  /\ UNCHANGED <<init, operationalState, ready, limit, traffic, backpressured>>

\* server.close calls back once the last connection is gone.
ServerClosed(s) ==
  /\ Alive
  /\ server[s] = "closing"
  /\ \A r \in Requests : ServerOf(r) = s => ~connection[r]
  /\ server' = [server EXCEPT ![s] = "closed"]
  /\ UNCHANGED <<init, health, limit, traffic, backpressured, shutdown>>

\* Variant: the shutdown goes on with the first server that closed.
AllClosedFirst == \E s \in Servers : server[s] = "closed"

AllClosed == \A s \in Servers : server[s] = "closed"

\* shutdownSDK, the load pool, the graceful-close window and the exit.
ShutdownStep ==
  /\ \/ shutdown = "close" /\ AllClosed /\ shutdown' = "sdk"
     \/ shutdown = "sdk" /\ shutdown' = "pool"
     \/ shutdown = "pool" /\ shutdown' = "wait"
     \/ shutdown = "wait" /\ shutdown' = "exited"
  /\ UNCHANGED <<init, health, limit, traffic, backpressured, server>>

Next ==
  \/ InitializationSucceeds \/ InitializationFails
  \/ \E r \in Requests : Arrive(r) \/ LookUp(r) \/ Execute(r) \/ Answer(r) \/ Close(r)
  \/ Reconfigure
  \/ \E rss \in {"high", "low", "between", "unreadable"} : Tick(rss)
  \/ SigTerm \/ DrainEnds \/ (\E s \in Servers : ServerClosed(s)) \/ ShutdownStep

\* The event loop runs what is due; sockets time out, except the ones a heartbeat
\* keeps busy.
Fairness ==
  /\ WF_vars(DrainEnds) /\ WF_vars(ShutdownStep)
  /\ \A s \in Servers : WF_vars(ServerClosed(s))
  /\ \A r \in Requests \ Streams : WF_vars(Close(r))

Spec == Init /\ [][Next]_vars /\ Fairness

-----------------------------------------------------------------------------
(* Properties *)

\* The counter of slots is the number of requests that hold one, whatever the order
\* of finish, close and changes of the cap (tryAcquireQuerySlot, release).
SlotsAreExact == active = Cardinality({r \in Requests : handle[r] = "held"})

\* No slot outlives its request: a REST request whose connection is gone, and a tool
\* that is over, hold none (queryConcurrencyMiddleware, the finally of the tools).
SlotsAreReturned ==
  \A r \in Requests :
    handle[r] = "held" => IF r \in Queries THEN connection[r] ELSE request[r] # "answered"

\* A service that is shutting down does not become ready again, also when its
\* initialisation ends after the signal (markReady, registerSignalHandlers).
NeverReadyAgain == shutdown # "none" => ~ready /\ operationalState = "draining"

\* The load pool and the process are shut down only when no response is under way
\* on either server (performGracefulShutdownAfterDrain).
NothingIsCutOff ==
  shutdown \in {"sdk", "pool", "wait", "exited"} => \A r \in Requests : ~connection[r]

\* A signal ends the process, unless a live-reload stream is left open.
ShutdownEnds ==
  shutdown = "drain" ~> (shutdown = "exited" \/ \E r \in Streams : connection[r])
=============================================================================
