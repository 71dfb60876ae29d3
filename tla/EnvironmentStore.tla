--------------------------- MODULE EnvironmentStore ---------------------------
(* One environment name in the store: the map of environments, the record of    *)
(* failures, the database row with its storage destinations, the directory and  *)
(* the configuration file, across calls of the API, restarts and failures.      *)
(*                                                                              *)
(* A call is cut at its awaits, so that the process may end between any two. The *)
(* store does not serialise calls on one name; they are taken one at a time.    *)
EXTENDS Naturals

CONSTANTS
  Dests,   \* names of storage destinations
  Faults,  \* BOOLEAN: statements and file operations may fail
  MaxCalls \* bound on calls, restarts and edits of the configuration

ASSUME BoundsAssumption == MaxCalls \in Nat /\ Faults \in BOOLEAN

Absent == [given |-> FALSE, list |-> {}]
List(dests) == [given |-> TRUE, list |-> dests]
Payload == {Absent} \cup {List(ds) : ds \in SUBSET Dests}

VARIABLES
  row,    \* the environment's row is in the database
  others, \* the database holds rows of other environments
  stored, \* rows of its destinations
  dir,    \* its directory exists
  config, \* publisher.config.json: does it list the environment, with what
  phase,  \* of the process
  loaded, \* the environment is in this.environments
  dests,  \* its destinations in memory
  authoritative, \* and whether they are the desired state
  failed, \* it is in failedEnvironments
  call,   \* the call in progress
  calls,  \* bound
  asked,  \* history: the destinations last asked for by an explicit list
  lapsed, \* history: the environment was created although its row was there
  unread, \* history: a boot went on without reading the stored destinations
  torn    \* history: a sync since the last list, or a delete, did not finish

environment == <<loaded, dests, authoritative>>
disk == <<row, others, stored, dir, config>>
history == <<asked, lapsed, unread, torn>>
vars == <<row, others, stored, dir, config, phase, loaded, dests, authoritative, failed, call,
          calls, asked, lapsed, unread, torn>>

NoCall == [pc |-> "idle", payload |-> Absent, fallback |-> FALSE, todo |-> {}, gone |-> {}]
Call == [pc : {"idle", "existing", "mount", "create", "row", "upsert", "prune",
               "close", "undest", "unrow", "rmdir", "access", "read", "restore"},
         payload : Payload, fallback : BOOLEAN, todo : SUBSET Dests, gone : SUBSET Dests]

TypeOK ==
  /\ row \in BOOLEAN /\ others \in BOOLEAN /\ dir \in BOOLEAN
  /\ stored \subseteq Dests
  /\ config \in [listed : BOOLEAN, dests : SUBSET Dests]
  /\ phase \in {"down", "boot", "up"}
  /\ loaded \in BOOLEAN /\ authoritative \in BOOLEAN /\ failed \in BOOLEAN
  /\ dests \subseteq Dests
  /\ call \in Call
  /\ calls \in 0 .. MaxCalls
  /\ asked \subseteq Dests
  /\ lapsed \in BOOLEAN /\ unread \in BOOLEAN /\ torn \in BOOLEAN

Init ==
  /\ row = FALSE /\ stored = {} /\ dir = FALSE
  /\ others \in BOOLEAN
  /\ config \in [listed : BOOLEAN, dests : SUBSET Dests]
  /\ phase = "down"
  /\ loaded = FALSE /\ dests = {} /\ authoritative = FALSE
  /\ failed = FALSE
  /\ call = NoCall
  /\ calls = 0
  /\ asked = {} /\ lapsed = FALSE /\ unread = FALSE /\ torn = FALSE

-----------------------------------------------------------------------------
(* addEnvironment *)

Goto(pc) == call' = [call EXCEPT !.pc = pc]

\* The end of a call; the one of a boot ends initialize.
Done == call' = NoCall /\ phase' = "up"
Asks(payload) ==
  IF payload.given
  THEN asked' = payload.list /\ lapsed' = FALSE /\ unread' = FALSE /\ torn' = FALSE
  ELSE UNCHANGED history

\* setStorageDestinations of update, for a list that was given.
Assign(payload) ==
  IF payload.given THEN dests' = payload.list /\ authoritative' = TRUE
  ELSE UNCHANGED <<dests, authoritative>>

\* The choice between updating the environment in the map and making one. Its
\* first synchronous steps belong to the caller's.
AddBegins(payload, fallback) ==
  /\ call' = [NoCall EXCEPT !.pc = IF loaded THEN "existing" ELSE "mount",
                            !.payload = payload, !.fallback = fallback]
  /\ IF loaded THEN Assign(payload) ELSE UNCHANGED <<dests, authoritative>>
  /\ IF fallback THEN unread' = TRUE /\ UNCHANGED <<asked, lapsed, torn>> ELSE Asks(payload)
  /\ UNCHANGED loaded

\* Environment.update is over: readme and connections.
Existing ==
  /\ call.pc = "existing"
  /\ Goto("row")
  /\ authoritative' = (authoritative /\ ~call.fallback)
  /\ UNCHANGED <<disk, phase, loaded, dests, failed, calls, history>>

\* loadEnvironmentIntoDisk or scaffoldEnvironment; a package that fails to mount is
\* recorded in the environment and does not stop it.
Mount ==
  /\ call.pc = "mount"
  /\ dir' = TRUE
  /\ Goto("create")
  /\ UNCHANGED <<row, others, stored, config, phase, environment, failed, calls, history>>

\* Variant: the record of an earlier failure is left.
CreateUncleared ==
  /\ call.pc = "create"
  /\ loaded' = TRUE
  /\ dests' = call.payload.list
  /\ authoritative' = ~call.fallback
  /\ lapsed' = (lapsed \/ (row /\ ~call.fallback /\ ~call.payload.given))
  /\ Goto("row")
  /\ UNCHANGED <<disk, phase, failed, calls, asked, unread, torn>>

\* The environment enters the map with the destinations of the payload, none when it
\* gave none, and an earlier failure is forgotten.
Create ==
  /\ call.pc = "create"
  /\ loaded' = TRUE
  /\ dests' = call.payload.list
  /\ authoritative' = ~call.fallback
  /\ failed' = FALSE
  /\ lapsed' = (lapsed \/ (row /\ ~call.fallback /\ ~call.payload.given))
  /\ Goto("row")
  /\ UNCHANGED <<disk, phase, calls, asked, unread, torn>>

\* A step of addEnvironment throws. A boot records it unless the environment is in
\* the map; a client gets the error.
AddFails ==
  /\ Faults
  /\ call.pc \in {"existing", "mount", "create", "row"}
  /\ failed' = IF phase = "boot" /\ ~loaded THEN TRUE ELSE failed
  /\ torn' = TRUE
  /\ Done
  /\ UNCHANGED <<disk, environment, calls, asked, lapsed, unread>>

\* addEnvironmentMetadata, then the copy of the list the sync works from.
WriteRow ==
  /\ call.pc = "row"
  /\ row' = TRUE
  /\ call' = [call EXCEPT !.pc = "upsert", !.todo = dests]
  /\ UNCHANGED <<others, stored, dir, config, phase, environment, failed, calls, history>>

Upsert ==
  /\ call.pc = "upsert"
  /\ \E d \in call.todo :
       /\ stored' = stored \cup {d}
       /\ call' = [call EXCEPT !.todo = @ \ {d}]
  /\ UNCHANGED <<row, others, dir, config, phase, environment, failed, calls, history>>

\* Variant: whatever is in memory is what should be stored.
ReconcileUnread ==
  /\ call.pc = "upsert"
  /\ call.todo = {}
  /\ call' = [call EXCEPT !.pc = "prune", !.gone = stored \ dests]
  /\ UNCHANGED <<disk, phase, environment, failed, calls, history>>

\* Variant: rows that are no longer wanted are left.
ReconcileNever ==
  /\ call.pc = "upsert"
  /\ call.todo = {}
  /\ Done
  /\ UNCHANGED <<disk, environment, failed, calls, history>>

\* Rows the list does not hold go, if the list is the desired state.
Reconcile ==
  /\ call.pc = "upsert"
  /\ call.todo = {}
  /\ IF authoritative
     THEN call' = [call EXCEPT !.pc = "prune", !.gone = stored \ dests] /\ UNCHANGED phase
     ELSE Done
  /\ UNCHANGED <<disk, environment, failed, calls, history>>

Prune ==
  /\ call.pc = "prune"
  /\ \E d \in call.gone :
       /\ stored' = stored \ {d}
       /\ call' = [call EXCEPT !.gone = @ \ {d}]
  /\ UNCHANGED <<row, others, dir, config, phase, environment, failed, calls, history>>

Synced ==
  /\ call.pc = "prune"
  /\ call.gone = {}
  /\ Done
  /\ UNCHANGED <<disk, environment, failed, calls, history>>

\* A statement of the sync throws, which is logged: the call still succeeds.
SyncFails ==
  /\ Faults
  /\ call.pc \in {"upsert", "prune"}
  /\ torn' = TRUE
  /\ Done
  /\ UNCHANGED <<disk, environment, failed, calls, asked, lapsed, unread>>

-----------------------------------------------------------------------------
(* Calls of the API *)

Calling == phase = "up" /\ call.pc = "idle" /\ calls < MaxCalls /\ calls' = calls + 1

\* The destinations a look-up takes from the configuration: none is not a list.
Declared == IF config.listed /\ config.dests # {} THEN List(config.dests) ELSE Absent

\* getEnvironment of a name that is not loaded, or with reload.
GetEnvironment ==
  /\ Calling
  /\ loaded \/ config.listed
  /\ AddBegins(Declared, FALSE)
  /\ UNCHANGED <<disk, phase, failed>>

\* POST and PATCH; an update of a name that is not loaded is refused.
AddEnvironment(payload) ==
  /\ Calling
  /\ AddBegins(payload, FALSE)
  /\ UNCHANGED <<disk, phase, failed>>

DeleteEnvironment ==
  /\ Calling
  /\ loaded
  /\ Goto("close")
  /\ asked' = {} /\ lapsed' = FALSE /\ unread' = FALSE /\ torn' = TRUE
  /\ UNCHANGED <<disk, phase, environment, failed>>

\* closeAllConnections, and the environment leaves the map.
Close ==
  /\ call.pc = "close"
  /\ dests' = {} /\ authoritative' = FALSE
  /\ loaded' = FALSE
  /\ Goto("undest")
  /\ UNCHANGED <<disk, phase, failed, calls, history>>

\* deleteEnvironmentFromDatabase: what the row owns first, by statements of their own.
DeleteDestinations ==
  /\ call.pc = "undest"
  /\ stored' = {}
  /\ Goto("unrow")
  /\ UNCHANGED <<row, others, dir, config, phase, environment, failed, calls, history>>

DeleteRow ==
  /\ call.pc = "unrow"
  /\ row' = FALSE
  /\ torn' = FALSE
  /\ Goto("rmdir")
  /\ UNCHANGED <<others, stored, dir, config, phase, environment, failed, calls, asked, lapsed,
                 unread>>

DeleteRowFails ==
  /\ Faults
  /\ call.pc \in {"undest", "unrow"}
  /\ Done
  /\ UNCHANGED <<disk, environment, failed, calls, history>>

\* A directory that cannot be removed is logged.
RemoveDirectory ==
  /\ call.pc = "rmdir"
  /\ dir' \in IF Faults THEN BOOLEAN ELSE {FALSE}
  /\ Done
  /\ UNCHANGED <<row, others, stored, config, environment, failed, calls, history>>

-----------------------------------------------------------------------------
(* initialize *)

\* INITIALIZE_STORAGE starts from the configuration, over an empty database and an
\* empty data directory; so does a database without environments.
BootFromConfig(reInit) ==
  /\ phase = "down"
  /\ reInit \/ ~(row \/ others)
  /\ row' = FALSE /\ stored' = {}
  /\ others' = (others /\ ~reInit)
  /\ dir' = (dir /\ ~reInit)
  /\ IF config.listed
     THEN /\ phase' = "boot"
          /\ call' = [NoCall EXCEPT !.pc = "mount", !.payload = Declared]
     ELSE Done
  /\ asked' = IF config.listed THEN Declared.list ELSE {}
  /\ lapsed' = FALSE /\ unread' = FALSE /\ torn' = FALSE
  /\ UNCHANGED <<config, environment, failed, calls>>

BootFromDatabase ==
  /\ phase = "down"
  /\ row \/ others
  /\ IF row THEN phase' = "boot" /\ Goto("access") ELSE Done
  /\ UNCHANGED <<disk, environment, failed, calls, history>>

\* Without its directory the environment is made from the configuration, as a
\* fallback, or skipped.
Access ==
  /\ call.pc = "access"
  /\ \/ dir /\ Goto("read") /\ UNCHANGED <<phase, environment, history>>
     \/ ~dir /\ config.listed /\ AddBegins(List(config.dests), TRUE) /\ UNCHANGED phase
     \/ ~dir /\ ~config.listed /\ Done /\ UNCHANGED <<environment, history>>
  /\ UNCHANGED <<disk, failed, calls>>

\* listStorageDestinations: the configuration stands in for an empty answer, and for
\* an error, which is remembered.
ReadDestinations ==
  LET seeded == IF config.listed THEN config.dests ELSE {}
  IN /\ call.pc = "read"
     /\ \/ /\ call' = [call EXCEPT !.pc = "restore", !.fallback = FALSE,
                                   !.payload = List(IF stored # {} THEN stored ELSE seeded)]
           /\ unread' = (unread \/ (stored = {} /\ seeded # {}))
        \/ /\ Faults
           /\ call' = [call EXCEPT !.pc = "restore", !.fallback = TRUE,
                                   !.payload = List(seeded)]
           /\ unread' = TRUE
     /\ UNCHANGED <<disk, phase, environment, failed, calls, asked, lapsed, torn>>

\* Environment.create and the map; nothing is written back.
Restore ==
  /\ call.pc = "restore"
  /\ loaded' = TRUE
  /\ dests' = call.payload.list
  /\ authoritative' = ~call.fallback
  /\ Done
  /\ UNCHANGED <<disk, failed, calls, history>>

RestoreFails ==
  /\ Faults
  /\ call.pc \in {"read", "restore"}
  /\ failed' = TRUE
  /\ Done
  /\ UNCHANGED <<disk, environment, calls, history>>

-----------------------------------------------------------------------------
(* The world *)

\* The process ends, also in the middle of a call.
Stop ==
  /\ phase # "down"
  /\ calls < MaxCalls
  /\ calls' = calls + 1
  /\ phase' = "down"
  /\ loaded' = FALSE /\ dests' = {} /\ authoritative' = FALSE
  /\ failed' = FALSE
  /\ call' = NoCall
  /\ torn' = (torn \/ call.pc \in {"existing", "mount", "create", "row", "upsert", "prune"})
  /\ UNCHANGED <<disk, asked, lapsed, unread>>

\* While it is down a volume may be missing, or back, and the file edited.
DiskChanges ==
  /\ phase = "down"
  /\ calls < MaxCalls
  /\ calls' = calls + 1
  /\ dir' \in BOOLEAN
  /\ config' \in [listed : BOOLEAN, dests : SUBSET Dests]
  /\ UNCHANGED <<row, others, stored, phase, environment, failed, call, history>>

Next ==
  \/ Existing \/ Mount \/ Create \/ AddFails
  \/ WriteRow \/ Upsert \/ Reconcile \/ Prune \/ Synced \/ SyncFails
  \/ GetEnvironment \/ (\E payload \in Payload : AddEnvironment(payload))
  \/ DeleteEnvironment \/ Close \/ DeleteDestinations \/ DeleteRow \/ DeleteRowFails
  \/ RemoveDirectory
  \/ (\E reInit \in BOOLEAN : BootFromConfig(reInit)) \/ BootFromDatabase
  \/ Access \/ ReadDestinations \/ Restore \/ RestoreFails
  \/ Stop \/ DiskChanges

Spec == Init /\ [][Next]_vars

-----------------------------------------------------------------------------
(* Properties *)

AtRest == call.pc = "idle" /\ row /\ ~torn

\* No destination is lost: once a list was asked for and its sync finished, its
\* destinations stay stored through restarts, unreadable rows, missing directories,
\* other configurations and updates that give no list (syncStorageDestinations,
\* markStorageDestinationsUnknown), if the environment was restored or created with
\* a list whenever its row was there.
AskedAreStored == AtRest /\ ~lapsed => asked \subseteq stored

\* The same, also when a look-up creates the environment a boot failed to restore:
\* a transient error does not become permanently deleted registrations.
AskedAreNeverLost == AtRest => asked \subseteq stored

\* No destination that was removed comes back: unless a boot had to stand in the
\* configuration for the stored rows, only what was last asked for is stored.
OnlyAskedAreStored == AtRest /\ ~unread => stored \subseteq asked

\* An environment that is served is not reported as one that failed to load, and
\* the report outlives nothing but the process (recordEnvironmentInitializationFailure).
FailedIsAbsent == failed => ~loaded
=============================================================================
