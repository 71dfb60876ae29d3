------------------------ MODULE EnvironmentStoreProofs ------------------------
(* Proofs about EnvironmentStore for any storage destinations and any number of *)
(* calls: none that was asked for is lost, none that was removed comes back.    *)
EXTENDS EnvironmentStore, TLAPS

\* Where the call is, and what that says of the process and of the row.
Control ==
  /\ phase = "down" => call.pc = "idle" /\ ~loaded /\ ~failed
  /\ call.pc \in {"access", "read", "restore"} => ~loaded /\ ~failed /\ row
  /\ call.pc \in {"existing", "row", "upsert", "prune", "close"} => loaded
  /\ call.pc \in {"mount", "create", "undest", "unrow", "rmdir"} => ~loaded
  /\ call.pc \in {"upsert", "prune"} => row
  /\ call.pc = "rmdir" => ~row /\ asked = {}
  /\ call.pc \in {"close", "undest", "unrow"} => torn /\ asked = {}
  /\ call.pc = "unrow" => stored = {}
  /\ call.pc = "prune" => authoritative
  /\ ~row => stored = {}

\* A fallback is a boot that did not read the rows; what it puts in memory is not
\* authoritative.
FallbackIsUnread ==
  /\ call.pc \in {"existing", "prune"} => ~call.fallback
  /\ call.pc \in {"mount", "create", "row", "upsert"} /\ call.fallback => unread
  /\ call.pc \in {"row", "upsert"} /\ call.fallback => ~authoritative

\* What was asked for is in the rows.
Kept == (row => asked \subseteq stored) /\ (~row => asked = {})

\* What was asked for, on its way through a call: it is still in the rows, or it is
\* in memory, authoritative and about to be written.
Keeps ==
  ~lapsed /\ ~torn =>
    /\ loaded /\ authoritative => asked \subseteq dests
    /\ call.pc \in {"idle", "access", "read", "restore", "rmdir"} => Kept
    /\ call.pc \in {"mount", "create"} =>
         IF call.payload.given /\ ~call.fallback THEN asked = call.payload.list ELSE Kept
    /\ call.pc \in {"existing", "row"} => authoritative \/ Kept
    /\ call.pc = "upsert" =>
         IF authoritative THEN dests \ call.todo \subseteq stored ELSE asked \subseteq stored
    /\ call.pc = "prune" => dests \subseteq stored /\ call.gone \cap dests = {}
    /\ call.pc = "restore" /\ ~call.fallback => asked \subseteq call.payload.list

\* What was not asked for is not in memory, and not in the rows or about to leave them.
Only ==
  ~unread /\ ~torn =>
    /\ loaded => dests \subseteq asked
    /\ call.pc \in {"idle", "access", "read", "restore", "rmdir"} => stored \subseteq asked
    /\ call.pc \in {"mount", "create"} =>
         IF call.payload.given THEN asked = call.payload.list ELSE stored \subseteq asked
    /\ call.pc \in {"existing", "row", "upsert"} => authoritative \/ stored \subseteq asked
    /\ call.pc = "upsert" => call.todo \subseteq asked
    /\ call.pc = "prune" => stored \ call.gone \subseteq asked
    /\ call.pc = "restore" => call.payload.list \subseteq asked

-----------------------------------------------------------------------------
(* Types *)

LEMMA PayloadFacts ==
  /\ Payload \subseteq [given : BOOLEAN, list : SUBSET Dests]
  /\ \A p \in Payload : ~p.given => p.list = {}
  /\ \A ds \in SUBSET Dests : List(ds) \in Payload /\ List(ds).given /\ List(ds).list = ds
  /\ Absent \in Payload /\ ~Absent.given /\ Absent.list = {}
<1>1. Absent \in [given : BOOLEAN, list : SUBSET Dests] /\ ~Absent.given /\ Absent.list = {}
  BY DEF Absent
<1>2. ASSUME NEW ds \in SUBSET Dests
      PROVE  List(ds) \in [given : BOOLEAN, list : SUBSET Dests] /\ List(ds).given
             /\ List(ds).list = ds
  BY DEF List
<1>3. \A p \in Payload : p = Absent \/ \E ds \in SUBSET Dests : p = List(ds)
  BY DEF Payload
<1>4. Absent \in Payload /\ \A ds \in SUBSET Dests : List(ds) \in Payload
  BY DEF Payload
<1> QED BY <1>1, <1>2, <1>3, <1>4

\* What a step inside a call does to the record of the call.
LEMMA CallFields ==
  ASSUME NEW c \in Call
  PROVE  /\ c.payload \in Payload /\ c.payload.given \in BOOLEAN /\ c.payload.list \subseteq Dests
         /\ c.fallback \in BOOLEAN /\ c.todo \subseteq Dests /\ c.gone \subseteq Dests
<1>1. c.payload \in Payload
  BY DEF Call
<1>2. c.payload.given \in BOOLEAN /\ c.payload.list \subseteq Dests
  BY <1>1, PayloadFacts
<1> QED BY <1>1, <1>2 DEF Call

LEMMA NoCallType == NoCall \in Call /\ NoCall.pc = "idle" /\ ~NoCall.fallback
  BY PayloadFacts DEF NoCall, Call

LEMMA DeclaredType == TypeOK => Declared \in Payload
  BY PayloadFacts DEF TypeOK, Declared

LEMMA AddBeginsType ==
  ASSUME TypeOK, NEW payload \in Payload, NEW fallback \in BOOLEAN, AddBegins(payload, fallback)
  PROVE  /\ call' \in Call
         /\ loaded' \in BOOLEAN /\ authoritative' \in BOOLEAN /\ dests' \subseteq Dests
         /\ asked' \subseteq Dests
         /\ lapsed' \in BOOLEAN /\ unread' \in BOOLEAN /\ torn' \in BOOLEAN
<1>1. call' \in Call
  BY NoCallType DEF AddBegins, NoCall, Call
<1>2. payload.given \in BOOLEAN /\ payload.list \subseteq Dests
  BY PayloadFacts
<1>3. authoritative' \in BOOLEAN /\ dests' \subseteq Dests
  BY <1>2 DEF AddBegins, Assign, TypeOK
<1>4. asked' \subseteq Dests /\ lapsed' \in BOOLEAN /\ unread' \in BOOLEAN /\ torn' \in BOOLEAN
  BY <1>2 DEF AddBegins, Asks, TypeOK, history
<1> QED BY <1>1, <1>3, <1>4 DEF AddBegins, TypeOK

LEMMA CallsStay == TypeOK /\ calls < MaxCalls => calls + 1 \in 0 .. MaxCalls
  BY BoundsAssumption DEF TypeOK

LEMMA TypeStep == TypeOK /\ [Next]_vars => TypeOK'
<1> SUFFICES ASSUME TypeOK, [Next]_vars PROVE TypeOK'
  OBVIOUS
<1> USE DEF disk, environment, history
<1>0. call \in Call
  BY DEF TypeOK
<1>1. CASE Existing
  <2>1. call' \in Call
    BY <1>0, <1>1 DEF Existing, Goto, Call
  <2> QED BY <1>1, <2>1 DEF TypeOK, Existing
<1>2. CASE Mount
  <2>1. call' \in Call
    BY <1>0, <1>2 DEF Mount, Goto, Call
  <2> QED BY <1>2, <2>1 DEF TypeOK, Mount
<1>3. CASE Create
  <2>1. call' \in Call
    BY <1>0, <1>3 DEF Create, Goto, Call
  <2> QED BY <1>0, <1>3, <2>1, CallFields DEF TypeOK, Create
<1>4. CASE AddFails
  BY <1>4, NoCallType DEF TypeOK, AddFails, Done
<1>5. CASE WriteRow
  <2>1. call' \in Call
    BY <1>0, <1>5 DEF TypeOK, WriteRow, Call
  <2> QED BY <1>5, <2>1 DEF TypeOK, WriteRow
<1>6. CASE Upsert
  <2>1. PICK d \in call.todo : stored' = stored \cup {d} /\ call' = [call EXCEPT !.todo = @ \ {d}]
    BY <1>6 DEF Upsert
  <2>2. call' \in Call /\ d \in Dests
    BY <1>0, <2>1 DEF Call
  <2> QED BY <1>6, <2>1, <2>2 DEF TypeOK, Upsert
<1>7. CASE Reconcile
  <2>1. phase' \in {"down", "boot", "up"}
    BY <1>7 DEF TypeOK, Reconcile, Done
  <2>2. CASE call' = [call EXCEPT !.pc = "prune", !.gone = stored \ dests]
    <3>1. stored \ dests \subseteq Dests
      BY DEF TypeOK
    <3>2. call' \in Call
      BY <1>0, <2>2, <3>1 DEF Call
    <3> QED BY <1>7, <2>1, <3>2 DEF TypeOK, Reconcile
  <2>3. CASE call' = NoCall
    BY <1>7, <2>1, <2>3, NoCallType DEF TypeOK, Reconcile
  <2> QED BY <1>7, <2>2, <2>3 DEF Reconcile, Done
<1>8. CASE Prune
  <2>1. PICK d \in call.gone : stored' = stored \ {d} /\ call' = [call EXCEPT !.gone = @ \ {d}]
    BY <1>8 DEF Prune
  <2>2. call' \in Call
    BY <1>0, <2>1 DEF Call
  <2> QED BY <1>8, <2>1, <2>2 DEF TypeOK, Prune
<1>9. CASE Synced \/ SyncFails
  <2>1. CASE Synced
    BY <2>1, NoCallType DEF TypeOK, Synced, Done
  <2>2. CASE SyncFails
    BY <2>2, NoCallType DEF TypeOK, SyncFails, Done
  <2> QED BY <1>9, <2>1, <2>2
<1>10. CASE GetEnvironment
  <2>1. AddBegins(Declared, FALSE) /\ Declared \in Payload
    BY <1>10, DeclaredType DEF GetEnvironment
  <2>2. calls' \in 0 .. MaxCalls
    BY <1>10, CallsStay DEF GetEnvironment, Calling
  <2> QED BY <1>10, <2>1, <2>2, AddBeginsType DEF TypeOK, GetEnvironment
<1>11. ASSUME NEW payload \in Payload, AddEnvironment(payload) PROVE TypeOK'
  <2>1. AddBegins(payload, FALSE)
    BY <1>11 DEF AddEnvironment
  <2>2. calls' \in 0 .. MaxCalls
    BY <1>11, CallsStay DEF AddEnvironment, Calling
  <2> QED BY <1>11, <2>1, <2>2, AddBeginsType DEF TypeOK, AddEnvironment
<1>12. CASE DeleteEnvironment
  <2>1. call' \in Call
    BY <1>0, <1>12 DEF DeleteEnvironment, Goto, Call
  <2>2. calls' \in 0 .. MaxCalls
    BY <1>12, CallsStay DEF DeleteEnvironment, Calling
  <2> QED BY <1>12, <2>1, <2>2 DEF TypeOK, DeleteEnvironment
<1>13. CASE Close \/ DeleteDestinations \/ DeleteRow
  <2>1. call' \in Call
    BY <1>0, <1>13 DEF Close, DeleteDestinations, DeleteRow, Goto, Call
  <2>2. CASE Close
    BY <2>1, <2>2 DEF TypeOK, Close
  <2>3. CASE DeleteDestinations
    BY <2>1, <2>3 DEF TypeOK, DeleteDestinations
  <2>4. CASE DeleteRow
    BY <2>1, <2>4 DEF TypeOK, DeleteRow
  <2> QED BY <1>13, <2>2, <2>3, <2>4
<1>14. CASE DeleteRowFails \/ RemoveDirectory
  <2>1. CASE DeleteRowFails
    BY <2>1, NoCallType DEF TypeOK, DeleteRowFails, Done
  <2>2. CASE RemoveDirectory
    BY <2>2, NoCallType DEF TypeOK, RemoveDirectory, Done
  <2> QED BY <1>14, <2>1, <2>2
<1>15. ASSUME NEW reInit \in BOOLEAN, BootFromConfig(reInit) PROVE TypeOK'
  <2>1. call' \in Call /\ phase' \in {"down", "boot", "up"}
    BY <1>15, NoCallType, DeclaredType DEF BootFromConfig, Done, NoCall, Call
  <2>2. asked' \subseteq Dests
    BY <1>15, DeclaredType, PayloadFacts DEF BootFromConfig
  <2> QED BY <1>15, <2>1, <2>2 DEF TypeOK, BootFromConfig
<1>16. CASE BootFromDatabase
  <2>1. call' \in Call /\ phase' \in {"down", "boot", "up"}
    BY <1>0, <1>16, NoCallType DEF BootFromDatabase, Done, Goto, Call
  <2> QED BY <1>16, <2>1 DEF TypeOK, BootFromDatabase
<1>17. CASE Access
  <2>1. CASE AddBegins(List(config.dests), TRUE) /\ UNCHANGED phase
    BY <1>17, <2>1, AddBeginsType, PayloadFacts DEF TypeOK, Access
  <2>2. CASE Goto("read") /\ UNCHANGED <<phase, environment, history>>
    <3>1. call' \in Call
      BY <1>0, <2>2 DEF Goto, Call
    <3> QED BY <1>17, <2>2, <3>1 DEF TypeOK, Access
  <2>3. CASE Done /\ UNCHANGED <<environment, history>>
    BY <1>17, <2>3, NoCallType DEF TypeOK, Access, Done
  <2> QED BY <1>17, <2>1, <2>2, <2>3 DEF Access
<1>18. CASE ReadDestinations
  <2>1. PICK fallback \in BOOLEAN, ds \in SUBSET Dests :
          call' = [call EXCEPT !.pc = "restore", !.fallback = fallback, !.payload = List(ds)]
    BY <1>18 DEF TypeOK, ReadDestinations
  <2>2. call' \in Call
    BY <1>0, <2>1, PayloadFacts DEF Call
  <2>3. unread' \in BOOLEAN
    BY <1>18 DEF TypeOK, ReadDestinations
  <2>4. UNCHANGED <<disk, phase, environment, failed, calls, asked, lapsed, torn>>
    BY <1>18 DEF ReadDestinations
  <2> QED BY <2>2, <2>3, <2>4 DEF TypeOK
<1>19. CASE Restore
  BY <1>0, <1>19, NoCallType, CallFields DEF TypeOK, Restore, Done
<1>20. CASE RestoreFails
  BY <1>20, NoCallType DEF TypeOK, RestoreFails, Done
<1>21. CASE Stop
  <2>1. calls' \in 0 .. MaxCalls
    BY <1>21, CallsStay DEF Stop
  <2> QED BY <1>21, <2>1, NoCallType DEF TypeOK, Stop
<1>22. CASE DiskChanges
  <2>1. calls' \in 0 .. MaxCalls
    BY <1>22, CallsStay DEF DiskChanges
  <2> QED BY <1>22, <2>1 DEF TypeOK, DiskChanges
<1>23. CASE UNCHANGED vars
  BY <1>23 DEF TypeOK, vars
<1> QED
  BY <1>1, <1>2, <1>3, <1>4, <1>5, <1>6, <1>7, <1>8, <1>9, <1>10, <1>11, <1>12, <1>13, <1>14,
     <1>15, <1>16, <1>17, <1>18, <1>19, <1>20, <1>21, <1>22, <1>23 DEF Next







-----------------------------------------------------------------------------
(* Steps of a call *)

\* A step to another place leaves the other fields of the call.
LEMMA GotoFields ==
  ASSUME TypeOK, NEW pc, Goto(pc)
  PROVE  /\ call'.pc = pc
         /\ call'.payload = call.payload /\ call'.fallback = call.fallback
         /\ call'.todo = call.todo /\ call'.gone = call.gone
  BY DEF TypeOK, Goto, Call

\* Where a call of addEnvironment starts, and from what.
LEMMA AddBeginsFields ==
  ASSUME TypeOK, NEW payload \in Payload, NEW fallback \in BOOLEAN, AddBegins(payload, fallback)
  PROVE  /\ call'.pc = IF loaded THEN "existing" ELSE "mount"
         /\ call'.payload = payload /\ call'.fallback = fallback
  BY DEF AddBegins, NoCall

LEMMA ReadFields ==
  ASSUME TypeOK, ReadDestinations
  PROVE  /\ call'.pc = "restore" /\ call'.payload.given
         /\ ~call'.fallback => stored = {} \/ call'.payload.list = stored
         /\ ~unread' => ~call'.fallback /\ call'.payload.list = stored /\ ~unread
<1> DEFINE seeded == IF config.listed THEN config.dests ELSE {}
<1>0. seeded \in SUBSET Dests /\ stored \in SUBSET Dests
  BY DEF TypeOK
<1>1. CASE /\ call' = [call EXCEPT !.pc = "restore", !.fallback = FALSE,
                                   !.payload = List(IF stored # {} THEN stored ELSE seeded)]
           /\ unread' = (unread \/ (stored = {} /\ seeded # {}))
  BY <1>0, <1>1, PayloadFacts DEF TypeOK, Call
<1>2. CASE /\ call' = [call EXCEPT !.pc = "restore", !.fallback = TRUE,
                                   !.payload = List(seeded)]
           /\ unread' = TRUE
  BY <1>0, <1>2, PayloadFacts DEF TypeOK, Call
<1> QED BY <1>1, <1>2 DEF ReadDestinations

\* A request with its list, or with none.
LEMMA RequestFields ==
  ASSUME TypeOK, NEW payload \in Payload, AddBegins(payload, FALSE)
  PROVE  /\ call'.pc = IF loaded THEN "existing" ELSE "mount"
         /\ call'.payload = payload /\ ~call'.fallback
         /\ loaded' = loaded
         /\ \/ /\ payload.given
               /\ asked' = payload.list /\ ~torn' /\ ~unread' /\ ~lapsed'
               /\ loaded => dests' = payload.list /\ authoritative'
            \/ ~payload.given /\ UNCHANGED <<dests, authoritative, asked, lapsed, unread, torn>>
<1>1. call'.pc = (IF loaded THEN "existing" ELSE "mount") /\ call'.payload = payload
      /\ ~call'.fallback
  BY AddBeginsFields
<1>2. CASE payload.given
  BY <1>1, <1>2 DEF AddBegins, Assign, Asks, TypeOK
<1>3. CASE ~payload.given
  BY <1>1, <1>3 DEF AddBegins, Assign, Asks, history, TypeOK
<1> QED BY <1>2, <1>3

\* A boot without the directory: the configuration stands in for the rows.
LEMMA FallbackFields ==
  ASSUME TypeOK, Control, Access, AddBegins(List(config.dests), TRUE), UNCHANGED phase
  PROVE  /\ call'.pc = "mount" /\ call'.fallback
         /\ call.pc = "access" /\ ~loaded /\ row /\ phase # "down" /\ unread'
         /\ UNCHANGED <<row, stored, loaded, dests, authoritative, asked, lapsed, torn, phase,
                        failed>>
<1>1. call.pc = "access" /\ ~loaded /\ row /\ phase # "down"
  BY DEF Access, Control
<1>2. List(config.dests) \in Payload
  BY PayloadFacts DEF TypeOK
<1>3. call'.pc = "mount" /\ call'.fallback
  BY <1>1, <1>2, AddBeginsFields
<1> QED BY <1>1, <1>3 DEF AddBegins, Access, disk

\* The environment a call makes, and where it goes on.
LEMMA CreateFields ==
  ASSUME TypeOK, Create
  PROVE  /\ call.pc = "create" /\ call'.pc = "row" /\ call'.fallback = call.fallback
         /\ loaded' /\ dests' = call.payload.list /\ authoritative' = ~call.fallback
         /\ ~lapsed' => ~lapsed /\ (row => call.fallback \/ call.payload.given)
         /\ ~call.payload.given => call.payload.list = {}
         /\ UNCHANGED <<row, stored, asked, unread, torn>>
<1>1. call'.pc = "row" /\ call'.fallback = call.fallback
  BY GotoFields DEF Create
<1>2. ~call.payload.given => call.payload.list = {}
  BY CallFields, PayloadFacts DEF TypeOK
<1>3. /\ call.pc = "create" /\ loaded' /\ dests' = call.payload.list
      /\ authoritative' = ~call.fallback /\ UNCHANGED <<row, stored, asked, unread, torn>>
  BY DEF Create, disk
<1>4. ~lapsed' => ~lapsed /\ (row => call.fallback \/ call.payload.given)
  BY CallFields DEF TypeOK, Create
<1> QED BY <1>1, <1>2, <1>3, <1>4

\* What a stop leaves of a call, unless it tore it.
LEMMA StopFields ==
  ASSUME TypeOK, Control, Stop, ~torn'
  PROVE  /\ call'.pc = "idle" /\ ~loaded' /\ ~torn
         /\ call.pc \in {"idle", "access", "read", "restore", "rmdir"}
         /\ UNCHANGED <<row, stored, asked, lapsed, unread>>
<1>1. call.pc \in {"idle", "existing", "mount", "create", "row", "upsert", "prune",
                   "close", "undest", "unrow", "rmdir", "access", "read", "restore"}
  BY DEF TypeOK, Call
<1>2. ~torn /\ call.pc \notin {"existing", "mount", "create", "row", "upsert", "prune"}
  BY DEF Stop, TypeOK
<1>3. call'.pc = "idle" /\ ~loaded'
  BY NoCallType DEF Stop
<1> QED BY <1>1, <1>2, <1>3 DEF Stop, Control, disk

\* The call of a boot from the configuration.
LEMMA BootFields ==
  ASSUME TypeOK, NEW reInit \in BOOLEAN, BootFromConfig(reInit)
  PROVE  \/ /\ call'.pc = "mount" /\ call'.payload = Declared /\ ~call'.fallback
            /\ phase' = "boot" /\ asked' = Declared.list
         \/ call'.pc = "idle" /\ phase' = "up" /\ asked' = {}
  BY NoCallType DEF BootFromConfig, Done, NoCall

\* Where the call is agrees with the process, the row and the environment.
LEMMA ControlStep == TypeOK /\ Control /\ [Next]_vars => Control'
<1> SUFFICES ASSUME TypeOK, Control, [Next]_vars PROVE Control'
  OBVIOUS
<1> USE DEF disk, environment, history
<1>1. CASE Existing
  BY <1>1, GotoFields DEF TypeOK, Control, Existing
<1>2. CASE Mount
  BY <1>2, GotoFields DEF TypeOK, Control, Mount
<1>3. CASE Create
  BY <1>3, GotoFields DEF TypeOK, Control, Create
<1>4. CASE AddFails
  BY <1>4, NoCallType DEF TypeOK, Control, AddFails, Done
<1>5. CASE WriteRow
  BY <1>5 DEF TypeOK, Call, Control, WriteRow
<1>6. CASE Upsert
  BY <1>6 DEF TypeOK, Call, Control, Upsert
<1>7. CASE Reconcile
  <2>1. call.pc = "upsert" /\ call.todo = {}
    BY <1>7 DEF Reconcile
  <2>2. CASE authoritative
    <3>1. call'.pc = "prune" /\ call'.gone = stored \ dests
          /\ call'.fallback = call.fallback
      BY <1>7, <2>2 DEF TypeOK, Call, Reconcile
    <3> QED BY <1>7, <2>1, <2>2, <3>1 DEF Reconcile, Control
  <2>3. CASE ~authoritative
    BY <1>7, <2>1, <2>3, NoCallType DEF Reconcile, Done, Control
  <2> QED BY <2>2, <2>3
<1>8. CASE Prune
  BY <1>8 DEF TypeOK, Call, Control, Prune
<1>9. CASE Synced
  BY <1>9, NoCallType DEF TypeOK, Control, Synced, Done
<1>10. CASE SyncFails
  BY <1>10, NoCallType DEF TypeOK, Control, SyncFails, Done
<1>11. CASE GetEnvironment
  <2>1. AddBegins(Declared, FALSE) /\ Declared \in Payload
    BY <1>11, DeclaredType DEF GetEnvironment
  <2>2. call.pc = "idle" /\ phase = "up" /\ UNCHANGED <<disk, phase, failed>>
    BY <1>11 DEF GetEnvironment, Calling
  <2>3. CASE Declared.given
    BY <2>1, <2>2, <2>3, RequestFields DEF Control
  <2>4. CASE ~Declared.given
    BY <2>1, <2>2, <2>4, RequestFields, PayloadFacts DEF Control
  <2> QED BY <2>3, <2>4
<1>12. ASSUME NEW payload \in Payload, AddEnvironment(payload) PROVE Control'
  <2>1. AddBegins(payload, FALSE) /\ payload \in Payload
    BY <1>12 DEF AddEnvironment
  <2>2. call.pc = "idle" /\ phase = "up" /\ UNCHANGED <<disk, phase, failed>>
    BY <1>12 DEF AddEnvironment, Calling
  <2>3. CASE payload.given
    BY <2>1, <2>2, <2>3, RequestFields DEF Control
  <2>4. CASE ~payload.given
    BY <2>1, <2>2, <2>4, RequestFields, PayloadFacts DEF Control
  <2> QED BY <2>3, <2>4
<1>13. CASE DeleteEnvironment
  BY <1>13, GotoFields DEF TypeOK, Control, DeleteEnvironment, Calling
<1>14. CASE Close
  BY <1>14, GotoFields DEF TypeOK, Control, Close
<1>15. CASE DeleteDestinations
  BY <1>15, GotoFields DEF TypeOK, Control, DeleteDestinations
<1>16. CASE DeleteRow
  BY <1>16, GotoFields DEF TypeOK, Control, DeleteRow
<1>17. CASE DeleteRowFails
  BY <1>17, NoCallType DEF TypeOK, Control, DeleteRowFails, Done
<1>18. CASE RemoveDirectory
  BY <1>18, NoCallType DEF TypeOK, Control, RemoveDirectory, Done
<1>19. ASSUME NEW reInit \in BOOLEAN, BootFromConfig(reInit) PROVE Control'
  BY <1>19, BootFields, DeclaredType, PayloadFacts DEF TypeOK, Control, BootFromConfig
<1>20. CASE BootFromDatabase
  BY <1>20, NoCallType, GotoFields DEF TypeOK, Control, BootFromDatabase, Done
<1>21. CASE Access
  <2>1. CASE AddBegins(List(config.dests), TRUE) /\ UNCHANGED phase
    BY <1>21, <2>1, FallbackFields DEF Control
  <2>2. CASE Goto("read") /\ UNCHANGED <<phase, environment, history>>
    BY <1>21, <2>2, GotoFields DEF Control, Access
  <2>3. CASE Done /\ UNCHANGED <<environment, history>>
    BY <1>21, <2>3, NoCallType DEF Control, Access, Done
  <2> QED BY <1>21, <2>1, <2>2, <2>3 DEF Access
<1>22. CASE ReadDestinations
  BY <1>22, ReadFields DEF TypeOK, Control, ReadDestinations
<1>23. CASE Restore
  BY <1>23, NoCallType DEF TypeOK, Control, Restore, Done
<1>24. CASE RestoreFails
  BY <1>24, NoCallType DEF TypeOK, Control, RestoreFails, Done
<1>25. CASE Stop
  BY <1>25, NoCallType DEF TypeOK, Control, Stop
<1>26. CASE DiskChanges
  BY <1>26 DEF TypeOK, Control, DiskChanges
<1>27. CASE UNCHANGED vars
  BY <1>27 DEF Control, vars
<1> QED
  BY <1>1, <1>2, <1>3, <1>4, <1>5, <1>6, <1>7, <1>8, <1>9, <1>10, <1>11, <1>12, <1>13, <1>14,
     <1>15, <1>16, <1>17, <1>18, <1>19, <1>20, <1>21, <1>22, <1>23, <1>24, <1>25, <1>26, <1>27
     DEF Next

\* A fallback never becomes the desired state.
LEMMA FallbackStep == TypeOK /\ Control /\ FallbackIsUnread /\ [Next]_vars => FallbackIsUnread'
<1> SUFFICES ASSUME TypeOK, FallbackIsUnread, Control, [Next]_vars PROVE FallbackIsUnread'
  OBVIOUS
<1> USE DEF disk, environment, history
<1>1. CASE Existing
  BY <1>1, GotoFields DEF TypeOK, FallbackIsUnread, Control, Existing
<1>2. CASE Mount
  BY <1>2, GotoFields DEF TypeOK, FallbackIsUnread, Control, Mount
<1>3. CASE Create
  BY <1>3, GotoFields DEF TypeOK, FallbackIsUnread, Control, Create
<1>4. CASE AddFails
  BY <1>4, NoCallType DEF TypeOK, FallbackIsUnread, Control, AddFails, Done
<1>5. CASE WriteRow
  BY <1>5 DEF TypeOK, Call, FallbackIsUnread, Control, WriteRow
<1>6. CASE Upsert
  BY <1>6 DEF TypeOK, Call, FallbackIsUnread, Control, Upsert
<1>7. CASE Reconcile
  <2>1. call.pc = "upsert" /\ call.todo = {}
    BY <1>7 DEF Reconcile
  <2>2. CASE authoritative
    <3>1. call'.pc = "prune" /\ call'.gone = stored \ dests
          /\ call'.fallback = call.fallback
      BY <1>7, <2>2 DEF TypeOK, Call, Reconcile
    <3> QED BY <1>7, <2>1, <2>2, <3>1 DEF Reconcile, FallbackIsUnread, Control
  <2>3. CASE ~authoritative
    BY <1>7, <2>1, <2>3, NoCallType DEF Reconcile, Done, FallbackIsUnread, Control
  <2> QED BY <2>2, <2>3
<1>8. CASE Prune
  BY <1>8 DEF TypeOK, Call, FallbackIsUnread, Control, Prune
<1>9. CASE Synced
  BY <1>9, NoCallType DEF TypeOK, FallbackIsUnread, Control, Synced, Done
<1>10. CASE SyncFails
  BY <1>10, NoCallType DEF TypeOK, FallbackIsUnread, Control, SyncFails, Done
<1>11. CASE GetEnvironment
  <2>1. AddBegins(Declared, FALSE) /\ Declared \in Payload
    BY <1>11, DeclaredType DEF GetEnvironment
  <2>2. call.pc = "idle" /\ phase = "up" /\ UNCHANGED <<disk, phase, failed>>
    BY <1>11 DEF GetEnvironment, Calling
  <2>3. CASE Declared.given
    BY <2>1, <2>2, <2>3, RequestFields DEF FallbackIsUnread, Control
  <2>4. CASE ~Declared.given
    BY <2>1, <2>2, <2>4, RequestFields, PayloadFacts DEF FallbackIsUnread, Control
  <2> QED BY <2>3, <2>4
<1>12. ASSUME NEW payload \in Payload, AddEnvironment(payload) PROVE FallbackIsUnread'
  <2>1. AddBegins(payload, FALSE) /\ payload \in Payload
    BY <1>12 DEF AddEnvironment
  <2>2. call.pc = "idle" /\ phase = "up" /\ UNCHANGED <<disk, phase, failed>>
    BY <1>12 DEF AddEnvironment, Calling
  <2>3. CASE payload.given
    BY <2>1, <2>2, <2>3, RequestFields DEF FallbackIsUnread, Control
  <2>4. CASE ~payload.given
    BY <2>1, <2>2, <2>4, RequestFields, PayloadFacts DEF FallbackIsUnread, Control
  <2> QED BY <2>3, <2>4
<1>13. CASE DeleteEnvironment
  BY <1>13, GotoFields DEF TypeOK, FallbackIsUnread, Control, DeleteEnvironment, Calling
<1>14. CASE Close
  BY <1>14, GotoFields DEF TypeOK, FallbackIsUnread, Control, Close
<1>15. CASE DeleteDestinations
  BY <1>15, GotoFields DEF TypeOK, FallbackIsUnread, Control, DeleteDestinations
<1>16. CASE DeleteRow
  BY <1>16, GotoFields DEF TypeOK, FallbackIsUnread, Control, DeleteRow
<1>17. CASE DeleteRowFails
  BY <1>17, NoCallType DEF TypeOK, FallbackIsUnread, Control, DeleteRowFails, Done
<1>18. CASE RemoveDirectory
  BY <1>18, NoCallType DEF TypeOK, FallbackIsUnread, Control, RemoveDirectory, Done
<1>19. ASSUME NEW reInit \in BOOLEAN, BootFromConfig(reInit) PROVE FallbackIsUnread'
  BY <1>19, BootFields, DeclaredType, PayloadFacts
     DEF TypeOK, FallbackIsUnread, Control, BootFromConfig
<1>20. CASE BootFromDatabase
  BY <1>20, NoCallType, GotoFields DEF TypeOK, FallbackIsUnread, Control, BootFromDatabase, Done
<1>21. CASE Access
  <2>1. CASE AddBegins(List(config.dests), TRUE) /\ UNCHANGED phase
    BY <1>21, <2>1, FallbackFields DEF FallbackIsUnread, Control
  <2>2. CASE Goto("read") /\ UNCHANGED <<phase, environment, history>>
    BY <1>21, <2>2, GotoFields DEF FallbackIsUnread, Control, Access
  <2>3. CASE Done /\ UNCHANGED <<environment, history>>
    BY <1>21, <2>3, NoCallType DEF FallbackIsUnread, Control, Access, Done
  <2> QED BY <1>21, <2>1, <2>2, <2>3 DEF Access
<1>22. CASE ReadDestinations
  BY <1>22, ReadFields DEF TypeOK, FallbackIsUnread, Control, ReadDestinations
<1>23. CASE Restore
  BY <1>23, NoCallType DEF TypeOK, FallbackIsUnread, Control, Restore, Done
<1>24. CASE RestoreFails
  BY <1>24, NoCallType DEF TypeOK, FallbackIsUnread, Control, RestoreFails, Done
<1>25. CASE Stop
  BY <1>25, NoCallType DEF TypeOK, FallbackIsUnread, Control, Stop
<1>26. CASE DiskChanges
  BY <1>26 DEF TypeOK, FallbackIsUnread, Control, DiskChanges
<1>27. CASE UNCHANGED vars
  BY <1>27 DEF FallbackIsUnread, Control, vars
<1> QED
  BY <1>1, <1>2, <1>3, <1>4, <1>5, <1>6, <1>7, <1>8, <1>9, <1>10, <1>11, <1>12, <1>13, <1>14,
     <1>15, <1>16, <1>17, <1>18, <1>19, <1>20, <1>21, <1>22, <1>23, <1>24, <1>25, <1>26, <1>27
     DEF Next

\* No step loses what was asked for.
LEMMA KeepsStep ==
  TypeOK /\ Control /\ FallbackIsUnread /\ Keeps /\ [Next]_vars => Keeps'
<1> SUFFICES ASSUME TypeOK, Keeps, Control, FallbackIsUnread, [Next]_vars PROVE Keeps'
  OBVIOUS
<1> USE DEF disk, environment, history
<1>1. CASE Existing
  BY <1>1, GotoFields DEF TypeOK, Keeps, Kept, Control, FallbackIsUnread, Existing
<1>2. CASE Mount
  BY <1>2, GotoFields DEF TypeOK, Keeps, Kept, Control, FallbackIsUnread, Mount
<1>3. CASE Create
  BY <1>3, CreateFields DEF Keeps, Kept, Control, FallbackIsUnread
<1>4. CASE AddFails
  BY <1>4, NoCallType DEF TypeOK, Keeps, Kept, Control, FallbackIsUnread, AddFails, Done
<1>5. CASE WriteRow
  BY <1>5 DEF TypeOK, Call, Keeps, Kept, Control, FallbackIsUnread, WriteRow
<1>6. CASE Upsert
  BY <1>6 DEF TypeOK, Call, Keeps, Kept, Control, FallbackIsUnread, Upsert
<1>7. CASE Reconcile
  <2>1. call.pc = "upsert" /\ call.todo = {}
    BY <1>7 DEF Reconcile
  <2>2. CASE authoritative
    <3>1. call'.pc = "prune" /\ call'.gone = stored \ dests
          /\ call'.fallback = call.fallback
      BY <1>7, <2>2 DEF TypeOK, Call, Reconcile
    <3> QED BY <1>7, <2>1, <2>2, <3>1 DEF Reconcile, Keeps, Kept, Control, FallbackIsUnread
  <2>3. CASE ~authoritative
    BY <1>7, <2>1, <2>3, NoCallType DEF Reconcile, Done, Keeps, Kept, Control, FallbackIsUnread
  <2> QED BY <2>2, <2>3
<1>8. CASE Prune
  BY <1>8 DEF TypeOK, Call, Keeps, Kept, Control, FallbackIsUnread, Prune
<1>9. CASE Synced
  BY <1>9, NoCallType DEF TypeOK, Keeps, Kept, Control, FallbackIsUnread, Synced, Done
<1>10. CASE SyncFails
  BY <1>10, NoCallType DEF TypeOK, Keeps, Kept, Control, FallbackIsUnread, SyncFails, Done
<1>11. CASE GetEnvironment
  <2>1. AddBegins(Declared, FALSE) /\ Declared \in Payload
    BY <1>11, DeclaredType DEF GetEnvironment
  <2>2. call.pc = "idle" /\ phase = "up" /\ UNCHANGED <<disk, phase, failed>>
    BY <1>11 DEF GetEnvironment, Calling
  <2>3. CASE Declared.given
    BY <2>1, <2>2, <2>3, RequestFields DEF Keeps, Kept, Control, FallbackIsUnread
  <2>4. CASE ~Declared.given
    BY <2>1, <2>2, <2>4, RequestFields, PayloadFacts DEF Keeps, Kept, Control, FallbackIsUnread
  <2> QED BY <2>3, <2>4
<1>12. ASSUME NEW payload \in Payload, AddEnvironment(payload) PROVE Keeps'
  <2>1. AddBegins(payload, FALSE) /\ payload \in Payload
    BY <1>12 DEF AddEnvironment
  <2>2. call.pc = "idle" /\ phase = "up" /\ UNCHANGED <<disk, phase, failed>>
    BY <1>12 DEF AddEnvironment, Calling
  <2>3. CASE payload.given
    BY <2>1, <2>2, <2>3, RequestFields DEF Keeps, Kept, Control, FallbackIsUnread
  <2>4. CASE ~payload.given
    BY <2>1, <2>2, <2>4, RequestFields, PayloadFacts DEF Keeps, Kept, Control, FallbackIsUnread
  <2> QED BY <2>3, <2>4
<1>13. CASE DeleteEnvironment
  BY <1>13, GotoFields
     DEF TypeOK, Keeps, Kept, Control, FallbackIsUnread, DeleteEnvironment, Calling
<1>14. CASE Close
  BY <1>14, GotoFields DEF TypeOK, Keeps, Kept, Control, FallbackIsUnread, Close
<1>15. CASE DeleteDestinations
  BY <1>15, GotoFields DEF TypeOK, Keeps, Kept, Control, FallbackIsUnread, DeleteDestinations
<1>16. CASE DeleteRow
  BY <1>16, GotoFields DEF TypeOK, Keeps, Kept, Control, FallbackIsUnread, DeleteRow
<1>17. CASE DeleteRowFails
  BY <1>17, NoCallType DEF TypeOK, Keeps, Kept, Control, FallbackIsUnread, DeleteRowFails, Done
<1>18. CASE RemoveDirectory
  BY <1>18, NoCallType DEF TypeOK, Keeps, Kept, Control, FallbackIsUnread, RemoveDirectory, Done
<1>19. ASSUME NEW reInit \in BOOLEAN, BootFromConfig(reInit) PROVE Keeps'
  <2>1. ~loaded' /\ ~row' /\ stored' = {}
    BY <1>19 DEF BootFromConfig, Control
  <2>2. ~Declared.given => Declared.list = {}
    BY DeclaredType, PayloadFacts
  <2> QED BY <1>19, <2>1, <2>2, BootFields DEF Keeps, Kept, Control, FallbackIsUnread
<1>20. CASE BootFromDatabase
  BY <1>20, NoCallType, GotoFields
     DEF TypeOK, Keeps, Kept, Control, FallbackIsUnread, BootFromDatabase, Done
<1>21. CASE Access
  <2>1. CASE AddBegins(List(config.dests), TRUE) /\ UNCHANGED phase
    BY <1>21, <2>1, FallbackFields DEF Keeps, Kept, Control, FallbackIsUnread
  <2>2. CASE Goto("read") /\ UNCHANGED <<phase, environment, history>>
    BY <1>21, <2>2, GotoFields DEF Keeps, Kept, Control, FallbackIsUnread, Access
  <2>3. CASE Done /\ UNCHANGED <<environment, history>>
    BY <1>21, <2>3, NoCallType DEF Keeps, Kept, Control, FallbackIsUnread, Access, Done
  <2> QED BY <1>21, <2>1, <2>2, <2>3 DEF Access
<1>22. CASE ReadDestinations
  BY <1>22, ReadFields DEF TypeOK, Keeps, Kept, Control, FallbackIsUnread, ReadDestinations
<1>23. CASE Restore
  BY <1>23, NoCallType DEF TypeOK, Keeps, Kept, Control, FallbackIsUnread, Restore, Done
<1>24. CASE RestoreFails
  BY <1>24, NoCallType DEF TypeOK, Keeps, Kept, Control, FallbackIsUnread, RestoreFails, Done
<1>25. CASE Stop
  BY <1>25, StopFields DEF Keeps, Kept, Control, FallbackIsUnread
<1>26. CASE DiskChanges
  BY <1>26 DEF TypeOK, Keeps, Kept, Control, FallbackIsUnread, DiskChanges
<1>27. CASE UNCHANGED vars
  BY <1>27 DEF Keeps, Kept, Control, FallbackIsUnread, vars
<1> QED
  BY <1>1, <1>2, <1>3, <1>4, <1>5, <1>6, <1>7, <1>8, <1>9, <1>10, <1>11, <1>12, <1>13, <1>14,
     <1>15, <1>16, <1>17, <1>18, <1>19, <1>20, <1>21, <1>22, <1>23, <1>24, <1>25, <1>26, <1>27
     DEF Next

\* No step brings back what was not asked for.
LEMMA OnlyStep ==
  TypeOK /\ Control /\ FallbackIsUnread /\ Only /\ [Next]_vars => Only'
<1> SUFFICES ASSUME TypeOK, Only, Control, FallbackIsUnread, [Next]_vars PROVE Only'
  OBVIOUS
<1> USE DEF disk, environment, history
<1>1. CASE Existing
  BY <1>1, GotoFields DEF TypeOK, Only, Control, FallbackIsUnread, Existing
<1>2. CASE Mount
  BY <1>2, GotoFields DEF TypeOK, Only, Control, FallbackIsUnread, Mount
<1>3. CASE Create
  BY <1>3, CreateFields DEF Only, Control, FallbackIsUnread
<1>4. CASE AddFails
  BY <1>4, NoCallType DEF TypeOK, Only, Control, FallbackIsUnread, AddFails, Done
<1>5. CASE WriteRow
  BY <1>5 DEF TypeOK, Call, Only, Control, FallbackIsUnread, WriteRow
<1>6. CASE Upsert
  BY <1>6 DEF TypeOK, Call, Only, Control, FallbackIsUnread, Upsert
<1>7. CASE Reconcile
  <2>1. call.pc = "upsert" /\ call.todo = {}
    BY <1>7 DEF Reconcile
  <2>2. CASE authoritative
    <3>1. call'.pc = "prune" /\ call'.gone = stored \ dests
          /\ call'.fallback = call.fallback
      BY <1>7, <2>2 DEF TypeOK, Call, Reconcile
    <3> QED BY <1>7, <2>1, <2>2, <3>1 DEF Reconcile, Only, Control, FallbackIsUnread
  <2>3. CASE ~authoritative
    BY <1>7, <2>1, <2>3, NoCallType DEF Reconcile, Done, Only, Control, FallbackIsUnread
  <2> QED BY <2>2, <2>3
<1>8. CASE Prune
  BY <1>8 DEF TypeOK, Call, Only, Control, FallbackIsUnread, Prune
<1>9. CASE Synced
  BY <1>9, NoCallType DEF TypeOK, Only, Control, FallbackIsUnread, Synced, Done
<1>10. CASE SyncFails
  BY <1>10, NoCallType DEF TypeOK, Only, Control, FallbackIsUnread, SyncFails, Done
<1>11. CASE GetEnvironment
  <2>1. AddBegins(Declared, FALSE) /\ Declared \in Payload
    BY <1>11, DeclaredType DEF GetEnvironment
  <2>2. call.pc = "idle" /\ phase = "up" /\ UNCHANGED <<disk, phase, failed>>
    BY <1>11 DEF GetEnvironment, Calling
  <2>3. CASE Declared.given
    BY <2>1, <2>2, <2>3, RequestFields DEF Only, Control, FallbackIsUnread
  <2>4. CASE ~Declared.given
    BY <2>1, <2>2, <2>4, RequestFields, PayloadFacts DEF Only, Control, FallbackIsUnread
  <2> QED BY <2>3, <2>4
<1>12. ASSUME NEW payload \in Payload, AddEnvironment(payload) PROVE Only'
  <2>1. AddBegins(payload, FALSE) /\ payload \in Payload
    BY <1>12 DEF AddEnvironment
  <2>2. call.pc = "idle" /\ phase = "up" /\ UNCHANGED <<disk, phase, failed>>
    BY <1>12 DEF AddEnvironment, Calling
  <2>3. CASE payload.given
    BY <2>1, <2>2, <2>3, RequestFields DEF Only, Control, FallbackIsUnread
  <2>4. CASE ~payload.given
    BY <2>1, <2>2, <2>4, RequestFields, PayloadFacts DEF Only, Control, FallbackIsUnread
  <2> QED BY <2>3, <2>4
<1>13. CASE DeleteEnvironment
  BY <1>13, GotoFields DEF TypeOK, Only, Control, FallbackIsUnread, DeleteEnvironment, Calling
<1>14. CASE Close
  BY <1>14, GotoFields DEF TypeOK, Only, Control, FallbackIsUnread, Close
<1>15. CASE DeleteDestinations
  BY <1>15, GotoFields DEF TypeOK, Only, Control, FallbackIsUnread, DeleteDestinations
<1>16. CASE DeleteRow
  BY <1>16, GotoFields DEF TypeOK, Only, Control, FallbackIsUnread, DeleteRow
<1>17. CASE DeleteRowFails
  BY <1>17, NoCallType DEF TypeOK, Only, Control, FallbackIsUnread, DeleteRowFails, Done
<1>18. CASE RemoveDirectory
  BY <1>18, NoCallType DEF TypeOK, Only, Control, FallbackIsUnread, RemoveDirectory, Done
<1>19. ASSUME NEW reInit \in BOOLEAN, BootFromConfig(reInit) PROVE Only'
  <2>1. ~loaded' /\ ~row' /\ stored' = {}
    BY <1>19 DEF BootFromConfig, Control
  <2>2. ~Declared.given => Declared.list = {}
    BY DeclaredType, PayloadFacts
  <2> QED BY <1>19, <2>1, <2>2, BootFields DEF Only, Control, FallbackIsUnread
<1>20. CASE BootFromDatabase
  BY <1>20, NoCallType, GotoFields
     DEF TypeOK, Only, Control, FallbackIsUnread, BootFromDatabase, Done
<1>21. CASE Access
  <2>1. CASE AddBegins(List(config.dests), TRUE) /\ UNCHANGED phase
    BY <1>21, <2>1, FallbackFields DEF Only, Control, FallbackIsUnread
  <2>2. CASE Goto("read") /\ UNCHANGED <<phase, environment, history>>
    BY <1>21, <2>2, GotoFields DEF Only, Control, FallbackIsUnread, Access
  <2>3. CASE Done /\ UNCHANGED <<environment, history>>
    BY <1>21, <2>3, NoCallType DEF Only, Control, FallbackIsUnread, Access, Done
  <2> QED BY <1>21, <2>1, <2>2, <2>3 DEF Access
<1>22. CASE ReadDestinations
  BY <1>22, ReadFields DEF TypeOK, Only, Control, FallbackIsUnread, ReadDestinations
<1>23. CASE Restore
  BY <1>23, NoCallType DEF TypeOK, Only, Control, FallbackIsUnread, Restore, Done
<1>24. CASE RestoreFails
  BY <1>24, NoCallType DEF TypeOK, Only, Control, FallbackIsUnread, RestoreFails, Done
<1>25. CASE Stop
  BY <1>25, StopFields DEF Only, Control, FallbackIsUnread
<1>26. CASE DiskChanges
  BY <1>26 DEF TypeOK, Only, Control, FallbackIsUnread, DiskChanges
<1>27. CASE UNCHANGED vars
  BY <1>27 DEF Only, Control, FallbackIsUnread, vars
<1> QED
  BY <1>1, <1>2, <1>3, <1>4, <1>5, <1>6, <1>7, <1>8, <1>9, <1>10, <1>11, <1>12, <1>13, <1>14,
     <1>15, <1>16, <1>17, <1>18, <1>19, <1>20, <1>21, <1>22, <1>23, <1>24, <1>25, <1>26, <1>27
     DEF Next

-----------------------------------------------------------------------------
(* Theorems *)

\* Every variable of the store stays in its range (EnvironmentStore).
THEOREM StoreTypeCorrect == Spec => []TypeOK
<1>1. Init => TypeOK
  <2> SUFFICES ASSUME Init PROVE TypeOK
    OBVIOUS
  <2>1. calls \in 0 .. MaxCalls
    BY BoundsAssumption DEF Init
  <2>2. call \in Call /\ phase \in {"down", "boot", "up"}
    BY NoCallType DEF Init
  <2> QED BY <2>1, <2>2 DEF Init, TypeOK
<1> QED BY <1>1, TypeStep, PTL DEF Spec

\* The inductive invariant.
IInv == Control /\ FallbackIsUnread /\ Keeps /\ Only

LEMMA IInvHolds == Spec => []IInv
<1>1. Init => IInv
  BY NoCallType DEF Init, IInv, Control, FallbackIsUnread, Keeps, Kept, Only
<1>2. TypeOK /\ IInv /\ [Next]_vars => IInv'
  BY ControlStep, FallbackStep, KeepsStep, OnlyStep DEF IInv
<1> QED BY <1>1, <1>2, StoreTypeCorrect, PTL DEF Spec

\* No destination is lost: once a list was asked for and its sync finished, its
\* destinations stay stored through restarts, unreadable rows, missing directories
\* and updates that give no list (syncStorageDestinations), if the environment was
\* restored or created with a list whenever its row was there.
THEOREM NoDestinationIsLost == Spec => []AskedAreStored
<1>1. IInv => AskedAreStored
  BY DEF IInv, Keeps, Kept, AskedAreStored, AtRest
<1> QED BY <1>1, IInvHolds, PTL

\* No destination that was removed comes back, unless a boot had to stand in the
\* configuration for the stored rows (markStorageDestinationsUnknown).
THEOREM NoDestinationComesBack == Spec => []OnlyAskedAreStored
<1>1. IInv => OnlyAskedAreStored
  BY DEF IInv, Only, OnlyAskedAreStored, AtRest
<1> QED BY <1>1, IInvHolds, PTL

\* An environment that is served is not reported as one that failed to load
\* (recordEnvironmentInitializationFailure).
THEOREM ServedDidNotFail == Spec => []FailedIsAbsent
<1>1. Init => FailedIsAbsent
  BY DEF Init, FailedIsAbsent
<1>2. TypeOK /\ Control /\ FailedIsAbsent /\ [Next]_vars => FailedIsAbsent'
  <2> SUFFICES ASSUME TypeOK, Control, FailedIsAbsent, [Next]_vars PROVE FailedIsAbsent'
    OBVIOUS
  <2> USE DEF FailedIsAbsent, environment
  <2>1. CASE Create
    BY <2>1 DEF Create
  <2>2. CASE AddFails
    BY <2>2 DEF AddFails
  <2>3. CASE Restore
    BY <2>3 DEF Restore, Control
  <2>4. CASE RestoreFails
    BY <2>4 DEF RestoreFails, Control
  <2>5. CASE Stop \/ Close
    BY <2>5 DEF Stop, Close
  <2>6. CASE UNCHANGED <<failed, loaded>>
    BY <2>6
  <2> QED
    BY <2>1, <2>2, <2>3, <2>4, <2>5, <2>6
       DEF Next, Existing, Mount, WriteRow, Upsert, Reconcile, Prune, Synced, SyncFails,
           GetEnvironment, AddEnvironment, AddBegins, DeleteEnvironment, DeleteDestinations,
           DeleteRow, DeleteRowFails, RemoveDirectory, BootFromConfig, BootFromDatabase, Access,
           ReadDestinations, DiskChanges, vars
<1>3. IInv => Control
  BY DEF IInv
<1> QED BY <1>1, <1>2, <1>3, StoreTypeCorrect, IInvHolds, PTL DEF Spec
=============================================================================
