------------------------------ MODULE WatchMode ------------------------------
(* Watch mode: the one watcher of the process, started and stopped by concurrent *)
(* requests, and what its events lead to, the reload of the package of an edited *)
(* model and the message to the open pages. One package stands for an            *)
(* environment's packages.                                                       *)
EXTENDS Naturals, Sequences, FiniteSets

CONSTANTS
  Envs,        \* environments
  Starters,    \* calls of ensureWatching
  Stoppers,    \* calls of stopWatchMode
  MaxWatchers, \* bound on watchers made
  MaxEdits     \* bound on edits of a model

None == "none"
Watchers == 1 .. MaxWatchers

ASSUME BoundsAssumption == MaxWatchers \in Nat /\ MaxEdits \in Nat /\ None \notin Envs

VARIABLES
  watcher,  \* this.watcher
  watching, \* this.watchingEnvironmentName and watchingPath, set together
  watched,  \* of each watcher made: its environment
  open,     \* watchers whose handles are held
  chain,    \* setupChain: the starters in it, the running one first
  start,    \* of each starter: where it is
  stop,     \* of each stopper: where it is
  disk,     \* of each environment: the edits made so far
  broken,   \* the last edit of an environment does not compile
  served,   \* of each environment: the edit its package was loaded from
  told,     \* of each environment: the edit served when pages were last told to refresh
  events,   \* events under way, from the watcher to the message
  missed,   \* history: environments whose last edit was not seen, or its reload refused
  overtaken \* history: a stop ended after a start had put another watcher in place

control == <<watcher, watching, watched, open, chain, start, stop, overtaken>>
content == <<disk, broken, served, told, events, missed>>
watchVars == <<watcher, watching, watched, open, chain, start, stop, disk, broken, served, told, events,
          missed, overtaken>>

Event == [by : Watchers, env : Envs, edit : Nat, pc : {"event", "reload", "read", "emit"},
          read : Nat, failed : BOOLEAN]

WatchTypeOK ==
  /\ watcher \in Watchers \cup {0}
  /\ watching \in Envs \cup {None}
  /\ watched \in Seq(Envs) /\ Len(watched) <= MaxWatchers
  /\ open \subseteq Watchers
  /\ chain \in Seq(Starters)
  /\ start \in [Starters -> [pc : {"idle", "queued", "lookup", "close"}, env : Envs \cup {None},
                             closes : Watchers \cup {0}]]
  /\ stop \in [Stoppers -> [pc : {"idle", "close"}, closes : Watchers \cup {0}]]
  /\ disk \in [Envs -> Nat] /\ served \in [Envs -> Nat] /\ told \in [Envs -> Nat]
  /\ events \subseteq Event
  /\ broken \subseteq Envs /\ missed \subseteq Envs
  /\ overtaken \in BOOLEAN

WatchInit ==
  /\ watcher = 0 /\ watching = None
  /\ watched = <<>> /\ open = {}
  /\ chain = <<>>
  /\ start = [s \in Starters |-> [pc |-> "idle", env |-> None, closes |-> 0]]
  /\ stop = [s \in Stoppers |-> [pc |-> "idle", closes |-> 0]]
  /\ disk = [e \in Envs |-> 0] /\ served = [e \in Envs |-> 0] /\ told = [e \in Envs |-> 0]
  /\ broken = {}
  /\ events = {}
  /\ missed = {} /\ overtaken = FALSE

-----------------------------------------------------------------------------
(* Watchers *)

IsWatching(env) == watcher # 0 /\ watching = env

\* Events a watcher has not delivered go with it; their edits are not seen.
Undelivered(w) == {v \in events : v.pc = "event" /\ v.by = w}
CloseWatcher(w) ==
  /\ open' = open \ {w}
  /\ events' = events \ Undelivered(w)
  /\ missed' = missed \cup {v.env : v \in Undelivered(w)}

StartWatcher(env) ==
  /\ Len(watched) < MaxWatchers
  /\ watched' = Append(watched, env)
  /\ open' = open \cup {Len(watched) + 1}
  /\ watcher' = Len(watched) + 1
  /\ watching' = env

\* The promise of the start that runs settles, and the next one's turn has come.
Leave(s) ==
  /\ chain' = Tail(chain)
  /\ start' = [start EXCEPT ![s] = [pc |-> "idle", env |-> None, closes |-> 0]]

\* ensureWatching: nothing to do, or a place at the end of the chain.
EnsureWatching(s, env) ==
  /\ start[s].pc = "idle"
  /\ ~IsWatching(env)
  /\ Len(watched) < MaxWatchers
  /\ chain' = Append(chain, s)
  /\ start' = [start EXCEPT ![s] = [pc |-> "queued", env |-> env, closes |-> 0]]
  /\ UNCHANGED <<watcher, watching, watched, open, stop, overtaken, content>>

\* Variant: every start runs at once.
MyTurnAlways(s) == TRUE

\* The starts before it, failed ones too, are over.
MyTurn(s) == Head(chain) = s

Check(s) ==
  /\ start[s].pc = "queued"
  /\ MyTurn(s)
  /\ IF IsWatching(start[s].env) THEN Leave(s)
     ELSE start' = [start EXCEPT ![s].pc = "lookup"] /\ UNCHANGED chain
  /\ UNCHANGED <<watcher, watching, watched, open, stop, overtaken, content>>

\* getEnvironment answered: the watcher in place, if any, is closed first.
Found(s) ==
  /\ start[s].pc = "lookup"
  /\ IF watcher # 0
     THEN /\ start' = [start EXCEPT ![s].pc = "close", ![s].closes = watcher]
          /\ CloseWatcher(watcher)
          /\ UNCHANGED <<watcher, watching, watched, chain>>
     ELSE /\ StartWatcher(start[s].env)
          /\ Leave(s)
          /\ UNCHANGED <<events, missed>>
  /\ UNCHANGED <<stop, overtaken, disk, broken, served, told>>

NotFound(s) ==
  /\ start[s].pc = "lookup"
  /\ Leave(s)
  /\ UNCHANGED <<watcher, watching, watched, open, stop, overtaken, content>>

\* close has ended.
Replace(s) ==
  /\ start[s].pc = "close"
  /\ StartWatcher(start[s].env)
  /\ Leave(s)
  /\ UNCHANGED <<stop, overtaken, content>>

\* stopWatchMode is not in the chain.
StopWatchMode(s) ==
  /\ stop[s].pc = "idle"
  /\ IF watcher # 0
     THEN /\ stop' = [stop EXCEPT ![s] = [pc |-> "close", closes |-> watcher]]
          /\ CloseWatcher(watcher)
          /\ UNCHANGED watching
     ELSE /\ watching' = None
          /\ UNCHANGED <<stop, open, events, missed>>
  /\ UNCHANGED <<watcher, watched, chain, start, overtaken, disk, broken, served, told>>

Stopped(s) ==
  /\ stop[s].pc = "close"
  /\ watcher' = 0
  /\ watching' = None
  /\ overtaken' = (overtaken \/ watcher \notin {0, stop[s].closes})
  /\ stop' = [stop EXCEPT ![s] = [pc |-> "idle", closes |-> 0]]
  /\ UNCHANGED <<watched, open, chain, start, content>>

-----------------------------------------------------------------------------
(* Edits *)

\* A model file is saved, in a state that compiles or not; the watchers of its
\* environment have an event to deliver.
Edit(env, compiles) ==
  LET seeing == {w \in open : watched[w] = env}
  IN /\ disk[env] < MaxEdits
     /\ disk' = [disk EXCEPT ![env] = @ + 1]
     /\ broken' = IF compiles THEN broken \ {env} ELSE broken \cup {env}
     /\ events' = events \cup {[by |-> w, env |-> env, edit |-> disk'[env], pc |-> "event",
                                read |-> 0, failed |-> FALSE] : w \in seeing}
     /\ missed' = IF seeing = {} THEN missed \cup {env} ELSE missed \ {env}
     /\ UNCHANGED <<served, told, control>>

\* Variant: an event during a reload of the package is taken to be covered by it.
DeliverOnce(v) ==
  /\ v.pc = "event"
  /\ IF watching = v.env /\ ~\E u \in events : u.env = v.env /\ u.pc \in {"reload", "read"}
     THEN events' = (events \ {v}) \cup {[v EXCEPT !.pc = "reload"]}
     ELSE events' = events \ {v}
  /\ missed' = IF watching = v.env THEN missed ELSE missed \cup {v.env}
  /\ UNCHANGED <<disk, broken, served, told, control>>

\* onEvent: the path is taken relative to the one being watched by now, and a file
\* outside it, or any file once nothing is watched, belongs to no package.
Deliver(v) ==
  /\ v.pc = "event"
  /\ IF watching = v.env
     THEN events' = (events \ {v}) \cup {[v EXCEPT !.pc = "reload"]} /\ UNCHANGED missed
     ELSE events' = events \ {v} /\ missed' = missed \cup {v.env}
  /\ UNCHANGED <<disk, broken, served, told, control>>

\* getPackage with reload: one at a time, by the package's mutex.
ReloadReads(v) ==
  /\ v.pc = "reload"
  /\ ~\E u \in events : u.env = v.env /\ u.pc = "read"
  /\ events' = (events \ {v}) \cup {[v EXCEPT !.pc = "read", !.read = disk[v.env],
                                                !.failed = v.env \in broken]}
  /\ UNCHANGED <<disk, broken, served, told, missed, control>>

\* Memory back-pressure refuses the reload; nothing tries it again.
ReloadRefused(v) ==
  /\ v.pc = "reload"
  /\ events' = events \ {v}
  /\ missed' = missed \cup {v.env}
  /\ UNCHANGED <<disk, broken, served, told, control>>

\* A package that does not compile leaves the one in place, and the pages alone.
ReloadEnds(v) ==
  /\ v.pc = "read"
  /\ IF v.failed
     THEN events' = events \ {v} /\ UNCHANGED served
     ELSE /\ events' = (events \ {v}) \cup {[v EXCEPT !.pc = "emit"]}
          /\ served' = [served EXCEPT ![v.env] = v.read]
  /\ UNCHANGED <<disk, broken, told, missed, control>>

Emit(v) ==
  /\ v.pc = "emit"
  /\ events' = events \ {v}
  /\ told' = [told EXCEPT ![v.env] = served[v.env]]
  /\ UNCHANGED <<disk, broken, served, missed, control>>

WatchNext ==
  \/ \E s \in Starters : \/ \E env \in Envs : EnsureWatching(s, env)
                         \/ Check(s) \/ Found(s) \/ NotFound(s) \/ Replace(s)
  \/ \E s \in Stoppers : StopWatchMode(s) \/ Stopped(s)
  \/ \E env \in Envs, compiles \in BOOLEAN : Edit(env, compiles)
  \/ \E v \in events : Deliver(v) \/ ReloadReads(v) \/ ReloadRefused(v) \/ ReloadEnds(v) \/ Emit(v)

WatchSpec == WatchInit /\ [][WatchNext]_watchVars

-----------------------------------------------------------------------------
(* Properties *)

\* No watcher is left running that nothing refers to, however starts of different
\* environments and stops interleave, unless a start overtakes a stop (setupChain).
NoOrphan == ~overtaken => open \subseteq {watcher}

\* The last of several quick edits is the one that is served and the one the pages
\* were told of, once its event is handled, if it was watched, compiles and
\* was not refused (onEvent).
LastEditIsShown ==
  \A e \in Envs :
    disk[e] > 0 /\ e \notin missed \cup broken /\ (\A v \in events : v.env # e)
      => served[e] = disk[e] /\ told[e] = disk[e]
=============================================================================
