----------------------- MODULE MaterializationScheduler -----------------------
(* The standalone scheduler: a sweep that an interval starts, in which loaded    *)
(* packages are armed, fired when due and disarmed when gone. The arming state   *)
(* is in memory; the rows of the runs are in publisher.db, survive the process,  *)
(* and go when their run or their package is deleted. A row that a process left  *)
(* active stays active: only an operator's stop ends it.                         *)
(*                                                                               *)
(* A sweep is cut where it awaits: the look-up of the last recorded fire and the *)
(* creation of a run. Ticks with more than one member lets the interval start a  *)
(* sweep while another one awaits.                                               *)
EXTENDS Naturals

CONSTANTS
  Packages,        \* packages followed here; a sweep may fire others between them
  NoPackage,       \* a sweep with no package in hand
  Crons,           \* valid cron expressions
  NoCron,          \* no schedule, orchestrated, or an invalid policy or cron
  NextAfter(_, _), \* CronEvaluator.nextAfter
  Ticks,           \* sweeps in progress at the same time
  MaxFires,        \* maxFiresPerTick
  Faults,          \* BOOLEAN: look-ups, creations and the writes of a run may fail
  MaxTime          \* bound on the clock

Times == 0 .. MaxTime

ASSUME CronAssumption ==
  /\ NoCron \notin Crons
  /\ \A s \in Crons, t \in Times : NextAfter(s, t) \in Nat /\ NextAfter(s, t) > t
  /\ \A s \in Crons, t, u \in Times : t <= u => NextAfter(s, t) <= NextAfter(s, u)
ASSUME NoPackageAssumption == NoPackage \notin Packages
ASSUME SchedulerBounds ==
  /\ MaxFires \in Nat \ {0}
  /\ MaxTime \in Nat
  /\ Faults \in BOOLEAN

VARIABLES
  now,      \* Date.now()
  loaded,   \* packages the environment holds
  cron,     \* what schedulableCron answers for each
  entry,    \* the map of ScheduleState
  tick,     \* the sweeps in progress
  records,  \* rows of each package with trigger SCHEDULER, over or not
  run,      \* the row of each package that is active
  settled,  \* history: up to when its occurrences are accounted for
  refused,  \* history: packages armed past a fire that a row without a task refused
  raced     \* history: packages two sweeps owed at once, in this process

sweepVars == <<entry, tick>>
rowVars == <<records, run>>
historyVars == <<settled, refused, raced>>
schedulerVars == <<now, loaded, cron, sweepVars, rowVars, historyVars>>

Entry == [schedule : Crons, next : Nat]
NoEntry == [schedule |-> NoCron, next |-> 0]
Sweep == [pc : {"idle", "sweep", "anchor", "fire"}, now : Times, queue : SUBSET Packages,
          crons : [Packages -> Crons \cup {NoCron}], seen : SUBSET Packages,
          fires : 0 .. MaxFires, package : Packages \cup {NoPackage}, attached : BOOLEAN]

\* When a row was created, and by the sweep of what time.
Row == [at : Times, sweep : Times]

\* The active row: one a task of this process works on, or one that no task will
\* end. Its own record is in "row" when the scheduler made it.
ActiveRun == [state : {"none", "live", "dead"}, row : SUBSET Row]
NoRun == [state |-> "none", row |-> {}]

SchedulerTypeOK ==
  /\ now \in Times
  /\ loaded \subseteq Packages
  /\ cron \in [Packages -> Crons \cup {NoCron}]
  /\ entry \in [Packages -> Entry \cup {NoEntry}]
  /\ tick \in [Ticks -> Sweep]
  /\ records \in [Packages -> SUBSET Row]
  /\ run \in [Packages -> ActiveRun]
  /\ settled \in [Packages -> Times]
  /\ refused \subseteq Packages
  /\ raced \subseteq Packages

NoTick ==
  [pc |-> "idle", now |-> 0, queue |-> {}, crons |-> [p \in Packages |-> NoCron], seen |-> {},
   fires |-> 0, package |-> NoPackage, attached |-> FALSE]

SchedulerInit ==
  /\ now = 0
  /\ loaded = {}
  /\ cron = [p \in Packages |-> NoCron]
  /\ entry = [p \in Packages |-> NoEntry]
  /\ tick = [t \in Ticks |-> NoTick]
  /\ records = [p \in Packages |-> {}]
  /\ run = [p \in Packages |-> NoRun]
  /\ settled = [p \in Packages |-> 0]
  /\ refused = {}
  /\ raced = {}

-----------------------------------------------------------------------------
(* The sweep *)

\* The packages a sweep has still to turn to, or has in hand.
Owed(t) == {p \in Packages : p \in tick[t].queue \/ p = tick[t].package}

\* The occurrences of p up to time t are accounted for.
Settle(p, t) ==
  /\ settled' = [settled EXCEPT ![p] = IF t > settled[p] THEN t ELSE settled[p]]
  /\ UNCHANGED raced

\* The interval. The packages, with their metadata, are the ones loaded now.
TickStarts(t) ==
  /\ tick[t].pc = "idle"
  /\ tick' = [tick EXCEPT ![t] = [NoTick EXCEPT !.pc = "sweep", !.now = now, !.queue = loaded,
                                                !.crons = cron]]
  /\ raced' = raced \cup {p \in loaded : \E u \in Ticks : p \in Owed(u)}
  /\ UNCHANGED <<now, loaded, cron, entry, rowVars, settled, refused>>

\* Other sweeps that hold the state object of p hold one that left the map.
Detach(p) == [u \in Ticks |-> IF tick[u].package = p THEN [tick[u] EXCEPT !.attached = FALSE]
                              ELSE tick[u]]

\* The state of p, e, is in hand: fire if it is due and the cap allows it.
Decide(t, p, e, ticks) ==
  LET fires == tick[t].now >= e.next /\ tick[t].fires < MaxFires
  IN tick' = [ticks EXCEPT ![t] =
       [tick[t] EXCEPT !.queue = tick[t].queue \ {p}, !.seen = tick[t].seen \cup {p},
                       !.pc = IF fires THEN "fire" ELSE "sweep",
                       !.package = IF fires THEN p ELSE NoPackage, !.attached = fires]]

\* A package that must not be scheduled loses its state.
SweepSkips(t, p) ==
  /\ tick[t].pc = "sweep"
  /\ p \in tick[t].queue
  /\ tick[t].crons[p] = NoCron
  /\ entry' = [entry EXCEPT ![p] = NoEntry]
  /\ tick' = [Detach(p) EXCEPT ![t].queue = @ \ {p}]
  /\ UNCHANGED <<now, loaded, cron, rowVars, historyVars>>

\* Armed already.
SweepArmed(t, p) ==
  /\ tick[t].pc = "sweep"
  /\ p \in tick[t].queue
  /\ entry[p] # NoEntry
  /\ entry[p].schedule = tick[t].crons[p]
  /\ Decide(t, p, entry[p], tick)
  /\ UNCHANGED <<now, loaded, cron, entry, rowVars, historyVars>>

\* The cron changed: armed anew from now, earlier occurrences are given up.
SweepRearms(t, p) ==
  LET s == tick[t].crons[p]
      armed == [schedule |-> s, next |-> NextAfter(s, tick[t].now)]
  IN /\ tick[t].pc = "sweep"
     /\ p \in tick[t].queue
     /\ s # NoCron
     /\ entry[p] # NoEntry
     /\ entry[p].schedule # s
     /\ entry' = [entry EXCEPT ![p] = armed]
     /\ Decide(t, p, armed, Detach(p))
     /\ Settle(p, tick[t].now)
     /\ refused' = refused \ {p}
     /\ UNCHANGED <<now, loaded, cron, rowVars>>

\* No state in this process: ask for the newest recorded fire.
SweepLooksUp(t, p) ==
  /\ tick[t].pc = "sweep"
  /\ p \in tick[t].queue
  /\ tick[t].crons[p] # NoCron
  /\ entry[p] = NoEntry
  /\ tick' = [tick EXCEPT ![t] = [tick[t] EXCEPT !.pc = "anchor", !.queue = tick[t].queue \ {p},
                                                 !.package = p]]
  /\ UNCHANGED <<now, loaded, cron, entry, rowVars, historyVars>>

\* Variant: a first arm always counts from now.
ArmFromNow(t) ==
  LET p == tick[t].package
      s == tick[t].crons[p]
      armed == [schedule |-> s, next |-> NextAfter(s, tick[t].now)]
  IN /\ tick[t].pc = "anchor"
     /\ records[p] # {}
     /\ entry' = [entry EXCEPT ![p] = armed]
     /\ Decide(t, p, armed, Detach(p))
     /\ refused' = refused \ {p}
     /\ UNCHANGED <<now, loaded, cron, rowVars, settled, raced>>

\* The newest row of the scheduler that is still recorded.
LatestScheduledFire(p) == {r \in records[p] : \A q \in records[p] : q.at <= r.at}

\* The first arm counts from the newest recorded fire.
Arm(t) ==
  LET p == tick[t].package
      s == tick[t].crons[p]
  IN /\ tick[t].pc = "anchor"
     /\ \E r \in LatestScheduledFire(p) :
          LET armed == [schedule |-> s, next |-> NextAfter(s, r.at)]
          IN entry' = [entry EXCEPT ![p] = armed] /\ Decide(t, p, armed, Detach(p))
     /\ refused' = refused \ {p}
     /\ UNCHANGED <<now, loaded, cron, rowVars, settled, raced>>

\* There is none, or the look-up failed: from now, and earlier occurrences are
\* given up.
ArmUnanchored(t) ==
  LET p == tick[t].package
      s == tick[t].crons[p]
      armed == [schedule |-> s, next |-> NextAfter(s, tick[t].now)]
  IN /\ tick[t].pc = "anchor"
     /\ records[p] = {} \/ Faults
     /\ entry' = [entry EXCEPT ![p] = armed]
     /\ Decide(t, p, armed, Detach(p))
     /\ Settle(p, tick[t].now)
     /\ refused' = refused \ {p}
     /\ UNCHANGED <<now, loaded, cron, rowVars>>

\* Variant: the next occurrence after the one that was due.
AdvanceFromDue(t) ==
  LET p == tick[t].package
  IN /\ entry' = IF tick[t].attached
                 THEN [entry EXCEPT ![p].next = NextAfter(tick[t].crons[p], entry[p].next)]
                 ELSE entry
     /\ tick' = [tick EXCEPT ![t] = [tick[t] EXCEPT !.pc = "sweep", !.fires = tick[t].fires + 1,
                                                    !.package = NoPackage, !.attached = FALSE]]

\* After the attempt, whatever came of it: the next occurrence after this sweep.
Advance(t) ==
  LET p == tick[t].package
  IN /\ entry' = IF tick[t].attached
                 THEN [entry EXCEPT ![p].next = NextAfter(tick[t].crons[p], tick[t].now)]
                 ELSE entry
     /\ tick' = [tick EXCEPT ![t] = [tick[t] EXCEPT !.pc = "sweep", !.fires = tick[t].fires + 1,
                                                    !.package = NoPackage, !.attached = FALSE]]

\* The state object of the map is armed past an occurrence that is accounted for.
Answered(t) == refused' = IF tick[t].attached THEN refused \ {tick[t].package} ELSE refused

\* createMaterialization records a run, tagged SCHEDULER.
FireCreates(t) ==
  LET p == tick[t].package
      row == [at |-> now, sweep |-> tick[t].now]
  IN /\ tick[t].pc = "fire"
     /\ p \in loaded
     /\ run[p].state = "none"
     /\ run' = [run EXCEPT ![p] = [state |-> "live", row |-> {row}]]
     /\ records' = [records EXCEPT ![p] = records[p] \cup {row}]
     /\ Settle(p, now)
     /\ Answered(t)
     /\ Advance(t)
     /\ UNCHANGED <<now, loaded, cron>>

\* Conflict with a run in progress, which covers the occurrence.
FireCoalesces(t) ==
  /\ tick[t].pc = "fire"
  /\ tick[t].package \in loaded
  /\ run[tick[t].package].state = "live"
  /\ Settle(tick[t].package, tick[t].now)
  /\ Answered(t)
  /\ Advance(t)
  /\ UNCHANGED <<now, loaded, cron, rowVars>>

\* The same conflict with a row that no task works on: nothing will be built.
FireRefused(t) ==
  /\ tick[t].pc = "fire"
  /\ tick[t].package \in loaded
  /\ run[tick[t].package].state = "dead"
  /\ refused' = IF tick[t].attached THEN refused \cup {tick[t].package} ELSE refused
  /\ Advance(t)
  /\ UNCHANGED <<now, loaded, cron, rowVars, settled, raced>>

\* Any other error, a package that is gone among them: the occurrence is given up,
\* the next one retries.
FireFails(t) ==
  /\ tick[t].pc = "fire"
  /\ tick[t].package \notin loaded \/ Faults
  /\ Settle(tick[t].package, tick[t].now)
  /\ Answered(t)
  /\ Advance(t)
  /\ UNCHANGED <<now, loaded, cron, rowVars>>

\* A package that is not followed here takes one of the fires of the sweep.
FiresAnother(t) ==
  /\ tick[t].pc = "sweep"
  /\ tick[t].fires < MaxFires
  /\ tick' = [tick EXCEPT ![t] = [tick[t] EXCEPT !.fires = tick[t].fires + 1]]
  /\ UNCHANGED <<now, loaded, cron, entry, rowVars, historyVars>>

\* State of packages the sweep did not see goes.
TickEnds(t) ==
  /\ tick[t].pc = "sweep"
  /\ tick[t].queue = {}
  /\ entry' = [p \in Packages |-> IF p \in tick[t].seen THEN entry[p] ELSE NoEntry]
  /\ tick' = [u \in Ticks |->
       CASE u = t -> NoTick
         [] u # t /\ tick[u].package \notin tick[t].seen -> [tick[u] EXCEPT !.attached = FALSE]
         [] OTHER -> tick[u]]
  /\ UNCHANGED <<now, loaded, cron, rowVars, historyVars>>

-----------------------------------------------------------------------------
(* The rest of the server *)

TimePasses ==
  /\ now < MaxTime
  /\ now' = now + 1
  /\ UNCHANGED <<loaded, cron, sweepVars, rowVars, historyVars>>

Load(p) ==
  /\ p \notin loaded
  /\ loaded' = loaded \cup {p}
  /\ cron' \in {[cron EXCEPT ![p] = s] : s \in Crons \cup {NoCron}}
  /\ UNCHANGED <<now, sweepVars, rowVars, historyVars>>

Unload(p) ==
  /\ p \in loaded
  /\ loaded' = loaded \ {p}
  /\ cron' = [cron EXCEPT ![p] = NoCron]
  /\ UNCHANGED <<now, sweepVars, rowVars, historyVars>>

\* A reload puts another Package in the map; updatePackage edits the one a sweep
\* may be about to read.
EditSchedule(p, s) ==
  /\ p \in loaded
  /\ cron[p] # s
  /\ cron' = [cron EXCEPT ![p] = s]
  /\ \/ UNCHANGED tick
     \/ tick' = [t \in Ticks |->
          IF p \in tick[t].queue THEN [tick[t] EXCEPT !.crons[p] = s] ELSE tick[t]]
  /\ UNCHANGED <<now, loaded, entry, rowVars, historyVars>>

RunOnDemand(p) ==
  /\ p \in loaded
  /\ run[p].state = "none"
  /\ run' = [run EXCEPT ![p] = [state |-> "live", row |-> {}]]
  /\ UNCHANGED <<now, loaded, cron, sweepVars, records, historyVars>>

RunEnds(p) ==
  /\ run[p].state = "live"
  /\ run' = [run EXCEPT ![p] = NoRun]
  /\ UNCHANGED <<now, loaded, cron, sweepVars, records, historyVars>>

\* The task fails, and so does the write of its failure: the row stays active.
RunIsLost(p) ==
  /\ Faults
  /\ run[p].state = "live"
  /\ run' = [run EXCEPT ![p] = [run[p] EXCEPT !.state = "dead"]]
  /\ UNCHANGED <<now, loaded, cron, sweepVars, records, historyVars>>

\* An operator stops a row that has no task.
StopLost(p) ==
  /\ run[p].state = "dead"
  /\ run' = [run EXCEPT ![p] = NoRun]
  /\ UNCHANGED <<now, loaded, cron, sweepVars, records, historyVars>>

\* A run that is over is deleted, the newest one or another.
DeleteRecord(p, r) ==
  /\ r \in records[p] \ run[p].row
  /\ records' = [records EXCEPT ![p] = records[p] \ {r}]
  /\ UNCHANGED <<now, loaded, cron, sweepVars, run, historyVars>>

\* The package is deleted, and with it every row; it may be loaded again by then.
PurgeRows(p) ==
  /\ records' = [records EXCEPT ![p] = {}]
  /\ run' = [run EXCEPT ![p] = NoRun]
  /\ UNCHANGED <<now, loaded, cron, sweepVars, historyVars>>

\* The process ends. Nothing recovers the rows its tasks worked on.
Restart ==
  /\ entry' = [p \in Packages |-> NoEntry]
  /\ tick' = [t \in Ticks |-> NoTick]
  /\ run' = [p \in Packages |->
       IF run[p].state = "live" THEN [run[p] EXCEPT !.state = "dead"] ELSE run[p]]
  /\ loaded' = {}
  /\ cron' = [p \in Packages |-> NoCron]
  /\ raced' = {}
  /\ UNCHANGED <<now, records, settled, refused>>

SchedulerNext ==
  \/ \E t \in Ticks :
       \/ TickStarts(t) \/ Arm(t) \/ ArmUnanchored(t) \/ TickEnds(t)
       \/ FireCreates(t) \/ FireCoalesces(t) \/ FireRefused(t) \/ FireFails(t)
       \/ FiresAnother(t)
       \/ \E p \in Packages :
            SweepSkips(t, p) \/ SweepArmed(t, p) \/ SweepRearms(t, p) \/ SweepLooksUp(t, p)
  \/ \E p \in Packages :
       \/ Load(p) \/ Unload(p) \/ RunOnDemand(p) \/ RunEnds(p) \/ RunIsLost(p) \/ StopLost(p)
       \/ PurgeRows(p)
       \/ \E s \in Crons \cup {NoCron} : EditSchedule(p, s)
       \/ \E r \in records[p] : DeleteRecord(p, r)
  \/ TimePasses
  \/ Restart

SchedulerSpec == SchedulerInit /\ [][SchedulerNext]_schedulerVars

-----------------------------------------------------------------------------
(* Properties *)

\* No occurrence is lost: an armed package is due no later than the first
\* occurrence after the last one that was built, covered by a run in progress or
\* given up, however often it was unloaded and pruned, capped, its runs deleted or
\* the process restarted (arm, recoveryAnchor and the advance after a fire agree
\* with the recorded runs). The exception is a fire that a row without a task
\* refused: its occurrence passes with nothing built.
NothingSkipped ==
  \A p \in Packages \ refused :
    entry[p] # NoEntry => entry[p].next <= NextAfter(entry[p].schedule, settled[p])

\* No occurrence is run twice: a sweep makes a run only when an occurrence of the
\* schedule lies after the sweep of every run still recorded, across restarts,
\* failures and deletions. The exception is a package that two sweeps of the
\* process owed at the same time.
OneRunPerOccurrence ==
  [][\A t \in Ticks :
       LET p == tick[t].package
           fires == tick[t].pc = "fire" /\ tick'[t].pc = "sweep" /\ run'[p] # run[p]
       IN fires /\ p \notin raced
          => \A r \in records[p] : NextAfter(tick[t].crons[p], r.sweep) <= tick[t].now]_schedulerVars
=============================================================================
