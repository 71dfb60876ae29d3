---------------------- MODULE MaterializationLifecycle ----------------------
(* What the materialization API promises about the history of a package, with  *)
(* none of the machinery that delivers it: one run at a time per package, each *)
(* run settling exactly once, and a record removed only when it has settled or *)
(* when the whole package goes.                                                *)
EXTENDS MaterializationStatus

CONSTANTS
  Runs,      \* materialization ids
  Packages,  \* packages of one environment
  NoPackage  \* the owner of a run that has no row yet

VARIABLES
  status,    \* status of each run's row
  owner      \* the package each run belongs to

vars == <<status, owner>>

TypeOK ==
  /\ status \in [Runs -> Statuses]
  /\ owner \in [Runs -> Packages \cup {NoPackage}]

Init ==
  /\ status = [r \in Runs |-> "unborn"]
  /\ owner = [r \in Runs |-> NoPackage]

IsActive(r) == status[r] \in ACTIVE_STATUSES

\* A package with an active run takes no other (HTTP 409).
Open(r, p) ==
  /\ status[r] = "unborn"
  /\ \A q \in Runs : owner[q] = p => ~IsActive(q)
  /\ status' = [status EXCEPT ![r] = "PENDING"]
  /\ owner' = [owner EXCEPT ![r] = p]

\* A run moves along VALID_TRANSITIONS, so it settles once.
Advance(r) ==
  /\ \E s \in VALID_TRANSITIONS(status[r]) : status' = [status EXCEPT ![r] = s]
  /\ UNCHANGED owner

\* Only a settled record can be deleted.
Discard(r) ==
  /\ status[r] \in TERMINAL_STATUSES
  /\ status' = [status EXCEPT ![r] = "deleted"]
  /\ UNCHANGED owner

\* Deleting a package takes its whole history, active run included.
Purge(p) ==
  /\ status' = [r \in Runs |-> IF owner[r] = p THEN "deleted" ELSE status[r]]
  /\ UNCHANGED owner

Next ==
  \/ \E r \in Runs, p \in Packages : Open(r, p)
  \/ \E r \in Runs : Advance(r) \/ Discard(r)
  \/ \E p \in Packages : Purge(p)

Spec == Init /\ [][Next]_vars
=============================================================================
