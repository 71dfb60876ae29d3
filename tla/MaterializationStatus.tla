------------------------ MODULE MaterializationStatus ------------------------
(* The statuses a row of the `materializations` table goes through, shared by  *)
(* the abstract lifecycle and by the detailed model of the service.            *)

\* A row no INSERT has produced yet, and one a DELETE has removed: the two ways
\* for a run to have no row.
NoRow == {"unborn", "deleted"}

\* Non-terminal statuses: they count for the single-active guard.
ACTIVE_STATUSES == {"PENDING", "MANIFEST_ROWS_READY"}

TERMINAL_STATUSES == {"MANIFEST_FILE_READY", "FAILED", "CANCELLED"}

Statuses == NoRow \cup ACTIVE_STATUSES \cup TERMINAL_STATUSES

\* The statuses a row may move to from status s.
VALID_TRANSITIONS(s) ==
  CASE s = "PENDING" -> {"MANIFEST_ROWS_READY", "FAILED", "CANCELLED"}
    [] s = "MANIFEST_ROWS_READY" -> {"MANIFEST_FILE_READY", "FAILED", "CANCELLED"}
    [] OTHER -> {}
=============================================================================
