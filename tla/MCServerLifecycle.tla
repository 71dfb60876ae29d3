-------------------------- MODULE MCServerLifecycle --------------------------
(* Two queries that compete for a slot, one stream and one tool: every kind of    *)
(* request meets the shutdown, and the cap is off, reached and lifted.            *)
EXTENDS ServerLifecycle
=============================================================================
