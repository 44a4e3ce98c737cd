---------------------------- MODULE MCJobTracker ----------------------------
(***************************************************************************)
(* Two jobs in a registry of one, so that a start trims, also a running    *)
(* job; a channel of one event, so that events are dropped.                *)
(***************************************************************************)
EXTENDS JobTracker
=============================================================================
