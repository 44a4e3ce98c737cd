---------------------------- MODULE MCUsageStore ----------------------------
(***************************************************************************)
(* Two requests over a channel of one event and batches of two, so that    *)
(* the channel overflows and a batch is flushed by the ticker, when it is  *)
(* full and at the end; two runs of the process over three days of a       *)
(* retention of one.  With the requests there is one save of the settings; *)
(* without them three, by two administrators: two that cross in either     *)
(* order and one after them.                                               *)
(***************************************************************************)
EXTENDS UsageStore

MCFlagDays == -1

MCLoads == {[requests |-> {"r1", "r2"}, puts |-> 1], [requests |-> {}, puts |-> 3]}
=============================================================================
