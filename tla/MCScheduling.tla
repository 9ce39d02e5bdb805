---------------------------- MODULE MCScheduling ----------------------------
(* Small instances of Scheduling: two schedulers, a claim lease shorter than *)
(* the interval between two slots, a run lease longer than both, as in the   *)
(* code (120, 300 and 3600 seconds).                                         *)
EXTENDS Scheduling
=============================================================================
