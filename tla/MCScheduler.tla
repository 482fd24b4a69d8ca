---------------------------- MODULE MCScheduler -----------------------------
(* Two service threads, as the comments of SerialTaskRunner ask for. *)
EXTENDS Scheduler

CONSTANTS s1, s2, c1, c2
=============================================================================
