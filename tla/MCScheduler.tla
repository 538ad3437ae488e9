---------------------------- MODULE MCScheduler ----------------------------
(* The scheduler with its real number of slots.                             *)
EXTENDS Scheduler
=============================================================================
