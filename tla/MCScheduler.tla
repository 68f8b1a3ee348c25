----------------------------- MODULE MCScheduler -----------------------------
(* Days of ten seconds with four ticks a second.                               *)
EXTENDS Scheduler
=============================================================================
