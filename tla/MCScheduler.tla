---------------------------- MODULE MCScheduler -----------------------------
(* Scheduler as it is: its seven features are those of the program.        *)
EXTENDS Scheduler
=============================================================================
