----------------------------- MODULE MCTriggerClock -----------------------------
(* A schedule that is due every three seconds, over some rounds.               *)
EXTENDS TriggerClock
===============================================================================
