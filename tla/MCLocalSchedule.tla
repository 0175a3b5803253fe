---------------------------- MODULE MCLocalSchedule -----------------------------
(* Two schedules, whose runs and appends overlap, in two lives of the process. *)
EXTENDS LocalSchedule

CONSTANTS s1, s2

MCSchedules == {s1, s2}
===============================================================================
