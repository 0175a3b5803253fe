---------------------------- MODULE MCScheduleTimer ----------------------------
(* Handlers and callbacks in flight at a time, about one schedule.             *)
EXTENDS ScheduleTimer

CONSTANTS c1, c2, c3, s1

MCCalls == {c1, c2, c3}
MCSchedules == {s1}
===============================================================================
