---------------------------- MODULE MCSchedulePopup ----------------------------
(* Two calls in flight at a time, and two items of one schedule.               *)
EXTENDS SchedulePopup

CONSTANTS c1, c2, s1

MCCalls == {c1, c2}
MCSchedules == {s1}
MCScheduleOf == [i \in Items |-> s1]
MCRequestedAt == [i \in Items |-> i]
===============================================================================
