------------------------- MODULE MCScheduleExecution -------------------------
(* Two schedules, the second perhaps not configured; the later item may be    *)
(* due earlier than the first (a trigger with a requestedAt of its own).      *)
EXTENDS ScheduleExecution

CONSTANTS c1, c2, s1, s2

MCCalls == {c1, c2}
MCSchedules == {s1, s2}
MCScheduleOf == [i \in Items |-> IF i = 2 THEN s2 ELSE s1]
MCRequestedAt == [i \in Items |-> IF i = 1 THEN 2 ELSE 1]
===============================================================================
