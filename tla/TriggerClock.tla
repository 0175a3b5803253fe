------------------------------ MODULE TriggerClock ------------------------------
(***************************************************************************)
(* The times at which ScheduleTimerService fires: register, its timer and  *)
(* the callback that registers the next one, for one schedule whose cron   *)
(* expression matches every multiple of Period.  Time is in seconds; the   *)
(* order of events and the stored state are modelled in ScheduleTimer.     *)
(***************************************************************************)
EXTENDS Integers, Sequences, SequencesExt

CONSTANTS
    Period,       \* seconds between two matches of the cron expression
    MaxTimeout,   \* the longest delay setTimeout keeps, 2^31 - 1 ms
    Latency,      \* bound: a callback begins, and onDue ends, this late at most
    Horizon,      \* bound: seconds that pass
    MaxRequests   \* bound: registrations and removals from outside

ASSUME TriggerClockAssumption ==
    /\ Period \in Nat \ {0} /\ MaxTimeout \in Nat /\ Latency \in Nat
    /\ Horizon \in Nat /\ MaxRequests \in Nat

VARIABLES
    now,       \* the clock
    job,       \* the registered job of the schedule
    due,       \* the calls of onDue: for which time, when, after how many rounds
    requests   \* registrations and removals so far

clockVars == <<now, job, due, requests>>

\* round counts the callbacks since the job was registered from outside; by is
\* when its timer has fired, or its callback is over, at the latest.
NoJob == [nominal |-> 0, fireAt |-> 0, by |-> 0, round |-> 0, state |-> "none"]

\* interval.next(): the first match after a time.
NextMatch(t) == (t \div Period + 1) * Period

\* A delay that does not fit is taken for one millisecond.
Timeout(delay) == IF delay > MaxTimeout THEN 0 ELSE delay

ClockInit ==
    /\ now \in 1 .. Period
    /\ job = NoJob
    /\ due = <<>>
    /\ requests = 0

\* register: the delay is counted from currentDate and kept from now on.
Set(currentDate, round) ==
    LET nominal == NextMatch(currentDate)
        fireAt == now + Timeout(nominal - currentDate)
    IN job' = [ nominal |-> nominal, fireAt |-> fireAt, by |-> fireAt + Latency,
                round |-> round, state |-> "armed" ]

\* Enabled in the window, or restored when the process starts.
RegisterOutside ==
    /\ requests < MaxRequests /\ requests' = requests + 1
    /\ Set(now, 0)
    /\ UNCHANGED <<now, due>>

\* Disabled in the window, stopped, or the process ends.  A callback that is
\* waiting for onDue finds that the job is not its own and does nothing.
Unregister ==
    /\ requests < MaxRequests /\ requests' = requests + 1
    /\ job.state # "none"
    /\ job' = NoJob
    /\ UNCHANGED <<now, due>>

TimerFires ==
    /\ job.state = "armed" /\ now >= job.fireAt
    /\ job' = [job EXCEPT !.state = "fired", !.by = now + Latency]
    /\ due' = Append(due, [nominal |-> job.nominal, at |-> now, round |-> job.round])
    /\ UNCHANGED <<now, requests>>

\* Mutant of RegisterNext: two seconds after the nominal time.
RegisterNextTwo ==
    /\ job.state = "fired"
    /\ Set(job.nominal + 2, job.round + 1)
    /\ UNCHANGED <<now, due, requests>>

\* Mutant of RegisterNext: from the time it is.
RegisterNextFromNow ==
    /\ job.state = "fired"
    /\ Set(now, job.round + 1)
    /\ UNCHANGED <<now, due, requests>>

\* onDue is over: the callback registers the next time, counted from one second
\* after the nominal one.
RegisterNext ==
    /\ job.state = "fired"
    /\ Set(job.nominal + 1, job.round + 1)
    /\ UNCHANGED <<now, due, requests>>

Tick ==
    /\ now < Horizon
    /\ job.state # "none" => now < job.by
    /\ now' = now + 1
    /\ UNCHANGED <<job, due, requests>>

ClockNext == RegisterOutside \/ Unregister \/ TimerFires \/ RegisterNext \/ Tick

ClockSpec == ClockInit /\ [][ClockNext]_clockVars

-------------------------------------------------------------------------------
(* Properties                                                                *)

\* Every round moves the due time against the nominal one: a second early when
\* nothing takes time, and by what the callback took, less that second, at most.
\* The deviation is never made up for, and it grows with the rounds only.
DriftIsBounded ==
    \A i \in DOMAIN due :
        /\ due[i].at - due[i].nominal >= -due[i].round
        /\ due[i].at - due[i].nominal <= Latency + due[i].round * (2 * Latency - 1)

\* No match is left out from one round to the next, however late the callback was.
NoneIsSkipped ==
    \A i \in 1 .. Len(due) - 1 :
        due[i + 1].round = due[i].round + 1 => due[i + 1].nominal = due[i].nominal + Period
===============================================================================
