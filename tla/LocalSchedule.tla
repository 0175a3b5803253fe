----------------------------- MODULE LocalSchedule ------------------------------
(***************************************************************************)
(* The two schedule engines that read their schedules from a local file:   *)
(* LocalJsonScheduleEngine of the subprocess, which sets the next timer    *)
(* when a run is over ("repeating"), and the one of the same name of the   *)
(* standalone runner in subprocess/schedule, which keeps a history file    *)
(* and runs no schedule it has a record of ("once").  They share their     *)
(* timers; `engine` says which of the two a behaviour is about.            *)
(*                                                                         *)
(* A timer is known by its schedule and a number, and the run it begins by *)
(* the same.  Time is left out: a timer may fire at any moment (the delay  *)
(* counted from dueAt is in TriggerClock).                                 *)
(***************************************************************************)
EXTENDS Naturals

CONSTANTS
    Schedules,
    MaxCommands,  \* bound: calls of reload, stop, enable and disable
    MaxFires,     \* bound: timers that fire
    MaxStarts     \* bound: starts of the process

ASSUME LocalScheduleAssumption ==
    MaxCommands \in Nat /\ MaxFires \in Nat /\ MaxStarts \in Nat

NoTimer == 0

VARIABLES
    engine,    \* "repeating" or "once"
    service,   \* "off": no process, "loading": start or reload is under way, "on"
    jobs,      \* jobs: the timer of a schedule
    armed,     \* the timers that are set
    runs,      \* runs waiting for onTrigger
    status,    \* stateById: lastStatus
    made,      \* timers made so far
    history,   \* the history file: {S} records the schedules of S, {} cannot be read
    append,    \* appendHistory of a schedule: the await it is suspended at
    record,    \* the records it has read, with its own
    clash,     \* appends whose file another one has written since they emptied it
    commands, fires, starts   \* counted against the bounds

timers == <<jobs, armed, made>>
files == <<history, append, record, clash>>
counters == <<commands, fires, starts>>
vars == <<engine, service, timers, runs, status, files, counters>>

Init ==
    /\ engine \in {"repeating", "once"}
    /\ service = "loading"
    /\ jobs = [s \in Schedules |-> NoTimer]
    /\ armed = {} /\ runs = {} /\ made = 0
    /\ status = [s \in Schedules |-> "none"]
    /\ \E S \in SUBSET Schedules : history = {S}
    /\ append = [s \in Schedules |-> "none"]
    /\ record = [s \in Schedules |-> {}]
    /\ clash = {}
    /\ commands = 0 /\ fires = 0 /\ starts = 1

-------------------------------------------------------------------------------
(* Timers                                                                    *)

TimersOf(S) == {<<s, jobs[s]>> : s \in S}

\* Mutant of Register: the timer that is replaced is not cleared.
RegisterUncleared(S) ==
    /\ made' = made + 1
    /\ armed' = armed \cup {<<s, made + 1>> : s \in S}
    /\ jobs' = [s \in Schedules |-> IF s \in S THEN made + 1 ELSE jobs[s]]

\* register, for the schedules of S: each has a new timer, and an old one is cleared.
Register(S) ==
    /\ made' = made + 1
    /\ armed' = (armed \ TimersOf(S)) \cup {<<s, made + 1>> : s \in S}
    /\ jobs' = [s \in Schedules |-> IF s \in S THEN made + 1 ELSE jobs[s]]

ClearAll ==
    /\ armed' = armed \ TimersOf(Schedules)
    /\ jobs' = [s \in Schedules |-> NoTimer]
    /\ UNCHANGED made

Recorded == UNION history

\* Mutant of Executed: the history is not looked at.
ExecutedNever == {}

\* The schedules that are not registered because the history has a record of them.
Executed == IF engine = "once" THEN Recorded ELSE {}

\* The file of schedules is read: on are enabled in it, off are not, and unread is
\* the first whose cron expression throws, after which reload rejects.
Loaded(on, off, unread) ==
    /\ Register(on \ Executed)
    /\ status' = [s \in Schedules |->
                    CASE s \in unread -> "idle"
                      [] s \in on \cup off /\ s \in Executed -> "stopped"
                      [] s \in on \ Executed -> "scheduled"
                      [] s \in off \ Executed -> "disabled"
                      [] OTHER -> status[s]]

Load ==
    /\ service = "loading"
    /\ engine = "once" => history # {}
    /\ \E on, off \in SUBSET Schedules :
         /\ on \cap off = {}
         /\ \/ Loaded(on, off, {})
            \/ \E bad \in Schedules \ (on \cup off \cup Executed) : Loaded(on, off, {bad})
    /\ service' = "on"
    /\ UNCHANGED <<engine, runs, files, counters>>

\* One of the files cannot be read or parsed.
LoadFails ==
    /\ service = "loading"
    /\ service' = "on"
    /\ UNCHANGED <<engine, timers, runs, status, files, counters>>

Command == commands < MaxCommands /\ commands' = commands + 1

\* reload stops first.  It is not called again before it has returned.
Reload ==
    /\ engine = "repeating" /\ service = "on" /\ Command
    /\ ClearAll /\ service' = "loading"
    /\ UNCHANGED <<engine, runs, status, files, fires, starts>>

\* A load that is under way goes on, and registers what it has read.
Stop ==
    /\ service # "off" /\ Command
    /\ ClearAll
    /\ UNCHANGED <<engine, service, runs, status, files, fires, starts>>

\* Definitions are kept with the jobs: what was disabled is not found until a reload.
Found(s) == jobs[s] # NoTimer

Enable(s) ==
    /\ engine = "repeating" /\ service # "off" /\ Found(s) /\ Command
    /\ Register({s}) /\ status' = [status EXCEPT ![s] = "scheduled"]
    /\ UNCHANGED <<engine, service, runs, files, fires, starts>>

Disable(s) ==
    /\ engine = "repeating" /\ service # "off" /\ Command
    /\ armed' = armed \ TimersOf({s}) /\ jobs' = [jobs EXCEPT ![s] = NoTimer]
    /\ status' = [status EXCEPT ![s] = "disabled"]
    /\ UNCHANGED <<engine, service, made, runs, files, fires, starts>>

-------------------------------------------------------------------------------
(* runSchedule                                                               *)

\* The timer stays in jobs while its run is under way.
Fire(s, n) ==
    /\ <<s, n>> \in armed
    /\ fires < MaxFires /\ fires' = fires + 1
    /\ armed' = armed \ {<<s, n>>}
    /\ runs' = runs \cup {<<s, n>>}
    /\ status' = [status EXCEPT ![s] = "running"]
    /\ UNCHANGED <<engine, service, jobs, made, files, commands, starts>>

\* Mutant of Rearm: not when onTrigger failed.
RearmUnlessFailed(s) ==
    \/ Register({s}) /\ status' = [status EXCEPT ![s] = "scheduled"]
    \/ status' = [status EXCEPT ![s] = "failed"] /\ UNCHANGED timers

\* "completed" or "failed" and then, in the finally block, the next timer, whatever
\* has become of the schedule meanwhile.
Rearm(s) == Register({s}) /\ status' = [status EXCEPT ![s] = "scheduled"]

\* The schedule has no job any more, and its record is appended to the history.
Retire(s) ==
    /\ jobs' = [jobs EXCEPT ![s] = NoTimer]
    /\ status' = [status EXCEPT ![s] = "stopped"]
    /\ append' = [append EXCEPT ![s] = "read"]
    /\ UNCHANGED <<armed, made>>

\* onTrigger has returned or thrown.
RunEnds(s, n) ==
    /\ <<s, n>> \in runs
    /\ runs' = runs \ {<<s, n>>}
    /\ \/ engine = "repeating" /\ Rearm(s) /\ UNCHANGED append
       \/ engine = "once" /\ Retire(s)
    /\ UNCHANGED <<engine, service, history, record, clash, counters>>

-------------------------------------------------------------------------------
(* appendHistory: nothing keeps the appends of two schedules apart           *)

\* The process is gone, with all it knows.
Gone ==
    /\ service' = "off"
    /\ jobs' = [s \in Schedules |-> NoTimer] /\ armed' = {} /\ runs' = {}
    /\ status' = [s \in Schedules |-> "none"]
    /\ append' = [s \in Schedules |-> "none"]
    /\ record' = [s \in Schedules |-> {}] /\ clash' = {}

ReadHistory(s) ==
    /\ append[s] = "read" /\ history # {}
    /\ record' = [record EXCEPT ![s] = Recorded \cup {s}]
    /\ append' = [append EXCEPT ![s] = "open"]
    /\ UNCHANGED <<engine, service, timers, runs, status, history, clash, counters>>

\* What is left of the file does not parse: the rejection of the timer's callback is
\* not handled, and the process ends.
ReadTorn(s) ==
    /\ append[s] = "read" /\ history = {}
    /\ Gone
    /\ UNCHANGED <<engine, made, history, counters>>

\* writeFile empties the file ...
OpenHistory(s) ==
    /\ append[s] = "open"
    /\ history' = {}
    /\ append' = [append EXCEPT ![s] = "write"]
    /\ UNCHANGED <<engine, service, timers, runs, status, record, clash, counters>>

\* ... and fills it; over what another append has written meanwhile, the rest of
\* which may be left behind the end.
WriteHistory(s) ==
    /\ append[s] = "write"
    /\ \/ history' = {record[s]}
       \/ s \in clash /\ history' = {}
    /\ append' = [append EXCEPT ![s] = "none"]
    /\ record' = [record EXCEPT ![s] = {}]
    /\ clash' = (clash \cup {r \in Schedules : append[r] = "write"}) \ {s}
    /\ UNCHANGED <<engine, service, timers, runs, status, counters>>

-------------------------------------------------------------------------------

Crash ==
    /\ service # "off" /\ Gone
    /\ UNCHANGED <<engine, made, history, counters>>

Start ==
    /\ service = "off" /\ starts < MaxStarts /\ starts' = starts + 1
    /\ service' = "loading"
    /\ UNCHANGED <<engine, timers, runs, status, files, commands, fires>>

AppendHistory(s) == ReadHistory(s) \/ ReadTorn(s) \/ OpenHistory(s) \/ WriteHistory(s)

Next ==
    \/ Load \/ LoadFails \/ Reload \/ Stop \/ Crash \/ Start
    \/ \E s \in Schedules : Enable(s) \/ Disable(s) \/ AppendHistory(s)
    \/ \E a \in armed : Fire(a[1], a[2])
    \/ \E a \in runs : RunEnds(a[1], a[2])

Spec == Init /\ [][Next]_vars

\* onTrigger answers (its tool calls time out), and so does the file system.
Fairness ==
    \A s \in Schedules :
        /\ WF_vars(AppendHistory(s))
        /\ WF_vars(\E a \in runs : a[1] = s /\ RunEnds(s, a[2]))
FairSpec == Spec /\ Fairness
-------------------------------------------------------------------------------
(* Properties                                                                *)

\* What the engine says of a schedule is so, however commands, loads and runs that
\* overlap follow each other: a timer that is set is the one the job names, so that
\* it can be cleared; a job said to be scheduled has its timer set; and what is said
\* to be running runs.
StateIsTrue ==
    /\ \A a \in armed : jobs[a[1]] = a[2]
    /\ \A s \in Schedules :
         /\ jobs[s] # NoTimer /\ status[s] = "scheduled" => <<s, jobs[s]>> \in armed
         /\ status[s] = "running" => \E a \in runs : a[1] = s

\* A schedule the history has a record of is neither scheduled nor run again by the
\* standalone engine, in this life of the process or a later one, whatever crashes
\* and overlapping appends made of the file.
RecordedIsOver ==
    engine = "once" => \A a \in armed \cup runs : a[1] \notin Recorded

\* A run is followed up, whatever is called meanwhile and however it ends: its
\* schedule is scheduled again, or else recorded, unless the process ends or two
\* appends have spoilt the history.
RunIsFollowedUp ==
    \A s \in Schedules, n \in 1 .. MaxCommands + MaxFires + MaxStarts :
        <<s, n>> \in runs ~>
            \/ service = "off"
            \/ engine = "repeating" /\ \E a \in armed : a[1] = s /\ a[2] > n
            \/ engine = "once" /\ append[s] = "none" /\ (s \in Recorded \/ history = {})
===============================================================================
