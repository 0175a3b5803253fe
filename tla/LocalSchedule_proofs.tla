-------------------------- MODULE LocalSchedule_proofs --------------------------
(***************************************************************************)
(* Proofs about the local schedule engines, for any schedules, commands,   *)
(* runs and starts: what an engine says of a schedule is so, and no        *)
(* schedule that the history records is set or run by the standalone one.  *)
(***************************************************************************)
EXTENDS LocalSchedule, TLAPS

LocalTypeOK ==
    /\ engine \in {"repeating", "once"}
    /\ service \in {"off", "loading", "on"}
    /\ jobs \in [Schedules -> Nat]
    /\ made \in Nat
    /\ armed \subseteq Schedules \X Nat
    /\ runs \subseteq Schedules \X Nat
    /\ status \in [Schedules -> {"none", "idle", "disabled", "scheduled", "running",
                                 "stopped"}]
    /\ history \in SUBSET SUBSET Schedules
    /\ append \in [Schedules -> {"none", "read", "open", "write"}]
    /\ record \in [Schedules -> SUBSET Schedules]

ArmedAreJobs == \A a \in armed : jobs[a[1]] = a[2]

\* s has neither a timer nor a run.
Idle(s) == \A a \in armed \cup runs : a[1] # s

\* The standalone engine registers schedules once in a life, when it has loaded
\* them.  A schedule is then set, or it has one run, or it is idle for good, as it is
\* from its record on.
OnceInv ==
    engine = "once" =>
        /\ service # "on" =>
              armed = {} /\ runs = {} /\ \A s \in Schedules : append[s] = "none" /\ record[s] = {}
        /\ \A a \in armed, b \in runs : a[1] # b[1]
        /\ \A a, b \in runs : a[1] = b[1] => a = b
        /\ \A s \in Schedules : append[s] # "none" => Idle(s)
        /\ \A s \in Schedules : \A r \in record[s] : Idle(r)

LocalInv == LocalTypeOK /\ StateIsTrue /\ OnceInv /\ RecordedIsOver

-------------------------------------------------------------------------------
(* Timers                                                                    *)

\* Registering replaces the timers of its schedules by new ones and leaves the
\* others alone.
LEMMA Registering ==
    ASSUME LocalTypeOK, ArmedAreJobs, NEW S \in SUBSET Schedules, Register(S)
    PROVE  /\ made' \in Nat /\ jobs' \in [Schedules -> Nat]
           /\ armed' \subseteq Schedules \X Nat
           /\ ArmedAreJobs'
           /\ \A s \in S : jobs'[s] # NoTimer /\ <<s, jobs'[s]>> \in armed'
           /\ \A s \in Schedules \ S :
                 /\ jobs'[s] = jobs[s]
                 /\ <<s, jobs[s]>> \in armed => <<s, jobs[s]>> \in armed'
           /\ \A a \in armed' : a \in armed \/ a[1] \in S
<1> USE DEF LocalTypeOK, Register, TimersOf
<1>1. made' \in Nat /\ made + 1 # NoTimer
  BY DEF NoTimer
<1>2. jobs' \in [Schedules -> Nat] /\ \A s \in Schedules :
          jobs'[s] = IF s \in S THEN made + 1 ELSE jobs[s]
  BY <1>1
<1>3. armed' \subseteq Schedules \X Nat /\ \A a \in armed' : a \in armed \/ a[1] \in S
  BY <1>1
<1>4. ASSUME NEW a \in armed' PROVE jobs'[a[1]] = a[2]
  <2>1. CASE a \in armed /\ a \notin TimersOf(S)
    <3>1. a \in Schedules \X Nat /\ a = <<a[1], a[2]>> /\ jobs[a[1]] = a[2]
      BY <2>1 DEF ArmedAreJobs
    <3>2. a[1] \notin S
      BY <2>1, <3>1
    <3> QED
      BY <1>2, <3>1, <3>2
  <2>2. CASE a \in {<<s, made + 1>> : s \in S}
    BY <2>2, <1>2
  <2> QED
    BY <2>1, <2>2
<1>5. \A s \in S : jobs'[s] # NoTimer /\ <<s, jobs'[s]>> \in armed'
  BY <1>1, <1>2
<1>6. ASSUME NEW s \in Schedules \ S
      PROVE  jobs'[s] = jobs[s] /\ (<<s, jobs[s]>> \in armed => <<s, jobs[s]>> \in armed')
  BY <1>2
<1> QED
  BY <1>1, <1>2, <1>3, <1>4, <1>5, <1>6 DEF ArmedAreJobs

\* Clearing all jobs leaves no timer.
LEMMA Clearing ==
    ASSUME LocalTypeOK, ArmedAreJobs, ClearAll
    PROVE  /\ armed' = {} /\ made' = made
           /\ jobs' \in [Schedules -> Nat] /\ \A s \in Schedules : jobs'[s] = NoTimer
<1>1. ASSUME NEW a \in armed PROVE a \in TimersOf(Schedules)
  BY DEF LocalTypeOK, ArmedAreJobs, TimersOf
<1> QED
  BY <1>1 DEF ClearAll, LocalTypeOK, NoTimer

-------------------------------------------------------------------------------
(* Steps                                                                     *)

LEMMA InitHolds == Init => LocalInv
  BY DEF Init, LocalInv, LocalTypeOK, StateIsTrue, OnceInv, RecordedIsOver, NoTimer

LEMMA LoadKeeps == LocalInv /\ Load => LocalInv'
<1> SUFFICES ASSUME LocalInv, Load PROVE LocalInv'
  OBVIOUS
<1>1. LocalTypeOK /\ ArmedAreJobs
  BY DEF LocalInv, StateIsTrue, ArmedAreJobs
<1>2. PICK on \in SUBSET Schedules, off \in SUBSET Schedules, unread \in SUBSET Schedules :
          /\ unread \cap (on \cup off \cup Executed) = {}
          /\ Loaded(on, off, unread)
  BY DEF Load
<1> DEFINE S == on \ Executed
<1>3. S \in SUBSET Schedules /\ Register(S)
  BY <1>2 DEF Loaded
<1>4. \A s \in Schedules :
          /\ status'[s] = "scheduled" => s \in S \/ (status[s] = "scheduled" /\ s \notin S)
          /\ status'[s] = "running" => status[s] = "running"
  BY <1>1, <1>2 DEF Loaded, LocalTypeOK
<1>5. LocalTypeOK'
  BY <1>1, <1>2, <1>3, Registering DEF Loaded, Load, LocalTypeOK, files, counters
<1>6. StateIsTrue'
  BY <1>1, <1>3, <1>4, Registering DEF Load, LocalInv, StateIsTrue, ArmedAreJobs
<1>7. ASSUME engine = "once" PROVE OnceInv' /\ RecordedIsOver'
  <2>1. armed = {} /\ runs = {} /\ \A s \in Schedules : append[s] = "none" /\ record[s] = {}
    BY <1>7 DEF Load, LocalInv, OnceInv
  <2>2. \A a \in armed' : a[1] \in S
    BY <1>1, <1>3, <2>1, Registering
  <2>3. runs' = {} /\ append' = append /\ record' = record /\ history' = history
    BY <2>1 DEF Load, files
  <2>4. S \cap Recorded = {}
    BY <1>7 DEF Executed
  <2> QED
    BY <1>1, <2>1, <2>2, <2>3, <2>4 DEF OnceInv, RecordedIsOver, Recorded, Idle, Load
<1>8. engine' = engine
  BY DEF Load
<1> QED
  BY <1>5, <1>6, <1>7, <1>8 DEF LocalInv, OnceInv, RecordedIsOver

LEMMA StopKeeps == LocalInv /\ (Stop \/ Reload) => LocalInv'
<1> SUFFICES ASSUME LocalInv, Stop \/ Reload PROVE LocalInv'
  OBVIOUS
<1>1. LocalTypeOK /\ ArmedAreJobs
  BY DEF LocalInv, StateIsTrue, ArmedAreJobs
<1>2. /\ armed' = {} /\ made' = made
      /\ jobs' \in [Schedules -> Nat] /\ \A s \in Schedules : jobs'[s] = NoTimer
  BY <1>1, Clearing DEF Stop, Reload
<1>3. /\ UNCHANGED <<engine, runs, status, history, append, record>>
      /\ service' \in {"off", "loading", "on"} /\ (engine = "once" => service' = service)
  BY <1>1 DEF Stop, Reload, files, LocalTypeOK
<1>4. LocalTypeOK'
  BY <1>1, <1>2, <1>3 DEF LocalTypeOK
<1> QED
  BY <1>2, <1>3, <1>4 DEF LocalInv, StateIsTrue, OnceInv, RecordedIsOver, Recorded, Idle

LEMMA EnableKeeps == \A s \in Schedules : LocalInv /\ Enable(s) => LocalInv'
<1> SUFFICES ASSUME LocalInv, NEW s \in Schedules, Enable(s) PROVE LocalInv'
  OBVIOUS
<1>1. LocalTypeOK /\ ArmedAreJobs
  BY DEF LocalInv, StateIsTrue, ArmedAreJobs
<1>2. Register({s}) /\ {s} \in SUBSET Schedules
  BY DEF Enable
<1>3. LocalTypeOK'
  BY <1>1, <1>2, Registering DEF Enable, LocalTypeOK, files
<1>4. StateIsTrue'
  BY <1>1, <1>2, Registering DEF Enable, LocalInv, StateIsTrue, ArmedAreJobs, LocalTypeOK
<1> QED
  BY <1>3, <1>4 DEF LocalInv, OnceInv, RecordedIsOver, Enable

LEMMA DisableKeeps == \A s \in Schedules : LocalInv /\ Disable(s) => LocalInv'
<1> SUFFICES ASSUME LocalInv, NEW s \in Schedules, Disable(s) PROVE LocalInv'
  OBVIOUS
<1>1. LocalTypeOK'
  BY DEF LocalInv, LocalTypeOK, Disable, files, NoTimer
<1>2. StateIsTrue'
  <2>1. ASSUME NEW a \in armed' PROVE jobs'[a[1]] = a[2]
    <3>1. a \in armed /\ a = <<a[1], a[2]>> /\ a[1] \in Schedules /\ jobs[a[1]] = a[2]
      BY DEF Disable, LocalInv, LocalTypeOK, StateIsTrue
    <3>2. a[1] # s
      BY <3>1 DEF Disable, TimersOf
    <3> QED
      BY <3>1, <3>2 DEF Disable, LocalInv, LocalTypeOK
  <2>2. ASSUME NEW r \in Schedules
        PROVE  /\ jobs'[r] # NoTimer /\ status'[r] = "scheduled" => <<r, jobs'[r]>> \in armed'
               /\ status'[r] = "running" => \E a \in runs' : a[1] = r
    BY DEF Disable, TimersOf, LocalInv, LocalTypeOK, StateIsTrue
  <2> QED
    BY <2>1, <2>2 DEF StateIsTrue
<1> QED
  BY <1>1, <1>2 DEF LocalInv, OnceInv, RecordedIsOver, Disable

LEMMA FireKeeps == \A a \in armed : LocalInv /\ Fire(a[1], a[2]) => LocalInv'
<1> SUFFICES ASSUME LocalInv, NEW a \in armed, Fire(a[1], a[2]) PROVE LocalInv'
  OBVIOUS
<1>1. a \in Schedules \X Nat /\ a = <<a[1], a[2]>> /\ a[1] \in Schedules
  BY DEF LocalInv, LocalTypeOK
<1>2. armed' = armed \ {a} /\ runs' = runs \cup {a}
  BY <1>1 DEF Fire
<1>3. LocalTypeOK'
  BY <1>1, <1>2 DEF Fire, LocalInv, LocalTypeOK, files
<1>4. StateIsTrue'
  <2>1. \A b \in armed' : jobs'[b[1]] = b[2]
    BY <1>2 DEF Fire, LocalInv, StateIsTrue
  <2>2. ASSUME NEW r \in Schedules
        PROVE  /\ jobs'[r] # NoTimer /\ status'[r] = "scheduled" => <<r, jobs'[r]>> \in armed'
               /\ status'[r] = "running" => \E b \in runs' : b[1] = r
    BY <1>1, <1>2 DEF Fire, LocalInv, LocalTypeOK, StateIsTrue
  <2> QED
    BY <2>1, <2>2 DEF StateIsTrue
<1>5. ASSUME engine = "once" PROVE OnceInv' /\ RecordedIsOver'
  <2>1. armed' \cup runs' = armed \cup runs
    BY <1>2
  <2>2. service = "on" /\ service' = service
    BY <1>5 DEF Fire, LocalInv, OnceInv
  <2>3. \A b \in armed' : b[1] # a[1]
    <3> SUFFICES ASSUME NEW b \in armed, b[1] = a[1] PROVE b = a
      BY <1>2
    <3> QED
      BY <1>1 DEF LocalInv, LocalTypeOK, StateIsTrue
  <2>4. \A b \in runs : b[1] # a[1]
    BY <1>5 DEF LocalInv, OnceInv
  <2>5. OnceInv'
    BY <1>2, <1>5, <2>1, <2>2, <2>3, <2>4 DEF LocalInv, OnceInv, Idle, Fire, files
  <2>6. RecordedIsOver'
    BY <1>5, <2>1 DEF LocalInv, RecordedIsOver, Recorded, Fire, files
  <2> QED
    BY <2>5, <2>6
<1> QED
  BY <1>3, <1>4, <1>5 DEF LocalInv, OnceInv, RecordedIsOver, Fire

LEMMA RunEndsKeeps == \A a \in runs : LocalInv /\ RunEnds(a[1], a[2]) => LocalInv'
<1> SUFFICES ASSUME LocalInv, NEW a \in runs, RunEnds(a[1], a[2]) PROVE LocalInv'
  OBVIOUS
<1>1. a \in Schedules \X Nat /\ a = <<a[1], a[2]>> /\ a[1] \in Schedules
  BY DEF LocalInv, LocalTypeOK
<1>2. runs' = runs \ {a} /\ LocalTypeOK /\ ArmedAreJobs
  BY <1>1 DEF RunEnds, LocalInv, StateIsTrue, ArmedAreJobs
<1>3. UNCHANGED <<engine, service, history, record>>
  BY DEF RunEnds
<1>4. CASE engine = "repeating" /\ Rearm(a[1]) /\ UNCHANGED append
  <2>1. Register({a[1]}) /\ {a[1]} \in SUBSET Schedules
    BY <1>1, <1>4 DEF Rearm
  <2>2. status' = [status EXCEPT ![a[1]] = "scheduled"]
    BY <1>4 DEF Rearm
  <2>3. LocalTypeOK'
    BY <1>2, <1>3, <1>4, <2>1, <2>2, Registering DEF LocalTypeOK
  <2>4. StateIsTrue'
    <3>1. ASSUME NEW r \in Schedules
          PROVE  /\ jobs'[r] # NoTimer /\ status'[r] = "scheduled" => <<r, jobs'[r]>> \in armed'
                 /\ status'[r] = "running" => \E b \in runs' : b[1] = r
      <4>1. CASE r = a[1]
        BY <1>2, <2>1, <2>2, <4>1, Registering DEF LocalTypeOK
      <4>2. CASE r # a[1]
        BY <1>2, <2>1, <2>2, <4>2, Registering DEF LocalTypeOK, LocalInv, StateIsTrue
      <4> QED
        BY <4>1, <4>2
    <3> QED
      BY <1>2, <2>1, <3>1, Registering DEF StateIsTrue, ArmedAreJobs
  <2> QED
    BY <1>3, <1>4, <2>3, <2>4 DEF LocalInv, OnceInv, RecordedIsOver
<1>5. CASE engine = "once" /\ Retire(a[1])
  <2>1. LocalTypeOK'
    BY <1>1, <1>2, <1>3, <1>5 DEF LocalTypeOK, Retire, NoTimer
  <2>2. \A b \in armed : b[1] # a[1]
    BY <1>5 DEF LocalInv, OnceInv
  <2>3. \A b \in runs' : b[1] # a[1]
    BY <1>2, <1>5 DEF LocalInv, OnceInv
  <2>4. StateIsTrue'
    <3>1. \A b \in armed' : jobs'[b[1]] = b[2]
      BY <1>2, <1>5, <2>2 DEF Retire, LocalTypeOK, ArmedAreJobs
    <3>2. ASSUME NEW r \in Schedules
          PROVE  /\ jobs'[r] # NoTimer /\ status'[r] = "scheduled" => <<r, jobs'[r]>> \in armed'
                 /\ status'[r] = "running" => \E b \in runs' : b[1] = r
      BY <1>1, <1>2, <1>5 DEF Retire, LocalTypeOK, LocalInv, StateIsTrue
    <3> QED
      BY <3>1, <3>2 DEF StateIsTrue
  <2>5. armed' = armed /\ append' = [append EXCEPT ![a[1]] = "read"]
    BY <1>5 DEF Retire
  <2>6. service = "on"
    BY <1>5 DEF LocalInv, OnceInv
  <2>7. OnceInv'
    <3>1. ASSUME NEW s \in Schedules, append'[s] # "none" PROVE Idle(s)'
      BY <1>2, <1>5, <2>2, <2>3, <2>5, <3>1 DEF LocalInv, OnceInv, Idle, LocalTypeOK
    <3> QED
      BY <1>2, <1>3, <1>5, <2>5, <2>6, <3>1 DEF LocalInv, OnceInv, Idle
  <2>8. RecordedIsOver'
    BY <1>2, <1>3, <2>5 DEF LocalInv, RecordedIsOver, Recorded
  <2> QED
    BY <2>1, <2>4, <2>7, <2>8 DEF LocalInv
<1> QED
  BY <1>4, <1>5 DEF RunEnds

\* A process that is gone has no timers, runs or appends.
LEMMA GoneKeeps ==
    ASSUME LocalInv, Gone, UNCHANGED <<engine, made, history>>
    PROVE  LocalInv'
  BY DEF LocalInv, LocalTypeOK, StateIsTrue, OnceInv, RecordedIsOver, Gone, NoTimer, Idle

LEMMA AppendKeeps == \A s \in Schedules : LocalInv /\ AppendHistory(s) => LocalInv'
<1> SUFFICES ASSUME LocalInv, NEW s \in Schedules, AppendHistory(s) PROVE LocalInv'
  OBVIOUS
<1>1. CASE ReadTorn(s)
  BY <1>1, GoneKeeps DEF ReadTorn
<1>2. CASE ReadHistory(s) \/ OpenHistory(s) \/ WriteHistory(s)
  <2>1. UNCHANGED <<engine, service, jobs, armed, made, runs, status>>
    BY <1>2 DEF ReadHistory, OpenHistory, WriteHistory, timers
  <2>2. StateIsTrue'
    BY <2>1 DEF LocalInv, StateIsTrue
  <2>3. LocalTypeOK'
    <3>1. append' \in [Schedules -> {"none", "read", "open", "write"}]
      BY <1>2 DEF ReadHistory, OpenHistory, WriteHistory, LocalInv, LocalTypeOK
    <3>2. record' \in [Schedules -> SUBSET Schedules] /\ history' \in SUBSET SUBSET Schedules
      BY <1>2 DEF ReadHistory, OpenHistory, WriteHistory, LocalInv, LocalTypeOK, Recorded
    <3> QED
      BY <2>1, <3>1, <3>2 DEF LocalInv, LocalTypeOK
  <2>4. ASSUME engine = "once" PROVE OnceInv' /\ RecordedIsOver'
    <3>1. append[s] # "none" /\ Idle(s) /\ service = "on"
      BY <1>2, <2>4 DEF ReadHistory, OpenHistory, WriteHistory, LocalInv, OnceInv
    <3>2. \A r \in Schedules : append'[r] # "none" => append[r] # "none"
      BY <1>2, <3>1 DEF ReadHistory, OpenHistory, WriteHistory, LocalInv, LocalTypeOK
    <3>3. \A r \in Recorded : Idle(r)
      BY <2>4 DEF LocalInv, RecordedIsOver, Idle
    <3>4. \A r \in Schedules : \A x \in record'[r] : x \in record[r] \cup Recorded \cup {s}
      BY <1>2 DEF ReadHistory, OpenHistory, WriteHistory, LocalInv, LocalTypeOK
    <3>5. Recorded' \subseteq Recorded \cup record[s]
      BY <1>2 DEF ReadHistory, OpenHistory, WriteHistory, Recorded
    <3>6. \A r : Idle(r)' = Idle(r)
      BY <2>1 DEF Idle
    <3>7. OnceInv'
      BY <2>1, <2>4, <3>1, <3>2, <3>3, <3>4, <3>6 DEF LocalInv, OnceInv
    <3>8. \A r \in record[s] : Idle(r)
      BY <2>4 DEF LocalInv, OnceInv
    <3>9. RecordedIsOver'
      BY <2>1, <3>3, <3>5, <3>8 DEF RecordedIsOver, Idle
    <3> QED
      BY <3>7, <3>9
  <2> QED
    BY <2>1, <2>2, <2>3, <2>4 DEF LocalInv, OnceInv, RecordedIsOver
<1> QED
  BY <1>1, <1>2 DEF AppendHistory

LEMMA OthersKeep == LocalInv /\ (LoadFails \/ Crash \/ Start) => LocalInv'
<1> SUFFICES ASSUME LocalInv, LoadFails \/ Crash \/ Start PROVE LocalInv'
  OBVIOUS
<1>1. CASE Crash
  BY <1>1, GoneKeeps DEF Crash
<1>2. CASE LoadFails \/ Start
  <2>1. /\ UNCHANGED <<engine, jobs, armed, made, runs, status, history, append, record>>
        /\ service' \in {"loading", "on"} /\ service # "on"
    BY <1>2 DEF LoadFails, Start, timers, files
  <2> QED
    BY <2>1 DEF LocalInv, LocalTypeOK, StateIsTrue, OnceInv, RecordedIsOver, Recorded, Idle
<1> QED
  BY <1>1, <1>2

-------------------------------------------------------------------------------

LEMMA LocalInductive == Spec => []LocalInv
<1>1. LocalInv /\ [Next]_vars => LocalInv'
  <2> SUFFICES ASSUME LocalInv, [Next]_vars PROVE LocalInv'
    OBVIOUS
  <2>1. CASE UNCHANGED vars
    BY <2>1 DEF vars, timers, files, LocalInv, LocalTypeOK, StateIsTrue, OnceInv,
                RecordedIsOver, Recorded, Idle
  <2>2. CASE Next
    BY <2>2, LoadKeeps, StopKeeps, EnableKeeps, DisableKeeps, FireKeeps, RunEndsKeeps,
       AppendKeeps, OthersKeep DEF Next
  <2> QED
    BY <2>1, <2>2
<1> QED
  BY <1>1, InitHolds, PTL DEF Spec

\* What a local engine says of a schedule is so: every timer can be cleared, a job
\* that is said to be scheduled has its timer, and what is said to run runs.
THEOREM StatesAreTrue == Spec => []StateIsTrue
<1>1. LocalInv => StateIsTrue
  BY DEF LocalInv
<1> QED
  BY <1>1, LocalInductive, PTL

\* A schedule with a record in the history is neither set nor run by the standalone
\* engine, in any life of the process.
THEOREM RecordedStayOver == Spec => []RecordedIsOver
<1>1. LocalInv => RecordedIsOver
  BY DEF LocalInv
<1> QED
  BY <1>1, LocalInductive, PTL
===============================================================================
