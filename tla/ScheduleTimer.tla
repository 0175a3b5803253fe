----------------------------- MODULE ScheduleTimer -----------------------------
(***************************************************************************)
(* ScheduleTimerService with the handlers that enable, disable and restore *)
(* schedules (SchedulerService.ts, ChannelService.ts, bootstrap.ts), the   *)
(* runtime store they write, and the schedule store of the assistant       *)
(* window that hears of it.                                                *)
(*                                                                         *)
(* Calls are processes as in ScheduleExecution, and the runtime store runs *)
(* its operations in the order they were requested.  Timers are numbered   *)
(* in the order they are set; the number stands for the nextTriggerAt of   *)
(* the timer too.  Time is left out: a timer may fire at any moment.       *)
(***************************************************************************)
EXTENDS Naturals, Sequences, FiniteSets

CONSTANTS
    Calls,        \* invocations of handlers and of timer callbacks
    Schedules,    \* the configured schedules
    MaxCommands,  \* bound: enable, disable and snapshot requests
    MaxFires,     \* bound: timers that fire
    MaxFaults     \* bound: writes and host calls that fail, and restarts

ASSUME ScheduleTimerAssumption ==
    /\ MaxCommands \in Nat /\ MaxFires \in Nat
    /\ MaxFaults \in Nat
    /\ Calls # {}

NoTimer == 0

VARIABLES
    authorized,  \* the automation authorization file
    enabled,     \* runtime store: enabled
    next,        \* runtime store: nextTriggerAt
    jobs,        \* ScheduleTimerService.jobs: the timer of each schedule
    armed,       \* the timers that are set: <<schedule, timer>>
    made,        \* timers made so far
    queue,       \* the calls waiting for the runtime store, in order
    pc,          \* the await a call is suspended at
    target,      \* the schedule a call works on
    timer,       \* the timer a call registered, or whose callback it is
    todo,        \* the schedules the restoring call has still to register
    ready,       \* bootstrapDcf has returned: requests are received
    inbox,       \* messages on their way to the assistant window
    window,      \* what the schedule store of that window shows of each schedule
    host,        \* ... and of the subprocess: whether it is there, and authorized
    commands, fires, failures, restarts   \* counted against the bounds

stored == <<authorized, enabled, next>>
timers == <<jobs, armed, made>>
locals == <<target, timer, todo>>
channel == <<inbox, window, host>>
counters == <<commands, fires, failures, restarts>>
vars == <<stored, timers, queue, pc, locals, ready, channel, counters>>

\* The labels at which a call waits for the runtime store, and for other things.
StoreLabels == {"enabling", "rearming", "restoring", "enable", "disable", "list",
                "touch"}
Labels == {"idle", "boot", "announce", "state", "authorization", "add", "notify"}
              \cup StoreLabels

\* onScheduled, the write at the end of register, by the caller of register.
RegisteringLabels == {"enabling", "rearming", "restoring"}

-------------------------------------------------------------------------------

\* c begins a handler or a callback: a call that is over, no matter which.
Begins(c) == pc[c] = "idle" /\ c = CHOOSE d \in Calls : pc[d] = "idle"

Resumes(c, label) ==
    /\ pc[c] = label
    /\ label \in StoreLabels => queue # <<>> /\ Head(queue) = c

\* c is resumed at `label` and runs on to its await at `then`.
Goto(c, label, then) ==
    /\ pc' = [pc EXCEPT ![c] = then]
    /\ LET rest == IF label \in StoreLabels THEN Tail(queue) ELSE queue IN
         queue' = IF then \in StoreLabels THEN Append(rest, c) ELSE rest

Cleared(s) == armed \ {<<s, jobs[s]>>}

\* Mutant of Register: the timer that is replaced is not cleared.
RegisterUncleared(c, s) ==
    /\ made' = made + 1
    /\ armed' = armed \cup {<<s, made + 1>>}
    /\ jobs' = [jobs EXCEPT ![s] = made + 1]
    /\ timer' = [timer EXCEPT ![c] = made + 1]

\* register, up to its await: the timer of s is replaced by a new one.
Register(c, s) ==
    /\ made' = made + 1
    /\ armed' = Cleared(s) \cup {<<s, made + 1>>}
    /\ jobs' = [jobs EXCEPT ![s] = made + 1]
    /\ timer' = [timer EXCEPT ![c] = made + 1]

\* The service has just been started on the files of an earlier life, in which
\* schedules are enabled only after the authorization.
Init ==
    /\ authorized \in BOOLEAN
    /\ enabled \in [Schedules -> {authorized, FALSE}]
    /\ next = [s \in Schedules |-> NoTimer]
    /\ jobs = [s \in Schedules |-> NoTimer]
    /\ armed = {}
    /\ made = 0
    /\ queue = <<>>
    /\ \E c \in Calls : pc = [d \in Calls |-> IF d = c THEN "boot" ELSE "idle"]
    /\ \E s \in Schedules : target = [c \in Calls |-> s]
    /\ timer = [c \in Calls |-> NoTimer]
    /\ todo = {}
    /\ ready = FALSE
    /\ inbox = <<>>
    /\ window = [s \in Schedules |-> "unknown"]
    /\ host = [online |-> FALSE, authorized |-> FALSE]
    /\ commands = 0 /\ fires = 0 /\ failures = 0 /\ restarts = 0

-------------------------------------------------------------------------------
(* restoreEnabledSchedules                                                   *)

\* Messages reach the window in the order they are sent.
Send(message) == inbox' = Append(inbox, message) /\ UNCHANGED <<window, host>>

BootstrapState == [type |-> "BOOTSTRAP_STATE", authorized |-> authorized]

\* The next schedule is registered, or all are and the window is told.
RestoreNext(c, label, remaining) ==
    IF remaining = {}
    THEN /\ Goto(c, label, "announce")
         /\ UNCHANGED <<timers, locals>>
    ELSE \E s \in remaining :
         /\ Register(c, s)
         /\ target' = [target EXCEPT ![c] = s]
         /\ todo' = remaining \ {s}
         /\ Goto(c, label, "restoring")

\* Without the authorization nothing is restored.
Boot(c) ==
    /\ Resumes(c, "boot")
    /\ RestoreNext(c, "boot", {s \in Schedules : authorized /\ enabled[s]})
    /\ UNCHANGED <<stored, ready, channel, counters>>

\* onScheduled: a registered schedule is enabled in the runtime store.
Scheduled(c) ==
    /\ enabled' = [enabled EXCEPT ![target[c]] = TRUE]
    /\ next' = [next EXCEPT ![target[c]] = timer[c]]
    /\ UNCHANGED authorized

Restored(c) ==
    /\ Resumes(c, "restoring")
    /\ Scheduled(c)
    /\ RestoreNext(c, "restoring", todo)
    /\ UNCHANGED <<ready, channel, counters>>

\* bootstrapDcf publishes its state and returns.
Announced(c) ==
    /\ Resumes(c, "announce")
    /\ Send(BootstrapState)
    /\ ready' = TRUE
    /\ Goto(c, "announce", "idle")
    /\ UNCHANGED <<stored, timers, locals, counters>>

-------------------------------------------------------------------------------
(* The requests of the assistant window                                      *)

Authorize ==
    /\ ready
    /\ commands < MaxCommands
    /\ commands' = commands + 1
    /\ authorized' = TRUE
    /\ Send([type |-> "AUTOMATION_AUTHORIZED"])
    /\ UNCHANGED <<enabled, next, timers, queue, pc, locals, ready, fires, failures,
                   restarts>>

\* A request about s arrives and the handler runs to its await at `label`.
Request(c, label, s) ==
    /\ ready /\ Begins(c)
    /\ commands < MaxCommands
    /\ commands' = commands + 1
    /\ target' = [target EXCEPT ![c] = s]
    /\ Goto(c, "idle", label)
    /\ UNCHANGED <<stored, timer, todo, ready, channel, fires, failures, restarts>>

RequestEnable(c, s) == Request(c, "authorization", s) /\ UNCHANGED timers

\* Mutant of RequestDisable: the schedule is not unregistered.
RequestDisableRegistered(c, s) == Request(c, "disable", s) /\ UNCHANGED timers

\* unregister, and then the write of disableSchedule.
RequestDisable(c, s) ==
    /\ Request(c, "disable", s)
    /\ armed' = Cleared(s)
    /\ jobs' = [jobs EXCEPT ![s] = NoTimer]
    /\ UNCHANGED made

RequestState(c, s) == Request(c, "state", s) /\ UNCHANGED timers

\* The authorization was read; the schedules come in a message of their own.
PublishBootstrapState(c) ==
    /\ Resumes(c, "state")
    /\ Send(BootstrapState)
    /\ Goto(c, "state", "list")
    /\ UNCHANGED <<stored, timers, locals, ready, counters>>

\* enableSchedule of the channel goes on when the authorization was read.
EnableSchedule(c) ==
    /\ Resumes(c, "authorization")
    /\ IF authorized
       THEN Register(c, target[c]) /\ Goto(c, "authorization", "enabling")
       ELSE Goto(c, "authorization", "idle") /\ UNCHANGED <<timers, timer>>
    /\ UNCHANGED <<stored, target, todo, ready, channel, counters>>

Registered(c) ==
    /\ Resumes(c, "enabling")
    /\ Scheduled(c)
    /\ Goto(c, "enabling", "enable")
    /\ UNCHANGED <<timers, locals, ready, channel, counters>>

\* Mutant of Enable: the window is not told.
EnableSilently(c) ==
    /\ Resumes(c, "enable")
    /\ enabled' = [enabled EXCEPT ![target[c]] = TRUE]
    /\ next' = [next EXCEPT ![target[c]] = timer[c]]
    /\ Goto(c, "enable", "idle")
    /\ UNCHANGED <<authorized, timers, locals, ready, channel, counters>>

\* The second write of the same values; then the window is told.
Enable(c) ==
    /\ Resumes(c, "enable")
    /\ enabled' = [enabled EXCEPT ![target[c]] = TRUE]
    /\ next' = [next EXCEPT ![target[c]] = timer[c]]
    /\ Send([type |-> "SCHEDULE_ENABLED", schedule |-> target[c]])
    /\ Goto(c, "enable", "idle")
    /\ UNCHANGED <<authorized, timers, locals, ready, counters>>

Disable(c) ==
    /\ Resumes(c, "disable")
    /\ enabled' = [enabled EXCEPT ![target[c]] = FALSE]
    /\ next' = [next EXCEPT ![target[c]] = NoTimer]
    /\ Send([type |-> "SCHEDULE_DISABLED", schedule |-> target[c]])
    /\ Goto(c, "disable", "idle")
    /\ UNCHANGED <<authorized, timers, locals, ready, counters>>

PublishSnapshot(c) ==
    /\ Resumes(c, "list")
    /\ Send([type |-> "SCHEDULE_STATE_SNAPSHOT", schedules |-> enabled])
    /\ Goto(c, "list", "idle")
    /\ UNCHANGED <<stored, timers, locals, ready, counters>>

\* A change touches the schedules the store knows only; a snapshot replaces them.
Applied(message) ==
    CASE message.type \in {"SCHEDULE_ENABLED", "SCHEDULE_DISABLED"} ->
             [window EXCEPT ![message.schedule] =
                 CASE @ = "unknown" -> @
                   [] message.type = "SCHEDULE_ENABLED" -> "enabled"
                   [] OTHER -> "disabled"]
      [] message.type = "SCHEDULE_STATE_SNAPSHOT" ->
             [s \in Schedules |-> IF message.schedules[s] THEN "enabled" ELSE "disabled"]
      [] OTHER -> window

\* The schedule store of the window.
ReceiveMessage ==
    /\ inbox # <<>>
    /\ inbox' = Tail(inbox)
    /\ LET message == Head(inbox) IN
         /\ window' = Applied(message)
         /\ host' = CASE message.type = "BOOTSTRAP_STATE" ->
                             [online |-> TRUE, authorized |-> message.authorized]
                      [] message.type = "AUTOMATION_AUTHORIZED" ->
                             [host EXCEPT !.authorized = TRUE]
                      [] OTHER -> host
    /\ UNCHANGED <<stored, timers, queue, pc, locals, ready, counters>>

-------------------------------------------------------------------------------
(* The callback of a timer: onScheduleDue (a pending item, lastTriggeredAt in *)
(* the runtime store, the announcement), then the timer is set again.         *)

Fire(c, s) ==
    /\ Begins(c)
    /\ fires < MaxFires
    /\ fires' = fires + 1
    /\ \E t \in 1 .. made :
         /\ <<s, t>> \in armed
         /\ armed' = armed \ {<<s, t>>}
         /\ timer' = [timer EXCEPT ![c] = t]
    /\ target' = [target EXCEPT ![c] = s]
    /\ Goto(c, "idle", "add")
    /\ UNCHANGED <<stored, jobs, made, todo, ready, channel, commands, failures,
                   restarts>>

Added(c) ==
    /\ Resumes(c, "add")
    /\ Goto(c, "add", "touch")
    /\ UNCHANGED <<stored, timers, locals, ready, channel, counters>>

Touched(c) ==
    /\ Resumes(c, "touch")
    /\ Goto(c, "touch", "notify")
    /\ UNCHANGED <<stored, timers, locals, ready, channel, counters>>

\* Mutant of Rearm: the job is not looked up again after onDue.
RearmUnchecked(c) ==
    /\ Resumes(c, "notify")
    /\ Register(c, target[c]) /\ Goto(c, "notify", "rearming")
    /\ UNCHANGED <<stored, target, todo, ready, channel, counters>>

\* Mutant of Rearm: the timer is set once.
RearmNever(c) ==
    /\ Resumes(c, "notify")
    /\ Goto(c, "notify", "idle")
    /\ UNCHANGED <<stored, timers, locals, ready, channel, counters>>

\* The schedule may have been disabled or registered anew meanwhile.
Rearm(c) ==
    /\ Resumes(c, "notify")
    /\ IF jobs[target[c]] = timer[c]
       THEN Register(c, target[c]) /\ Goto(c, "notify", "rearming")
       ELSE Goto(c, "notify", "idle") /\ UNCHANGED <<timers, timer>>
    /\ UNCHANGED <<stored, target, todo, ready, channel, counters>>

\* Mutant of Rearmed: a stale time is written.
RearmedStale(c) ==
    /\ Resumes(c, "rearming")
    /\ enabled' = [enabled EXCEPT ![target[c]] = TRUE]
    /\ Goto(c, "rearming", "idle")
    /\ UNCHANGED <<authorized, next, timers, locals, ready, channel, counters>>

Rearmed(c) ==
    /\ Resumes(c, "rearming")
    /\ Scheduled(c)
    /\ Goto(c, "rearming", "idle")
    /\ UNCHANGED <<timers, locals, ready, channel, counters>>

-------------------------------------------------------------------------------
(* Faults                                                                    *)

\* A write, a publication or a host call fails: the exception ends the call.  A
\* boot that fails leaves a service that receives no requests.
Fail(c) ==
    /\ failures + restarts < MaxFaults
    /\ failures' = failures + 1
    /\ \E label \in Labels \ {"idle", "boot", "authorization"} :
         Resumes(c, label) /\ Goto(c, label, "idle")
    /\ todo' = IF pc[c] = "restoring" THEN {} ELSE todo
    /\ UNCHANGED <<stored, timers, target, timer, ready, channel, commands, fires,
                   restarts>>

\* The subprocess dies and starts again; the files and the window survive.
Restart(c) ==
    /\ failures + restarts < MaxFaults
    /\ restarts' = restarts + 1
    /\ jobs' = [s \in Schedules |-> NoTimer]
    /\ armed' = {}
    /\ queue' = <<>>
    /\ pc' = [d \in Calls |-> IF d = c THEN "boot" ELSE "idle"]
    /\ todo' = {}
    /\ ready' = FALSE
    /\ UNCHANGED <<stored, made, target, timer, channel, commands, fires, failures>>

-------------------------------------------------------------------------------

Step(c) ==
    \/ Boot(c) \/ Restored(c) \/ Announced(c)
    \/ EnableSchedule(c) \/ Registered(c) \/ Enable(c) \/ Disable(c)
    \/ PublishBootstrapState(c) \/ PublishSnapshot(c)
    \/ Added(c) \/ Touched(c) \/ Rearm(c) \/ Rearmed(c)

Requests(c) ==
    \E s \in Schedules : RequestEnable(c, s) \/ RequestDisable(c, s) \/ RequestState(c, s)

Next ==
    \/ \E c \in Calls :
         \/ Step(c) \/ Requests(c) \/ Fail(c) \/ Restart(c)
         \/ \E s \in Schedules : Fire(c, s)
    \/ Authorize \/ ReceiveMessage

Spec == Init /\ [][Next]_vars

\* The event loop and the host answer; whether a timer's time comes within the
\* bound, and what the user asks for, is open.
Fairness == WF_vars(ReceiveMessage) /\ \A c \in Calls : WF_vars(Step(c))
FairSpec == Spec /\ Fairness

-------------------------------------------------------------------------------
(* Properties                                                                *)

\* A schedule has at most one timer set, the one its job names: enabling twice,
\* enabling from within the callback's awaits and disabling leave none behind.
OneTimer == \A a \in armed : jobs[a[1]] = a[2]

\* A timer is set only for a schedule that is enabled, or whose register is
\* about to write that it is.  (A failed write leaves a timer without it.)
TimerIsEnabled ==
    failures = 0 =>
        \A a \in armed :
            \/ enabled[a[1]]
            \/ \E c \in Calls : pc[c] \in RegisteringLabels /\ target[c] = a[1]

\* A schedule that was disabled is enabled only by a request: a callback that
\* was on its way, or the restoring, does not undo what the user did.
ReenabledOnRequest ==
    [][failures = 0 =>
         \A s \in Schedules : ~enabled[s] /\ enabled'[s] =>
             \E c \in Calls : pc[c] \in {"enabling", "enable"} /\ target[c] = s]_vars

\* Nothing is under way.
AtRest == ready /\ inbox = <<>> /\ \A c \in Calls : pc[c] = "idle"

\* The stored time of the next trigger is that of the timer that is set, however
\* callbacks, requests and restarts interleaved.
NextIsArmed ==
    AtRest /\ failures = 0 => \A a \in armed : next[a[1]] = a[2]

\* The window shows what is stored: of the authorization once the subprocess has told
\* it that it is there, also after a restart, and of the schedules once it has asked.
\* (After a restart it has to ask again.)
WindowAgrees ==
    AtRest /\ failures = 0 =>
        /\ host.online => host.authorized = authorized
        /\ restarts = 0 => \A s \in Schedules :
              window[s] # "unknown" => (window[s] = "enabled" <=> enabled[s])

\* A timer that fired is set again, unless the schedule is disabled meanwhile or an
\* await of its callback fails, which ends the callback before it registers.
FiredIsRearmed ==
    \A s \in Schedules :
        jobs[s] # NoTimer /\ <<s, jobs[s]>> \notin armed
            ~> jobs[s] = NoTimer \/ <<s, jobs[s]>> \in armed \/ failures > 0
===============================================================================
