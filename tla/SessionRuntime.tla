----------------------------- MODULE SessionRuntime -----------------------------
(***************************************************************************)
(* Conversations kept by the subprocess: createSession, sendUserMessage,   *)
(* cancelRun and the timers of startRun                                    *)
(* (AssistantConversationRuntimeService) over the session file             *)
(* (AssistantSessionStoreService).                                         *)
(*                                                                         *)
(* Every call and every timer callback is a thread: a list of awaits, each *)
(* an operation of the store or a publication.  The store works off its    *)
(* queue in order.  A step ends an await and runs the thread to its next   *)
(* one, so that what is published there is sent in the same step.  A run   *)
(* is one message; texts, titles and times are left out.                   *)
(***************************************************************************)
EXTENDS Naturals, Sequences, SequencesExt

CONSTANTS
    Sessions,    \* the sessions that may be created
    MaxRuns,     \* bound: messages sent
    Chunks,      \* pieces the reply is published in
    MaxFaults    \* bound: failed awaits and restarts while a patient user is there

ASSUME SessionRuntimeAssumption ==
    MaxRuns \in Nat /\ Chunks \in Nat \ {0} /\ MaxFaults \in Nat

Runs == 1 .. MaxRuns
StoreOps == {"get", "upsert", "patch", "list"}

Tasks == {"step", "chunk", "finish", "done"}
Threads == ({"send", "cancel", "fail"} \cup Tasks) \X Runs
Creates == {"create"} \X Sessions

\* Mutant of Awaits: the window is told of an answer before it is stored.
AwaitsToldFirst(t) ==
    CASE t[1] = "create" -> <<"upsert", "event", "list", "snapshot">>
      [] t[1] = "send" -> <<"get", "upsert", "list", "snapshot", "event">>
      [] t[1] \in {"step", "finish"} -> <<"patch", "event">>
      [] t[1] = "chunk" -> <<"event">>
      [] t[1] = "done" -> <<"event", "patch", "list", "snapshot">>
      [] t[1] \in {"cancel", "fail"} -> <<"patch", "event", "list", "snapshot">>

\* Mutant of Awaits: cancelRun publishes no session list.
AwaitsCancelUnlisted(t) ==
    CASE t[1] = "create" -> <<"upsert", "event", "list", "snapshot">>
      [] t[1] = "send" -> <<"get", "upsert", "list", "snapshot", "event">>
      [] t[1] \in {"step", "finish", "cancel"} -> <<"patch", "event">>
      [] t[1] = "chunk" -> <<"event">>
      [] t[1] \in {"done", "fail"} -> <<"patch", "event", "list", "snapshot">>

\* The awaits of a thread.
Awaits(t) ==
    CASE t[1] = "create" -> <<"upsert", "event", "list", "snapshot">>
      [] t[1] = "send" -> <<"get", "upsert", "list", "snapshot", "event">>
      [] t[1] \in {"step", "finish"} -> <<"patch", "event">>
      [] t[1] = "chunk" -> <<"event">>
      [] t[1] \in {"done", "cancel", "fail"} ->
            <<"patch", "event", "list", "snapshot">>

\* What a thread publishes in its "event" await.
Event ==
    [ send |-> "RUN_STARTED", step |-> "STEP_STARTED", chunk |-> "ASSISTANT_DELTA",
      finish |-> "STEP_FINISHED", done |-> "ASSISTANT_DONE",
      cancel |-> "RUN_CANCELLED", fail |-> "RUN_FAILED" ]

\* The callbacks of a run, in the order of their delays.
Timers == <<"step">> \o [i \in 1 .. Chunks |-> "chunk"] \o <<"finish", "done">>

NoSession == [messages |-> <<>>, run |-> 0, status |-> "missing", steps |-> {}]

VARIABLES
    home,       \* the session of a run
    store,      \* the session file
    copy,       \* the session sendUserMessage has read
    at,         \* the await of a thread, 0 when it is not under way
    queue,      \* threads waiting for the store, first come first served
    timer,      \* the next callback of a run, 0 before startRun
    active,     \* activeRuns
    cancelled,  \* the runs whose timers are cleared
    events,     \* published for a run, in order
    known,      \* sessions announced to the window
    shown,      \* the session list of the last snapshot
    patient,    \* the user sends in, and cancels, only what the window shows as
                \* idle, or running
    faults      \* failed awaits and restarts so far

vars == <<home, store, copy, at, queue, timer, active, cancelled, events, known,
          shown, patient, faults>>

\* A session of the session list: its last run counts as running, failed or idle.
Summary(s) ==
    [ messages |-> Len(store[s].messages),
      status |-> IF store[s].status \in {"completed", "cancelled"} THEN "idle"
                 ELSE store[s].status ]
Summaries == [s \in Sessions |-> Summary(s)]

Init ==
    /\ home \in [Runs -> Sessions]
    /\ store = [s \in Sessions |-> NoSession]
    /\ copy = [r \in Runs |-> NoSession]
    /\ at = [t \in Threads \cup Creates |-> 0]
    /\ queue = <<>>
    /\ timer = [r \in Runs |-> 0]
    /\ active = {} /\ cancelled = {}
    /\ events = [r \in Runs |-> <<>>]
    /\ known = {}
    /\ shown = Summaries
    /\ patient \in BOOLEAN
    /\ faults = 0

-------------------------------------------------------------------------------
(* Threads                                                                   *)

\* Thread t reaches its await i; q is the queue it may have to wait in.  Only two
\* kinds of threads go on after their last publication.
Reach(t, i, q) ==
    LET op == Awaits(t)[i] IN
    /\ at' = [at EXCEPT ![t] =
                IF i = Len(Awaits(t)) /\ t[1] \notin {"send", "done"} THEN 0 ELSE i]
    /\ queue' = IF op \in StoreOps THEN Append(q, t) ELSE q
    /\ events' = IF op = "event" /\ t[1] # "create"
                 THEN [events EXCEPT ![t[2]] = Append(@, Event[t[1]])] ELSE events
    /\ known' = IF op = "event" /\ t[1] = "create" THEN known \cup {t[2]} ELSE known
    /\ shown' = IF op = "snapshot" THEN Summaries ELSE shown

EndOf == [done |-> "completed", cancel |-> "cancelled", fail |-> "failed"]

Succeed(steps, r) ==
    {IF x.run = r THEN [x EXCEPT !.status = "success"] ELSE x : x \in steps}

\* What the updater of a thread makes of the session.  It changes the last run
\* of the session, whichever that is.
Patched(t, session) ==
    CASE t[1] = "step" ->
            [session EXCEPT !.steps = @ \cup {[run |-> t[2], status |-> "running"]}]
      [] t[1] = "finish" -> [session EXCEPT !.steps = Succeed(@, t[2])]
      [] t[1] = "done" ->
            [ messages |-> Append(session.messages, <<"assistant", t[2]>>),
              run |-> session.run, status |-> "completed",
              steps |-> Succeed(session.steps, t[2]) ]
      [] OTHER -> [session EXCEPT !.status = EndOf[t[1]]]

\* The session sendUserMessage stores: the one it has read and its message.
WithMessage(session, r) ==
    [ messages |-> Append(session.messages, <<"user", r>>),
      run |-> r, status |-> "running", steps |-> {} ]

\* The store does the operation the first thread of the queue waits for.
Serve ==
    /\ queue # <<>>
    /\ LET t == Head(queue)
           s == IF t \in Creates THEN t[2] ELSE home[t[2]]
           op == Awaits(t)[at[t]]
       IN /\ store' = CASE op = "upsert" /\ t \in Creates ->
                                [store EXCEPT ![s].status = "idle"]
                        [] op = "upsert" /\ t \notin Creates ->
                                [store EXCEPT ![s] = WithMessage(copy[t[2]], t[2])]
                        [] op = "patch" -> [store EXCEPT ![s] = Patched(t, @)]
                        [] OTHER -> store
          /\ copy' = IF op = "get" THEN [copy EXCEPT ![t[2]] = store[s]] ELSE copy
          /\ Reach(t, at[t] + 1, Tail(queue))
    /\ UNCHANGED <<home, timer, active, cancelled, patient, faults>>

Waits(t) == at[t] # 0 /\ Awaits(t)[at[t]] \in {"event", "snapshot"}

\* The host has taken what t published.
Answer(t) ==
    /\ Waits(t) /\ at[t] < Len(Awaits(t))
    /\ Reach(t, at[t] + 1, queue)
    /\ UNCHANGED <<home, store, copy, timer, active, cancelled, patient, faults>>

\* Mutant of Finish: startRun does not enter the run in activeRuns.
FinishUnregistered(t) ==
    /\ Waits(t) /\ at[t] = Len(Awaits(t))
    /\ at' = [at EXCEPT ![t] = 0]
    /\ active' = IF t[1] = "done" THEN active \ {t[2]} ELSE active
    /\ timer' = IF t[1] = "send" THEN [timer EXCEPT ![t[2]] = 1] ELSE timer
    /\ UNCHANGED <<home, store, copy, queue, cancelled, events, known, shown, patient, faults>>

\* It was the last await of t: sendUserMessage starts the run, the callback that
\* completes it takes it from activeRuns.
Finish(t) ==
    /\ Waits(t) /\ at[t] = Len(Awaits(t))
    /\ at' = [at EXCEPT ![t] = 0]
    /\ active' = CASE t[1] = "send" -> active \cup {t[2]}
                   [] t[1] = "done" -> active \ {t[2]}
                   [] OTHER -> active
    /\ timer' = IF t[1] = "send" THEN [timer EXCEPT ![t[2]] = 1] ELSE timer
    /\ UNCHANGED <<home, store, copy, queue, cancelled, events, known, shown, patient, faults>>

-------------------------------------------------------------------------------
(* Requests and callbacks                                                    *)

CreateSession(s) ==
    /\ store[s].status = "missing" /\ at[<<"create", s>>] = 0 /\ s \notin known
    /\ Reach(<<"create", s>>, 1, queue)
    /\ UNCHANGED <<home, store, copy, timer, active, cancelled, patient, faults>>

Has(r, name) == \E i \in DOMAIN events[r] : events[r][i] = name
StatusOf == [ASSISTANT_DONE |-> "completed", RUN_CANCELLED |-> "cancelled",
             RUN_FAILED |-> "failed"]
IsOver(r) == \E e \in DOMAIN StatusOf : Has(r, e)

\* Nothing goes on for r: it ended in silence, by a failed await or a restart.
IsDead(r) == r \notin active /\ \A t \in Threads : t[2] = r => at[t] = 0

Sent == {r \in Runs : copy[r] # NoSession \/ at[<<"send", r>>] # 0}

\* The user sends message r.
SendUserMessage(r) ==
    /\ r \notin Sent /\ (1 .. r - 1) \subseteq Sent
    /\ home[r] \in known
    /\ patient => \A q \in 1 .. r - 1 : home[q] = home[r] => IsOver(q) \/ IsDead(q)
    /\ Reach(<<"send", r>>, 1, queue)
    /\ UNCHANGED <<home, store, copy, timer, active, cancelled, patient, faults>>

\* Mutant of CancelRun: the run is taken from activeRuns but not cancelled.
CancelRunOnlyActive(r) ==
    /\ r \in active
    /\ patient => ~IsOver(r)
    /\ active' = active \ {r}
    /\ Reach(<<"cancel", r>>, 1, queue)
    /\ UNCHANGED <<home, store, copy, timer, cancelled, patient, faults>>

CancelRun(r) ==
    /\ r \in active
    /\ patient => ~IsOver(r)
    /\ active' = active \ {r} /\ cancelled' = cancelled \cup {r}
    /\ Reach(<<"cancel", r>>, 1, queue)
    /\ UNCHANGED <<home, store, copy, timer, patient, faults>>

\* The next callback of the run begins, whatever the earlier ones wait for.
Fire(r) ==
    /\ timer[r] \in DOMAIN Timers /\ r \notin cancelled
    /\ timer' = [timer EXCEPT ![r] = @ + 1]
    /\ Reach(<<Timers[timer[r]], r>>, 1, queue)
    /\ UNCHANGED <<home, store, copy, active, cancelled, patient, faults>>

-------------------------------------------------------------------------------
(* Failures                                                                  *)

\* failRun of r begins; now and q are the threads and the queue as they are left.
FailRun(r, now, q) ==
    /\ at' = [now EXCEPT ![<<"fail", r>>] = 1]
    /\ queue' = Append(q, <<"fail", r>>)
    /\ active' = active \ {r}
    /\ cancelled' = IF r \in active THEN cancelled \cup {r} ELSE cancelled

\* The await of t rejects; an operation of the store then has had no effect.
\* failRun follows on a callback, a request ends there.  (Of a run, one failRun is
\* under way at a time.)
Fault(t) ==
    /\ patient /\ faults < MaxFaults /\ faults' = faults + 1
    /\ Waits(t) \/ (queue # <<>> /\ Head(queue) = t)
    /\ t[1] \in Tasks => at[<<"fail", t[2]>>] = 0
    /\ LET now == [at EXCEPT ![t] = 0]
           left == IF Waits(t) THEN queue ELSE Tail(queue)
       IN IF t[1] \in Tasks
          THEN FailRun(t[2], now, left)
          ELSE at' = now /\ queue' = left /\ UNCHANGED <<active, cancelled>>
    /\ UNCHANGED <<home, store, copy, timer, events, known, shown, patient>>

\* The publication rejects with which a callback of r was over.
PublicationFails(r) ==
    /\ patient /\ faults < MaxFaults /\ faults' = faults + 1
    /\ at[<<"fail", r>>] = 0
    /\ \E e \in {"STEP_STARTED", "ASSISTANT_DELTA", "STEP_FINISHED"} : Has(r, e)
    /\ FailRun(r, at, queue)
    /\ UNCHANGED <<home, store, copy, timer, events, known, shown, patient>>

\* The process starts again, with the file as it was; no run goes on.
Restart ==
    /\ patient /\ faults < MaxFaults /\ faults' = faults + 1
    /\ at' = [t \in Threads \cup Creates |-> 0]
    /\ queue' = <<>>
    /\ active' = {} /\ cancelled' = cancelled \cup Sent
    /\ UNCHANGED <<home, store, copy, timer, events, known, shown, patient>>

-------------------------------------------------------------------------------

Next ==
    \/ Serve \/ Restart
    \/ \E s \in Sessions : CreateSession(s)
    \/ \E r \in Runs : SendUserMessage(r) \/ CancelRun(r) \/ Fire(r)
                    \/ PublicationFails(r)
    \/ \E t \in Threads \cup Creates : Answer(t) \/ Finish(t) \/ Fault(t)

Spec == Init /\ [][Next]_vars

-------------------------------------------------------------------------------
(* Properties                                                                *)

\* Once the window was told that a run is cancelled or failed, it hears no more of
\* its steps, its text or its answer, although callbacks may have been under way.
EndIsLast ==
    \A r \in Runs : \A i, j \in DOMAIN events[r] :
        i < j /\ events[r][i] \in {"RUN_CANCELLED", "RUN_FAILED"}
            => events[r][j] \in {"RUN_CANCELLED", "RUN_FAILED"}

\* A run stored as running is run: its call still is under way, it is in activeRuns,
\* or its end waits to be stored.
RunningIsActive ==
    faults = 0 => \A s \in Sessions : store[s].status = "running" =>
        LET r == store[s].run IN
        \/ r \in active
        \/ \E k \in {"send", "cancel", "fail"} : at[<<k, r>>] # 0

\* When the session list the window shows is old, a call that will publish it is
\* under way (a callback of startRun or a request, of any session).
ListIsOwed ==
    faults = 0 /\ shown # Summaries =>
        \E t \in Threads \cup Creates :
            at[t] # 0 /\ \E i \in at[t] .. Len(Awaits(t)) : Awaits(t)[i] = "list"

\* The last end that was published is told by the status; none was while it is
\* running.
Told(published, status) ==
    \/ status = "running" /\ \A i \in DOMAIN published : published[i] \notin DOMAIN StatusOf
    \/ \E i \in DOMAIN published :
          /\ published[i] \in DOMAIN StatusOf /\ StatusOf[published[i]] = status
          /\ \A j \in DOMAIN published : j > i => published[j] \notin DOMAIN StatusOf

\* What is stored of a run is what the window was told of it last, a run that was
\* cancelled while its answer was being stored included.  (A user who waits; an
\* overtaken run marks the session's next one.)
EndsAgree ==
    patient /\ faults = 0 => \A s \in Sessions :
        store[s].run # 0 => Told(events[store[s].run], store[s].status)

\* A message that is stored stays stored: no sendUserMessage writes back a session
\* it read before another message came.  (A user who waits.)
MessagesAreKept ==
    [][patient => \A s \in Sessions :
          IsPrefix(store[s].messages, store[s].messages')]_store
===============================================================================
