-------------------------------- MODULE ChatRun --------------------------------
(***************************************************************************)
(* Conversations of the standalone assistant window: the page that sends   *)
(* (pages/Assistant), the transport that runs a message against the        *)
(* streaming service and executes its local tools                          *)
(* (AssistantWebRuntimeTransport), and the two stores its events update    *)
(* (run.store, chat.store).                                                *)
(*                                                                         *)
(* A run is one message; nothing keeps the user from sending the next one  *)
(* in the same session while it goes on.  Events are applied to the stores *)
(* in the step that publishes them; the task record uploader has no        *)
(* handler, so that an upload is over at once.  Sessions are named by      *)
(* their first run; session 0 is the draft the window starts with, which   *)
(* creates a session of the service for every message sent from it.        *)
(***************************************************************************)
EXTENDS Naturals, Sequences, FiniteSets, Functions

CONSTANTS
    MaxRuns,     \* bound: messages sent
    MaxSteps,    \* bound: actions in the streams of all runs
    CallIds      \* ids of actions: the service's choice, which may come again

ASSUME ChatRunAssumption == MaxRuns \in Nat /\ MaxSteps \in Nat

Draft == 0
Runs == 1 .. MaxRuns
Sessions == 0 .. MaxRuns

Live == {"fetch", "stream", "tool", "report"}

VARIABLES
    sessions,  \* the sessions of the chat store
    phase,     \* what a run waits for
    home,      \* the session of a run
    during,    \* history: the runs of its session that went on when a run began
    actions,   \* actions a run took from its stream so far
    stepId,    \* the local action a run executes
    isError,   \* and its result
    aborted,   \* the runs whose abort signal is raised
    active,    \* activeRuns of the transport
    view,      \* run store, per session: run, status and steps
    chat,      \* chat store, per session: lastRunStatus
    answer,    \* chat store: the assistant message of a run
    uploads    \* the task records uploaded for a run

runVars == <<phase, home, during, actions, stepId, isError, aborted, active>>
vars == <<sessions, runVars, view, chat, answer, uploads>>

NoCall == "none"
NoRun == [run |-> 0, status |-> "none", steps |-> {}]

Init ==
    /\ sessions = {Draft}
    /\ phase = [r \in Runs |-> "unsent"]
    /\ home = [r \in Runs |-> Draft]
    /\ during = [r \in Runs |-> {}]
    /\ actions = [r \in Runs |-> 0]
    /\ stepId = [r \in Runs |-> NoCall]
    /\ isError = [r \in Runs |-> FALSE]
    /\ aborted = {} /\ active = {}
    /\ view = [s \in Sessions |-> NoRun]
    /\ chat = [s \in Sessions |-> "idle"]
    /\ answer = [r \in Runs |-> "none"]
    /\ uploads = [r \in Runs |-> <<>>]

-------------------------------------------------------------------------------
(* The stores.  An event of a run is applied to what its session holds, which *)
(* need not be that run; only RUN_STARTED replaces it.                        *)

\* The chat store takes a session for running when its run starts or says something.
ShownRunning(s) == chat' = [chat EXCEPT ![s] = "running"]

RunStarted(r, s) ==
    /\ view' = [view EXCEPT ![s] = [run |-> r, status |-> "running", steps |-> {}]]
    /\ ShownRunning(s)

\* A step takes the place of one of the same id, whichever run that is of.
WithStep(steps, r, id, status) ==
    {x \in steps : x.id # id} \cup {[run |-> r, id |-> id, status |-> status]}

StepStarted(r, id, status) ==
    view' = [view EXCEPT ![home[r]].status = "running",
                         ![home[r]].steps = WithStep(@, r, id, status)]

\* Mutant of StepFinished: a step that is not there is added.
StepFinishedOrAdded(r, id, status) ==
    view' = [view EXCEPT ![home[r]].steps = WithStep(@, r, id, status)]

StepFinished(r, id, status) ==
    view' = [view EXCEPT ![home[r]].steps =
                {IF x.id = id THEN [x EXCEPT !.status = status] ELSE x : x \in @}]

\* For the chat store a session is idle again, unless its run has failed.
ShownEnded(s, end) == chat' = [chat EXCEPT ![s] = IF end = "failed" THEN "failed" ELSE "idle"]

\* ASSISTANT_DONE leaves a failed run failed; the other two always decide.
Ended(s, end) ==
    /\ view' = [view EXCEPT ![s].status =
                  IF end = "completed" /\ @ = "failed" THEN "failed" ELSE end]
    /\ ShownEnded(s, end)

\* The run is over for the transport: its end is published and uploaded.
Finish(r, end) ==
    /\ Ended(home[r], end)
    /\ uploads' = [uploads EXCEPT ![r] = Append(@, end)]
    /\ active' = active \ {r}

-------------------------------------------------------------------------------
(* Sending a message                                                         *)

Begin(r, s) ==
    /\ phase' = [phase EXCEPT ![r] = "fetch"]
    /\ home' = [home EXCEPT ![r] = s]
    /\ during' = [during EXCEPT ![r] = {q \in active : home[q] = s}]
    /\ active' = active \cup {r}
    /\ RunStarted(r, s)

\* The button sends while a run of the session is going on, too.
SendMessage(r, s) ==
    /\ phase[r] = "unsent" /\ \A q \in Runs : q < r => phase[q] # "unsent"
    /\ s \in sessions
    /\ IF s = Draft
       THEN /\ phase' = [phase EXCEPT ![r] = "creating"]
            /\ UNCHANGED <<home, during, active, view, chat>>
       ELSE Begin(r, s)
    /\ UNCHANGED <<sessions, actions, stepId, isError, aborted, answer, uploads>>

\* The service created a session; the message is sent in it.
Created(r) ==
    /\ phase[r] = "creating"
    /\ sessions' = sessions \cup {r}
    /\ Begin(r, r)
    /\ UNCHANGED <<actions, stepId, isError, aborted, answer, uploads>>

CreateFailed(r) ==
    /\ phase[r] = "creating"
    /\ phase' = [phase EXCEPT ![r] = "over"]
    /\ UNCHANGED <<sessions, home, during, actions, stepId, isError, aborted, active,
                   view, chat, answer, uploads>>

-------------------------------------------------------------------------------
(* The stream of a run                                                       *)

Connected(r) ==
    /\ phase[r] = "fetch" /\ r \notin aborted
    /\ phase' = [phase EXCEPT ![r] = "stream"]
    /\ UNCHANGED <<sessions, home, during, actions, stepId, isError, aborted, active,
                   view, chat, answer, uploads>>

\* Mutant of StreamText: the abort signal is not looked at.
StreamTextAlways(r) ==
    /\ phase[r] = "stream"
    /\ answer' = [answer EXCEPT ![r] = "streaming"]
    /\ ShownRunning(home[r])
    /\ UNCHANGED <<sessions, runVars, view, uploads>>

StreamText(r) ==
    /\ phase[r] = "stream" /\ r \notin aborted
    /\ answer' = [answer EXCEPT ![r] = "streaming"]
    /\ ShownRunning(home[r])
    /\ UNCHANGED <<sessions, runVars, view, uploads>>

\* The actions of all runs.
Taken == FoldFunction(LAMBDA n, m : n + m, 0, actions)

\* Mutant of StreamAction: the abort signal is not looked at.
StreamActionAlways(r) ==
    /\ phase[r] = "stream"
    /\ Taken < MaxSteps
    /\ actions' = [actions EXCEPT ![r] = @ + 1]
    /\ \E id \in CallIds :
          \/ /\ StepStarted(r, id, "running")
             /\ stepId' = [stepId EXCEPT ![r] = id]
             /\ phase' = [phase EXCEPT ![r] = "tool"]
          \/ /\ StepStarted(r, id, "success")
             /\ UNCHANGED <<stepId, phase>>
    /\ UNCHANGED <<sessions, home, during, isError, aborted, active, chat, answer,
                   uploads>>

\* A local action is executed here; one the service executed is over at once.
\* Its id is what the service says, perhaps that of an action before it, of this run
\* or of another.
StreamAction(r) ==
    /\ phase[r] = "stream" /\ r \notin aborted
    /\ Taken < MaxSteps
    /\ actions' = [actions EXCEPT ![r] = @ + 1]
    /\ \E id \in CallIds :
          \/ /\ StepStarted(r, id, "running")
             /\ stepId' = [stepId EXCEPT ![r] = id]
             /\ phase' = [phase EXCEPT ![r] = "tool"]
          \/ /\ StepStarted(r, id, "success")
             /\ UNCHANGED <<stepId, phase>>
    /\ UNCHANGED <<sessions, home, during, isError, aborted, active, chat, answer,
                   uploads>>

\* The tool is not told of an abort.  Its result is shown and then reported to
\* the service, which may fail without a trace.
ToolDone(r) ==
    /\ phase[r] = "tool"
    /\ \E e \in BOOLEAN : isError' = [isError EXCEPT ![r] = e]
    /\ phase' = [phase EXCEPT ![r] = "report"]
    /\ UNCHANGED <<sessions, home, during, actions, stepId, aborted, active, view, chat,
                   answer, uploads>>

\* The step is over, what the handler knew of it is gone.
Forget(r) ==
    /\ stepId' = [stepId EXCEPT ![r] = NoCall]
    /\ isError' = [isError EXCEPT ![r] = FALSE]

\* Mutant of Reported: an aborted run finishes no step.
ReportedUnlessAborted(r) ==
    /\ phase[r] = "report"
    /\ IF r \in aborted
       THEN UNCHANGED view
       ELSE StepFinished(r, stepId[r], IF isError[r] THEN "failed" ELSE "success")
    /\ phase' = [phase EXCEPT ![r] = "stream"]
    /\ Forget(r)
    /\ UNCHANGED <<sessions, home, during, actions, aborted, active, chat, answer,
                   uploads>>

Reported(r) ==
    /\ phase[r] = "report"
    /\ StepFinished(r, stepId[r], IF isError[r] THEN "failed" ELSE "success")
    /\ phase' = [phase EXCEPT ![r] = "stream"]
    /\ Forget(r)
    /\ UNCHANGED <<sessions, home, during, actions, aborted, active, chat, answer,
                   uploads>>

\* Mutant of StreamEnd: the abort signal is not looked at.
StreamEndAlways(r) ==
    /\ phase[r] = "stream"
    /\ phase' = [phase EXCEPT ![r] = "over"]
    /\ answer' = [answer EXCEPT ![r] = "done"]
    /\ Finish(r, "completed")
    /\ UNCHANGED <<sessions, home, during, actions, stepId, isError, aborted>>

StreamEnd(r) ==
    /\ phase[r] = "stream" /\ r \notin aborted
    /\ phase' = [phase EXCEPT ![r] = "over"]
    /\ answer' = [answer EXCEPT ![r] = "done"]
    /\ Finish(r, "completed")
    /\ UNCHANGED <<sessions, home, during, actions, stepId, isError, aborted>>

\* The service refuses, or the stream breaks.
RunFailed(r) ==
    /\ phase[r] \in {"fetch", "stream"} /\ r \notin aborted
    /\ phase' = [phase EXCEPT ![r] = "over"]
    /\ Finish(r, "failed")
    /\ UNCHANGED <<sessions, home, during, actions, stepId, isError, aborted, answer>>

\* Mutant of Stopped: the abort does not reach a stream that is being read.
StoppedFetching(r) ==
    /\ phase[r] = "fetch" /\ r \in aborted
    /\ phase' = [phase EXCEPT ![r] = "over"]
    /\ UNCHANGED <<sessions, home, during, actions, stepId, isError, aborted, active,
                   view, chat, answer, uploads>>

\* An aborted fetch or read rejects; the run ends without a word.
Stopped(r) ==
    /\ phase[r] \in {"fetch", "stream"} /\ r \in aborted
    /\ phase' = [phase EXCEPT ![r] = "over"]
    /\ UNCHANGED <<sessions, home, during, actions, stepId, isError, aborted, active,
                   view, chat, answer, uploads>>

\* The button stands there while the session's run is running and aborts the
\* run the session shows, if the transport still has it.
CancelRun(s) ==
    /\ view[s].status = "running"
    /\ view[s].run \in active
    /\ aborted' = aborted \cup {view[s].run}
    /\ Finish(view[s].run, "cancelled")
    /\ UNCHANGED <<sessions, phase, home, during, actions, stepId, isError, answer>>

-------------------------------------------------------------------------------

Step(r) ==
    \/ Created(r) \/ CreateFailed(r) \/ Connected(r)
    \/ StreamText(r) \/ StreamAction(r) \/ ToolDone(r) \/ Reported(r)
    \/ StreamEnd(r) \/ RunFailed(r) \/ Stopped(r)

Next ==
    \/ \E r \in Runs : Step(r)
    \/ \E r \in Runs, s \in Sessions : SendMessage(r, s)
    \/ \E s \in Sessions : CancelRun(s)

Spec == Init /\ [][Next]_vars

\* The service and the tools answer (a tool call times out), and a stream that
\* says nothing more is closed.
Fairness ==
    \A r \in Runs :
        /\ WF_vars(Created(r) \/ CreateFailed(r) \/ Connected(r))
        /\ WF_vars(ToolDone(r) \/ Reported(r))
        /\ SF_vars(StreamEnd(r) \/ RunFailed(r) \/ Stopped(r))
FairSpec == Spec /\ Fairness

-------------------------------------------------------------------------------
(* Properties                                                                *)

\* A run has one end: it is never uploaded as completed or failed once it was
\* cancelled, and a run that is over and was started has been uploaded.
OneEnd ==
    \A r \in Runs :
        /\ Len(uploads[r]) <= 1
        /\ phase[r] \in Live => (uploads[r] # <<>> <=> r \in aborted)
        /\ phase[r] = "over" /\ home[r] # Draft => uploads[r] # <<>>

\* The run a session shows began when no other run of the session went on.
Alone(s) == \A r \in Runs : view[s].run = r => during[r] = {}

\* The abort button works: a session that is shown as running shows a run the
\* transport can abort, and no event of a cancelled run revives it.  Only when its
\* message was sent before the end of an earlier one can the session be shown as
\* running without it, and then because the earlier one still goes on.
RunningCanBeAborted ==
    \A s \in Sessions : view[s].status = "running" =>
        \E r \in active : /\ home[r] = s
                          /\ r = view[s].run \/ r \in during[view[s].run]

\* The run panel shows steps of its own run, and of the runs that went on when that
\* began.  Events of a run that was cancelled before go on coming and show nothing.
StepsAreOwn ==
    \A s \in Sessions : \A x \in view[s].steps :
        x.run = view[s].run \/ x.run \in during[view[s].run]

\* The session list and the run panel agree on which session is running, from the
\* next message that is sent alone on also after messages that crossed.  Whatever
\* crosses, the list calls no session running of which no run goes on.
StoresAgree ==
    \A s \in Sessions :
        /\ Alone(s) => (chat[s] = "running" <=> view[s].status = "running")
        /\ chat[s] = "running" => \E r \in active : home[r] = s

\* The transport lets no run hang, whenever it is cancelled, and when a run is over
\* none of its steps is shown as running.
RunsEnd ==
    \A r \in Runs : phase[r] \in Live ~>
        phase[r] = "over" /\ \A s \in Sessions : \A x \in view[s].steps :
                                 x.run = r => x.status # "running"
===============================================================================
