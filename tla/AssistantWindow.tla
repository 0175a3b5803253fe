---------------------------- MODULE AssistantWindow ----------------------------
(***************************************************************************)
(* The assistant window around the runs of ChatRun: which session it shows *)
(* and sends in, the messages each session shows, and the snapshot the chat*)
(* client keeps of each session's stream.  Every event of a run is applied *)
(* to the snapshot first and then to the stores, in one step               *)
(* (applyAssistantWindowEvent); local messages go to the chat store alone. *)
(*                                                                         *)
(* Drafts are one session, the Draft of ChatRun: none keeps a message.     *)
(***************************************************************************)
EXTENDS ChatRun, SequencesExt

VARIABLES
    shown,     \* activeSessionId of the chat store
    log,       \* the messages of a session, each of the run it was shown for
    snapshot   \* the chat client's snapshot of a session's stream

windowVars == <<vars, shown, log, snapshot>>

NoSnapshot == [run |-> 0, status |-> "idle", steps |-> 0]

WindowInit ==
    /\ Init
    /\ shown = Draft
    /\ log = [s \in Sessions |-> <<>>]
    /\ snapshot = [s \in Sessions |-> NoSnapshot]

-------------------------------------------------------------------------------
(* What an event of run r changes                                            *)

Shows(r, s, kind) == log' = [log EXCEPT ![s] = Append(@, [run |-> r, kind |-> kind])]

\* The snapshot takes the run of every event for its own.
Snap(r, s, status, steps) ==
    snapshot' = [snapshot EXCEPT ![s] = [run |-> r, status |-> status, steps |-> steps]]

\* A text of the assistant replaces the one before, where that is shown.
ShowsAnswer(r) ==
    IF answer[r] = "none" THEN Shows(r, home[r], "answer") ELSE UNCHANGED log

StepsTaken(s) == snapshot[s].steps

\* Mutant of SnapStepFinished: a run goes on after a step that succeeded.
SnapStepFinishedRunning(r, s) ==
    Snap(r, s, IF isError[r] THEN "failed" ELSE "running", StepsTaken(s))

SnapStepFinished(r, s) ==
    Snap(r, s, IF isError[r] THEN "failed" ELSE snapshot[s].status, StepsTaken(s))

-------------------------------------------------------------------------------
(* What the user does                                                        *)

Select(s) ==
    /\ s \in sessions /\ s # shown
    /\ shown' = s
    /\ UNCHANGED <<vars, log, snapshot>>

\* The question is shown in the session it is sent in before the run starts.
Send(r) ==
    /\ SendMessage(r, shown)
    /\ IF shown = Draft
       THEN UNCHANGED <<log, snapshot>>
       ELSE Shows(r, shown, "question") /\ Snap(r, shown, "running", 0)
    /\ UNCHANGED shown

\* The window turns to the new session, whatever it shows by then.
SendCreated(r) ==
    /\ Created(r)
    /\ shown' = r
    /\ Shows(r, r, "question") /\ Snap(r, r, "running", 0)

Abort ==
    /\ CancelRun(shown)
    /\ LET r == view[shown].run IN
       Shows(r, shown, "cancelled") /\ Snap(r, shown, "cancelled", StepsTaken(shown))
    /\ UNCHANGED shown

-------------------------------------------------------------------------------
(* The events of a run's stream                                              *)

Text(r) ==
    /\ StreamText(r)
    /\ ShowsAnswer(r) /\ Snap(r, home[r], "running", StepsTaken(home[r]))
    /\ UNCHANGED shown

\* What the service executed is shown if there is a card for its output.
Action(r) ==
    /\ StreamAction(r)
    /\ \/ Shows(r, home[r], "tool") /\ phase'[r] # "tool"
       \/ UNCHANGED log
    /\ Snap(r, home[r], "running", StepsTaken(home[r]) + 1)
    /\ UNCHANGED shown

\* The result of a local tool is shown, that of a run which was cancelled too.
ToolAnswered(r) ==
    /\ ToolDone(r)
    /\ Shows(r, home[r], "tool")
    /\ UNCHANGED <<shown, snapshot>>

StepReported(r) ==
    /\ Reported(r)
    /\ SnapStepFinished(r, home[r])
    /\ UNCHANGED <<shown, log>>

Done(r) ==
    /\ StreamEnd(r)
    /\ ShowsAnswer(r) /\ Snap(r, home[r], "completed", StepsTaken(home[r]))
    /\ UNCHANGED shown

Failed(r) ==
    /\ RunFailed(r)
    /\ Shows(r, home[r], "failed") /\ Snap(r, home[r], "failed", StepsTaken(home[r]))
    /\ UNCHANGED shown

Silent(r) ==
    /\ CreateFailed(r) \/ Connected(r) \/ Stopped(r)
    /\ UNCHANGED <<shown, log, snapshot>>

-------------------------------------------------------------------------------

WindowNext ==
    \/ \E s \in Sessions : Select(s)
    \/ \E r \in Runs : Send(r) \/ SendCreated(r)
    \/ Abort
    \/ \E r \in Runs : Text(r) \/ Action(r) \/ ToolAnswered(r) \/ StepReported(r)
    \/ \E r \in Runs : Done(r) \/ Failed(r) \/ Silent(r)

\* The fairness is that of the runs; nothing makes the user do anything.
WindowSpec == WindowInit /\ [][WindowNext]_windowVars /\ Fairness

-------------------------------------------------------------------------------
(* Properties                                                                *)

\* The ends a session shows of a run: an answer that is done, or a system message.
EndsShown(r) ==
    LET own == {x \in ToSet(log[home[r]]) : x.run = r}
    IN ({x.kind : x \in own} \cap {"failed", "cancelled"})
       \cup (IF answer[r] = "done" THEN {"completed"} ELSE {})

InOrder(first, second) ==
    \/ first.run < second.run
    \/ /\ first.run = second.run
       /\ first.kind \notin {"failed", "cancelled"} /\ second.kind # "question"
    \/ second.kind = "tool" /\ second.run \in aborted
    \/ second.run \in during[first.run]

\* A session shows its turns one after the other, each with its question first and
\* with the one end that was uploaded.  Only the result of a tool that was called
\* before a cancellation comes after the end, perhaps after the next question, and
\* what a run says that still went on when the next question was sent.
\* The snapshot of a session does not say running when no run of it goes on.  It
\* counts every action of a run that began alone, and the panel shows no more steps
\* than it counts: fewer, where the service gives an id to two actions.
TurnsAreShown ==
    /\ \A r \in Runs : home[r] # Draft => EndsShown(r) = ToSet(uploads[r])
    /\ \A s \in Sessions : \A i, j \in DOMAIN log[s] :
          i < j => InOrder(log[s][i], log[s][j])
    /\ \A s \in Sessions :
          /\ snapshot[s].status = "running" => \E r \in active : home[r] = s
          /\ Cardinality(view[s].steps) <= snapshot[s].steps
          /\ \A r \in Runs : view[s].run = r /\ during[r] = {} =>
                                snapshot[s].steps = actions[r]
===============================================================================
