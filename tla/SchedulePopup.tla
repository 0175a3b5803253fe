----------------------------- MODULE SchedulePopup -----------------------------
(***************************************************************************)
(* The confirmation popup (pages/Popup) composed with the execution        *)
(* service.  Overviews travel to the popup window and commands travel back *)
(* over the host's window bridge, each in the order sent.  The popup keeps *)
(* a store, updated by every overview, and a React view of it, which is    *)
(* taken when the page is mounted and when the sending of a command is     *)
(* over, and at no other time.  The host answers the calls of the service  *)
(* (publish, open) one after another, in the order they were made.         *)
(***************************************************************************)
EXTENDS ScheduleExecution

CONSTANT ReloadOnOpen  \* does opening an open window load its page again?

ASSUME SchedulePopupAssumption == ReloadOnOpen \in BOOLEAN

VARIABLES
    host,     \* the calls of the service waiting for the host, in order
    window,   \* the popup window exists
    inbox,    \* overviews on their way to the popup
    mode,     \* PopupExecutionStore: the mode
    shown,    \* and the items of its overview
    view,     \* the state the React component rendered last
    sent,     \* commands on their way to the service
    unacked   \* commands whose sending is not over for the page

popupVars == <<host, window, inbox, mode, shown, view, sent, unacked>>
allVars == <<vars, popupVars>>

PopupInit ==
    /\ Init
    /\ known = Schedules
    /\ host = <<>>
    /\ window = FALSE
    /\ inbox = <<>>
    /\ mode = "hidden" /\ shown = {}
    /\ view = [mode |-> "hidden", items |-> {}]
    /\ sent = <<>>
    /\ unacked = 0

\* applyOverview: whatever the mode was, the overview decides.
ApplyOverview(items) ==
    /\ mode' = IF items = {} THEN "hidden" ELSE "pending"
    /\ shown' = items

\* The overview is sent to a window that may not exist yet.
SendOverview(c) ==
    /\ GetPendingOverview(c)
    /\ host' = Append(host, c)
    /\ inbox' = IF window THEN Append(inbox, Pending) ELSE inbox
    /\ UNCHANGED <<window, mode, shown, view, sent, unacked>>

\* The host took the message; with something pending it is asked for the window.
OverviewSent(c) ==
    /\ host # <<>> /\ Head(host) = c
    /\ Published(c)
    /\ host' = IF pc'[c] = "open" THEN Append(Tail(host), c) ELSE Tail(host)
    /\ UNCHANGED <<window, inbox, mode, shown, view, sent, unacked>>

\* Mutant of OpenWindow: the page does not read the data it is opened with.
OpenWindowBlank(c) ==
    /\ host # <<>> /\ Head(host) = c
    /\ Opened(c)
    /\ host' = Tail(host)
    /\ window' = TRUE
    /\ IF window /\ ~ReloadOnOpen
       THEN UNCHANGED <<mode, shown, view, unacked>>
       ELSE /\ mode' = "hidden" /\ shown' = {}
            /\ view' = [mode |-> mode', items |-> shown']
            /\ unacked' = 0
    /\ UNCHANGED <<inbox, sent>>

\* The window is opened with the overview its call carries: a page is mounted
\* and hydrated, unless the window exists and the host leaves its page alone.
OpenWindow(c) ==
    /\ host # <<>> /\ Head(host) = c
    /\ Opened(c)
    /\ host' = Tail(host)
    /\ window' = TRUE
    /\ IF window /\ ~ReloadOnOpen
       THEN UNCHANGED <<mode, shown, view, unacked>>
       ELSE /\ ApplyOverview(seen[c])
            /\ view' = [mode |-> mode', items |-> shown']
            /\ unacked' = 0
    /\ UNCHANGED <<inbox, sent>>

ServiceStep(c) ==
    \/ SendOverview(c)
    \/ OverviewSent(c)
    \/ OpenWindow(c)
    \/ /\ \/ Add(c) \/ Touch(c)
          \/ Lookup(c) \/ Confirm(c) \/ Run(c) \/ Skill(c) \/ Settle(c)
          \/ Outcome(c) \/ AppendRecord(c)
          \/ Skip(c) \/ SkipStatus(c) \/ SkipRecord(c)
       /\ UNCHANGED popupVars

ScheduleDue(c) == Due(c) /\ UNCHANGED popupVars

ReceiveOverview ==
    /\ inbox # <<>>
    /\ inbox' = Tail(inbox)
    /\ ApplyOverview(Head(inbox))
    /\ UNCHANGED <<vars, host, window, view, sent, unacked>>

\* Bound: the clicks of the user are the commands the service may receive.
CanClick == /\ view.mode = "pending"
            /\ commands + Len(sent) < MaxCommands

\* A button acts on the items of the store, not on those of the view.
Click(command) ==
    /\ CanClick
    /\ sent' = Append(sent, [kind |-> command, ids |-> shown])
    /\ unacked' = unacked + 1
    /\ UNCHANGED <<vars, host, window, inbox, view>>

ConfirmClick == Click("confirm") /\ mode' = "executing" /\ UNCHANGED shown
DismissClick == Click("dismiss") /\ mode' = "hidden" /\ shown' = {}

Deliver(c) ==
    /\ sent # <<>>
    /\ \/ Head(sent).kind = "confirm" /\ ReceiveConfirm(c, Head(sent).ids)
       \/ Head(sent).kind = "dismiss" /\ ReceiveDismiss(c, Head(sent).ids)
    /\ sent' = Tail(sent)
    /\ UNCHANGED <<host, window, inbox, mode, shown, view, unacked>>

\* The promise of a send resolves and the component takes the state as it is.
SendOver ==
    /\ unacked > 0
    /\ unacked' = unacked - 1
    /\ view' = [mode |-> mode, items |-> shown]
    /\ UNCHANGED <<vars, host, window, inbox, mode, shown, sent>>

PopupNext ==
    \/ \E c \in Calls : ServiceStep(c) \/ ScheduleDue(c) \/ Deliver(c)
    \/ ReceiveOverview \/ ConfirmClick \/ DismissClick \/ SendOver

PopupSpec == PopupInit /\ [][PopupNext]_allVars

\* As in ScheduleExecution, and the bridge delivers; the user need not click.
PopupFairness ==
    /\ \A c \in Calls : WF_allVars(ServiceStep(c)) /\ WF_allVars(Deliver(c))
    /\ WF_allVars(ReceiveOverview)
    /\ WF_allVars(SendOver)
PopupFairSpec == PopupSpec /\ PopupFairness

-------------------------------------------------------------------------------
(* Properties                                                                *)

\* No call, no message and no promise is left: only the user or a due event
\* can make something happen.
AtRest == /\ \A c \in Calls : pc[c] = "idle"
          /\ inbox = <<>> /\ sent = <<>> /\ unacked = 0

\* What becomes due reaches the popup, through the message or through the init
\* data of the page, whatever the user does and whatever runs meanwhile.
DueReachesPopup ==
    \A i \in Items : status[i] = "pending" ~> (i \in shown \/ status[i] # "pending")

\* However overviews, commands and openings cross: when all is at rest and something is
\* pending, the store of the popup asks for all of it and nothing else.
PopupIsCurrent == AtRest /\ Pending # {} => mode = "pending" /\ shown = Pending

\* Confirmed items are executed: at rest none is still waiting.
\* (discussion-decisions.md:87)
ConfirmedAreExecuted == AtRest => \A i \in Items : status[i] # "confirmed"
===============================================================================
