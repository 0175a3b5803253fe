--------------------------- MODULE ScheduleExecution ---------------------------
(***************************************************************************)
(* ScheduleExecutionService and the three JSON stores it writes            *)
(* (SchedulerService.ts, ScheduleStateService.ts).  A due schedule becomes *)
(* a pending item; the popup confirms or dismisses the items it shows; a   *)
(* confirmed snapshot is executed item by item; every change of the        *)
(* pending items is announced to the popup as an overview.                 *)
(*                                                                         *)
(* Every invocation of onScheduleDue, confirmAll or dismissAll is a call:  *)
(* a process whose label pc[c] names the await it is suspended at.  A      *)
(* store runs its operations one after another in the order they were      *)
(* requested (serialize), so a label of a store operation also stands in   *)
(* the queue of that store.  One step is one resumption: the operation or  *)
(* the external call the process waits for takes effect and the code runs  *)
(* on to the next await.                                                   *)
(***************************************************************************)
EXTENDS Naturals, Sequences, FiniteSets

CONSTANTS
    Calls,        \* identities of the invocations in flight
    Schedules,    \* identities of schedules, configured or once configured
    MaxItems,     \* bound: items that become due
    MaxCommands,  \* bound: confirmations and dismissals received
    MaxFaults,    \* bound: failed writes, failed host calls and restarts
    ScheduleOf,   \* the schedule of an item
    RequestedAt   \* the due time of an item; several items may share one

Items == 1 .. MaxItems

ASSUME ScheduleExecutionAssumption ==
    /\ MaxItems \in Nat /\ MaxCommands \in Nat /\ MaxFaults \in Nat
    /\ ScheduleOf \in [Items -> Schedules]
    /\ RequestedAt \in [Items -> Nat]

Outcomes == {"completed", "failed", "skipped"}
Statuses == {"none", "pending", "confirmed", "running"} \cup Outcomes
LastStatuses == {"idle"} \cup Outcomes

Stores == {"pendingExecutions", "runtime", "runRecords"}

\* The labels at which a call waits for an operation of each store.
OperationsOf ==
    [ pendingExecutions |-> {"add", "lookup", "confirm", "run", "settle",
                             "skip", "overview"},
      runtime           |-> {"touch", "outcome", "skipStatus"},
      runRecords        |-> {"append", "skipRecord"} ]

\* The labels at which it waits for the host or for the skill engine.
Externals == {"skill", "publish", "open"}

Labels == {"idle"} \cup Externals \cup UNION {OperationsOf[s] : s \in Stores}

\* The labels inside the try block of confirmAll.
LoopLabels == {"run", "skill", "settle", "outcome", "append"}

VARIABLES
    due,         \* number of due events so far; item k is the k-th
    known,       \* schedules of the running configuration
    status,      \* pending store: the status of every item
    lastStatus,  \* runtime store: lastStatus of every schedule
    records,     \* run record store: number of records per item and outcome
    executing,   \* ScheduleExecutionService.executing
    overview,    \* the pending items of the overview last sent to the popup
    queue,       \* per store: the calls waiting for it, in order
    pc,          \* the await a call is suspended at
    named,       \* the executionIds a call was given
    todo,        \* the items a call has still to execute or to record
    result,      \* outcome of the skill run of a call
    seen,        \* the overview a call read and is announcing
    confirming,  \* calls that announce the confirmation, not yet its end
    commands,    \* confirmations and dismissals received so far
    faults       \* failures and restarts so far

stores == <<status, lastStatus, records>>
locals == <<named, todo, result, seen, confirming>>
vars == <<due, known, stores, executing, overview, queue, pc, locals,
          commands, faults>>

-------------------------------------------------------------------------------

Pending == {i \in Items : status[i] = "pending"}
Stored(S) == {i \in S : status[i] # "none"}

\* Waiting for a store operation is standing in the queue of that store.
WaitAt(q, c, label) ==
    [s \in Stores |-> IF label \in OperationsOf[s] THEN Append(q[s], c) ELSE q[s]]

\* The await of c at `label` is over: its operation is at the head of the
\* store's queue, or the external call answered.
Resumes(c, label) ==
    /\ pc[c] = label
    /\ \A s \in Stores : label \in OperationsOf[s] => queue[s] # <<>> /\ Head(queue[s]) = c

Served(label) ==
    [s \in Stores |-> IF label \in OperationsOf[s] /\ queue[s] # <<>>
                      THEN Tail(queue[s]) ELSE queue[s]]

\* c is resumed at `label` and runs on to its await at `next`.
Goto(c, label, next) ==
    /\ pc' = [pc EXCEPT ![c] = next]
    /\ queue' = WaitAt(Served(label), c, next)

\* c returns: nothing of it is left.
Return(c, label) ==
    /\ Goto(c, label, "idle")
    /\ named' = [named EXCEPT ![c] = {}]
    /\ todo' = [todo EXCEPT ![c] = {}]
    /\ seen' = [seen EXCEPT ![c] = {}]
    /\ result' = [result EXCEPT ![c] = "failed"]
    /\ confirming' = confirming \ {c}

\* confirmAll executes by requestedAt, items of the same time in the order of
\* the store; dismissAll records in the order of the store.
Before(i, j) == \/ RequestedAt[i] < RequestedAt[j]
                \/ RequestedAt[i] = RequestedAt[j] /\ i <= j
NextToRun(i, S) == i \in S /\ \A j \in S : Before(i, j)
NextToSkip(i, S) == i \in S /\ \A j \in S : i <= j

SetStatus(S, new) == status' = [i \in Items |-> IF i \in S THEN new ELSE status[i]]
AddRecord(i, o) == records' = [records EXCEPT ![i][o] = @ + 1]

Init ==
    /\ due = 0
    /\ known \in SUBSET Schedules
    /\ status = [i \in Items |-> "none"]
    /\ lastStatus = [s \in Schedules |-> "idle"]
    /\ records = [i \in Items |-> [o \in Outcomes |-> 0]]
    /\ executing = FALSE
    /\ overview = {}
    /\ queue = [s \in Stores |-> <<>>]
    /\ pc = [c \in Calls |-> "idle"]
    /\ named = [c \in Calls |-> {}]
    /\ todo = [c \in Calls |-> {}]
    /\ result = [c \in Calls |-> "failed"]
    /\ seen = [c \in Calls |-> {}]
    /\ confirming = {}
    /\ commands = 0
    /\ faults = 0

-------------------------------------------------------------------------------
(* onScheduleDue: the timer or a manual trigger makes a schedule due.        *)

Due(c) ==
    /\ pc[c] = "idle"
    /\ due < MaxItems
    /\ ScheduleOf[due + 1] \in known
    /\ due' = due + 1
    /\ named' = [named EXCEPT ![c] = {due + 1}]
    /\ Goto(c, "idle", "add")
    /\ UNCHANGED <<known, stores, executing, overview, todo, result, seen,
                   confirming, commands, faults>>

Add(c) ==
    /\ Resumes(c, "add")
    /\ SetStatus(named[c], "pending")
    /\ Goto(c, "add", "touch")
    /\ UNCHANGED <<due, known, lastStatus, records, executing, overview, locals,
                   commands, faults>>

\* lastTriggeredAt is written; `executing` is read after that await.
Touch(c) ==
    /\ Resumes(c, "touch")
    /\ IF executing
       THEN Return(c, "touch")
       ELSE Goto(c, "touch", "overview") /\ UNCHANGED locals
    /\ UNCHANGED <<due, known, stores, executing, overview, commands, faults>>

-------------------------------------------------------------------------------
(* confirmAll                                                                *)

ReceiveConfirm(c, ids) ==
    /\ pc[c] = "idle"
    /\ commands < MaxCommands
    /\ commands' = commands + 1
    /\ named' = [named EXCEPT ![c] = ids]
    /\ Goto(c, "idle", "lookup")
    /\ UNCHANGED <<due, known, stores, executing, overview, todo, result, seen,
                   confirming, faults>>

Lookup(c) ==
    /\ Resumes(c, "lookup")
    /\ LET snapshot == named[c] \cap Pending IN
         IF snapshot = {}
         THEN Return(c, "lookup")
         ELSE /\ todo' = [todo EXCEPT ![c] = snapshot]
              /\ Goto(c, "lookup", "confirm")
              /\ UNCHANGED <<named, result, seen, confirming>>
    /\ UNCHANGED <<due, known, stores, executing, overview, commands, faults>>

Confirm(c) ==
    /\ Resumes(c, "confirm")
    /\ SetStatus(todo[c], "confirmed")
    /\ confirming' = confirming \cup {c}
    /\ Goto(c, "confirm", "overview")
    /\ UNCHANGED <<due, known, lastStatus, records, executing, overview, named,
                   todo, result, seen, commands, faults>>

Run(c) ==
    /\ Resumes(c, "run")
    /\ \E i \in Items :
         /\ NextToRun(i, todo[c])
         /\ SetStatus({i}, "running")
         /\ IF ScheduleOf[i] \in known
            THEN Goto(c, "run", "skill") /\ UNCHANGED result
            ELSE /\ Goto(c, "run", "settle")
                 /\ result' = [result EXCEPT ![c] = "failed"]
    /\ UNCHANGED <<due, known, lastStatus, records, executing, overview, named,
                   todo, seen, confirming, commands, faults>>

\* The skill is over, well or badly; a skill that does not exist fails.
Skill(c) ==
    /\ Resumes(c, "skill")
    /\ \E r \in {"completed", "failed"} : result' = [result EXCEPT ![c] = r]
    /\ Goto(c, "skill", "settle")
    /\ UNCHANGED <<due, known, stores, executing, overview, named, todo, seen,
                   confirming, commands, faults>>

\* Mutant of Settle: a failed item is left as it is.
SettleCompletedOnly(c) ==
    /\ Resumes(c, "settle")
    /\ \E i \in Items :
         /\ NextToRun(i, todo[c])
         /\ SetStatus(IF result[c] = "completed" THEN {i} ELSE {}, result[c])
    /\ Goto(c, "settle", "outcome")
    /\ UNCHANGED <<due, known, lastStatus, records, executing, overview, locals,
                   commands, faults>>

Settle(c) ==
    /\ Resumes(c, "settle")
    /\ \E i \in Items : NextToRun(i, todo[c]) /\ SetStatus({i}, result[c])
    /\ Goto(c, "settle", "outcome")
    /\ UNCHANGED <<due, known, lastStatus, records, executing, overview, locals,
                   commands, faults>>

Outcome(c) ==
    /\ Resumes(c, "outcome")
    /\ \E i \in Items :
         /\ NextToRun(i, todo[c])
         /\ lastStatus' = [lastStatus EXCEPT ![ScheduleOf[i]] = result[c]]
    /\ Goto(c, "outcome", "append")
    /\ UNCHANGED <<due, known, status, records, executing, overview, locals,
                   commands, faults>>

\* Mutant of AppendRecord: the end of the loop is not announced.
AppendRecordSilently(c) ==
    /\ Resumes(c, "append")
    /\ \E i \in Items :
         /\ NextToRun(i, todo[c])
         /\ AddRecord(i, result[c])
         /\ IF todo[c] = {i}
            THEN executing' = FALSE /\ Return(c, "append")
            ELSE /\ todo' = [todo EXCEPT ![c] = @ \ {i}]
                 /\ Goto(c, "append", "run")
                 /\ UNCHANGED <<executing, named, result, seen, confirming>>
    /\ UNCHANGED <<due, known, status, lastStatus, overview, commands, faults>>

\* Mutant of AppendRecord: a failed item ends the loop.
AppendRecordStopping(c) ==
    /\ Resumes(c, "append")
    /\ \E i \in Items :
         /\ NextToRun(i, todo[c])
         /\ AddRecord(i, result[c])
         /\ todo' = [todo EXCEPT ![c] = @ \ {i}]
         /\ IF todo[c] = {i} \/ result[c] = "failed"
            THEN executing' = FALSE /\ Goto(c, "append", "overview")
            ELSE UNCHANGED executing /\ Goto(c, "append", "run")
    /\ UNCHANGED <<due, known, status, lastStatus, overview, named, result, seen,
                   confirming, commands, faults>>

\* The record is written; the loop goes on with the next item, or the finally
\* block clears `executing` and announces what is pending now.
AppendRecord(c) ==
    /\ Resumes(c, "append")
    /\ \E i \in Items :
         /\ NextToRun(i, todo[c])
         /\ AddRecord(i, result[c])
         /\ todo' = [todo EXCEPT ![c] = @ \ {i}]
         /\ IF todo[c] = {i}
            THEN executing' = FALSE /\ Goto(c, "append", "overview")
            ELSE UNCHANGED executing /\ Goto(c, "append", "run")
    /\ UNCHANGED <<due, known, status, lastStatus, overview, named, result, seen,
                   confirming, commands, faults>>

-------------------------------------------------------------------------------
(* dismissAll                                                                *)

ReceiveDismiss(c, ids) ==
    /\ pc[c] = "idle"
    /\ commands < MaxCommands
    /\ commands' = commands + 1
    /\ named' = [named EXCEPT ![c] = ids]
    /\ Goto(c, "idle", "skip")
    /\ UNCHANGED <<due, known, stores, executing, overview, todo, result, seen,
                   confirming, faults>>

\* updateStatus does not look at the status an item has.
Skip(c) ==
    /\ Resumes(c, "skip")
    /\ LET items == Stored(named[c]) IN
         /\ SetStatus(items, "skipped")
         /\ todo' = [todo EXCEPT ![c] = items]
         /\ Goto(c, "skip", IF items = {} THEN "overview" ELSE "skipStatus")
    /\ UNCHANGED <<due, known, lastStatus, records, executing, overview, named,
                   result, seen, confirming, commands, faults>>

SkipStatus(c) ==
    /\ Resumes(c, "skipStatus")
    /\ \E i \in Items :
         /\ NextToSkip(i, todo[c])
         /\ lastStatus' = [lastStatus EXCEPT ![ScheduleOf[i]] = "skipped"]
    /\ Goto(c, "skipStatus", "skipRecord")
    /\ UNCHANGED <<due, known, status, records, executing, overview, locals,
                   commands, faults>>

\* Mutant of SkipRecord: only the first item is recorded.
SkipRecordOnce(c) ==
    /\ Resumes(c, "skipRecord")
    /\ \E i \in Items : NextToSkip(i, todo[c]) /\ AddRecord(i, "skipped")
    /\ todo' = [todo EXCEPT ![c] = {}]
    /\ Goto(c, "skipRecord", "overview")
    /\ UNCHANGED <<due, known, status, lastStatus, executing, overview, named,
                   result, seen, confirming, commands, faults>>

SkipRecord(c) ==
    /\ Resumes(c, "skipRecord")
    /\ \E i \in Items :
         /\ NextToSkip(i, todo[c])
         /\ AddRecord(i, "skipped")
         /\ todo' = [todo EXCEPT ![c] = @ \ {i}]
         /\ Goto(c, "skipRecord", IF todo[c] = {i} THEN "overview" ELSE "skipStatus")
    /\ UNCHANGED <<due, known, status, lastStatus, executing, overview, named,
                   result, seen, confirming, commands, faults>>

-------------------------------------------------------------------------------
(* notifyPendingOverview: read the overview, send it to the popup, and open  *)
(* the popup window unless nothing is pending.                               *)

GetPendingOverview(c) ==
    /\ Resumes(c, "overview")
    /\ overview' = Pending
    /\ seen' = [seen EXCEPT ![c] = Pending]
    /\ Goto(c, "overview", "publish")
    /\ UNCHANGED <<due, known, stores, executing, named, todo, result,
                   confirming, commands, faults>>

\* Mutant of AfterNotify: `executing` is not looked at.
AfterNotifyUnguarded(c, label) ==
    IF c \in confirming
    THEN /\ executing' = TRUE
         /\ confirming' = confirming \ {c}
         /\ seen' = [seen EXCEPT ![c] = {}]
         /\ Goto(c, label, "run")
         /\ UNCHANGED <<named, todo, result>>
    ELSE Return(c, label) /\ UNCHANGED executing

\* The code after the announcement: confirmAll enters its loop unless another
\* call is executing; everything else returns.
AfterNotify(c, label) ==
    IF c \in confirming /\ ~executing
    THEN /\ executing' = TRUE
         /\ confirming' = confirming \ {c}
         /\ seen' = [seen EXCEPT ![c] = {}]
         /\ Goto(c, label, "run")
         /\ UNCHANGED <<named, todo, result>>
    ELSE Return(c, label) /\ UNCHANGED executing

Published(c) ==
    /\ Resumes(c, "publish")
    /\ IF seen[c] # {}
       THEN Goto(c, "publish", "open") /\ UNCHANGED <<executing, locals>>
       ELSE AfterNotify(c, "publish")
    /\ UNCHANGED <<due, known, stores, overview, commands, faults>>

Opened(c) ==
    /\ Resumes(c, "open")
    /\ AfterNotify(c, "open")
    /\ UNCHANGED <<due, known, stores, overview, commands, faults>>

-------------------------------------------------------------------------------
(* A write or a call of the host fails: the exception ends the call, through *)
(* the finally block when it is inside the loop.                             *)

Fallible == (LoopLabels \ {"skill"})
            \cup {"add", "touch", "confirm", "skip", "skipStatus", "skipRecord",
                  "publish", "open"}

Fail(c) ==
    /\ faults < MaxFaults
    /\ faults' = faults + 1
    /\ \E label \in Fallible :
         /\ Resumes(c, label)
         /\ IF label \in LoopLabels
            THEN /\ executing' = FALSE
                 /\ todo' = [todo EXCEPT ![c] = {}]
                 /\ Goto(c, label, "overview")
                 /\ UNCHANGED <<named, result, seen, confirming>>
            ELSE Return(c, label) /\ UNCHANGED executing
    /\ UNCHANGED <<due, known, stores, overview, commands>>

\* The subprocess dies and boots, perhaps with another configuration: the
\* stores survive, every call in flight is gone, nothing is announced.
Restart(configured) ==
    /\ faults < MaxFaults
    /\ faults' = faults + 1
    /\ known' = configured
    /\ executing' = FALSE
    /\ queue' = [s \in Stores |-> <<>>]
    /\ pc' = [c \in Calls |-> "idle"]
    /\ named' = [c \in Calls |-> {}]
    /\ todo' = [c \in Calls |-> {}]
    /\ result' = [c \in Calls |-> "failed"]
    /\ seen' = [c \in Calls |-> {}]
    /\ confirming' = {}
    /\ UNCHANGED <<due, stores, overview, commands>>

-------------------------------------------------------------------------------

Step(c) ==
    \/ Add(c) \/ Touch(c)
    \/ Lookup(c) \/ Confirm(c) \/ Run(c) \/ Skill(c) \/ Settle(c) \/ Outcome(c)
    \/ AppendRecord(c)
    \/ Skip(c) \/ SkipStatus(c) \/ SkipRecord(c)
    \/ GetPendingOverview(c) \/ Published(c) \/ Opened(c)

Request(c) ==
    \/ Due(c)
    \/ \E ids \in SUBSET (1 .. due) : ReceiveConfirm(c, ids) \/ ReceiveDismiss(c, ids)

Next ==
    \/ \E c \in Calls : Step(c) \/ Request(c) \/ Fail(c)
    \/ \E configured \in SUBSET Schedules : Restart(configured)

Spec == Init /\ [][Next]_vars

\* The event loop runs every continuation whose await is over, and the host
\* and the skill engine (every tool call has a timeout) answer.
Fairness == \A c \in Calls : WF_vars(Step(c))
FairSpec == Spec /\ Fairness
-------------------------------------------------------------------------------
(* Properties                                                                *)

TypeOK ==
    /\ due \in 0 .. MaxItems
    /\ known \in SUBSET Schedules
    /\ status \in [Items -> Statuses]
    /\ lastStatus \in [Schedules -> LastStatuses]
    /\ records \in [Items -> [Outcomes -> Nat]]
    /\ executing \in BOOLEAN
    /\ overview \in SUBSET Items
    /\ queue \in [Stores -> Seq(Calls)]
    /\ pc \in [Calls -> Labels]
    /\ named \in [Calls -> SUBSET Items]
    /\ todo \in [Calls -> SUBSET Items]
    /\ result \in [Calls -> {"completed", "failed"}]
    /\ seen \in [Calls -> SUBSET Items]
    /\ confirming \in SUBSET Calls
    /\ commands \in 0 .. MaxCommands
    /\ faults \in 0 .. MaxFaults

InLoop == {c \in Calls : pc[c] \in LoopLabels}

\* `executing` is read and set on both sides of awaits, without a lock.  It is
\* nevertheless true exactly while one call is inside the try block, and never
\* two are: a failure in the loop and a restart included.
OneExecutor ==
    /\ executing <=> InLoop # {}
    /\ \A c, d \in InLoop : c = d

\* Confirmed items are executed one at a time: an item that is "running" is the
\* one the loop works on.  (After a failed write or a restart an item may stay
\* "running" for good.)
RunningIsExecuted ==
    faults = 0 =>
        \A i \in Items : status[i] = "running" =>
            \E c \in Calls : pc[c] \in {"skill", "settle"} /\ NextToRun(i, todo[c])

\* The calls that will still read and announce the pending items.
AnnouncingLabels == LoopLabels \cup {"touch", "overview", "skipStatus", "skipRecord"}
Announcing == {c \in Calls : pc[c] \in AnnouncingLabels}

\* The popup is never left with an old picture: whenever the overview sent last
\* differs from what is pending, some call still has to send one.  The item that
\* becomes due while a confirmed snapshot runs is not announced by its own call
\* and depends on the finally block of the other one.
OverviewIsOwed ==
    faults = 0 /\ overview # Pending => Announcing # {}

\* No outcome gets lost: an item whose stored status is an outcome has a run
\* record with that outcome, or the call that is about to write it exists.
\* Two calls may settle the same item; neither makes the other's record vanish.
RecordIsOwed ==
    faults = 0 =>
        \A i \in Items : status[i] \in Outcomes =>
            \/ records[i][status[i]] > 0
            \/ \E c \in Calls :
                 \/ /\ pc[c] \in {"outcome", "append"}
                    /\ result[c] = status[i] /\ NextToRun(i, todo[c])
                 \/ /\ pc[c] \in {"skipStatus", "skipRecord"}
                    /\ status[i] = "skipped" /\ i \in todo[c]

\* A failed item does not stop the ones behind it: every item of a snapshot the
\* loop has started on gets a run record of its execution, unless an await fails.
SnapshotIsExecuted ==
    \A i \in Items :
        (\E c \in InLoop : i \in todo[c])
            ~> (records[i]["completed"] + records[i]["failed"] > 0 \/ faults > 0)
===============================================================================
