# A TLA+ model of yxz-agent

This directory holds a TLA+ model of yxz-agent (营小助), the model-checking
configurations (TLC) and machine-checked proofs (TLAPS) that go with it. The
reference is the code; line numbers are those of this commit. `PROJECT.json`
says for every definition which lines it models, for every property which run
checks it and which change of the code would break it, and lists the hazards
and the theorems.

## 1. The system

yxz-agent is an assistant on the desktop of a host application (开阳). It has a
resident **subprocess** (`src/subprocess/service`, one Node event loop, talks
to the windows over the host's message bridge, keeps its state in JSON files
of the host) and **windows** (`src/webapp`, React): the assistant window and
the confirmation popup. Schedules run skills: a schedule becomes due in the
subprocess, a pending item is stored, the popup asks, and what is confirmed is
executed. The assistant window talks to the model service itself and runs
local tools over MCP; an older path keeps conversations in the subprocess.

Nothing runs in parallel. Everything that can go wrong in an order nobody
tested happens **between two awaits**: handlers of messages, timer callbacks
and the continuations of file operations interleave freely, and there are no
locks but the chain of operations in each store.

### Components

| component | code | state | operations | talks to |
|---|---|---|---|---|
| schedule execution | `SchedulerService.ts` 166-331 | `executing`; pending items, runtime states and run records in three files | `onScheduleDue`, `confirmAll`, `dismissAll`, `enableSchedule`, `disableSchedule` | stores, popup, skill engine |
| schedule timers | `SchedulerService.ts` 91-164 | `jobs`, one timer each | `register`, `unregister`, the callback, `stopAll` | execution (`onDue`), runtime store |
| schedule state stores | `ScheduleStateService.ts`, `rumJsJsonStore.ts` | a JSON file and a promise chain each | read, change, write the whole file; `serialize` | host files |
| subprocess channels | `ChannelService.ts` | none | receive requests of the windows, publish answers | all services |
| bootstrap | `bootstrap.ts` | the wired services | restore enabled schedules, start, stop | all services |
| DCF runtime | `DcfRuntimeService.ts` | window ids, user | open windows, publish to them | host |
| confirmation popup | `pages/Popup/index.tsx` | `PopupExecutionStore`, a React copy of it | overview, confirm all, dismiss all | execution, over the bridge |
| schedule store of the window | `schedule.store.ts`, `ScheduleEntry` | what is enabled | apply messages | timers, over the bridge |
| chat transport | `web-runtime-transport.ts`, `chat-client.ts`, `task-record-uploader.ts` | `activeRuns` with abort controllers | create session, send, cancel, stream actions, tool calls, upload | model service, MCP, stores |
| chat and run stores | `chat.store.ts`, `run.store.ts`, `chat-client.ts`, `ChatWorkspace/index.tsx` | the session that is shown, sessions and messages; one run with steps per session; a snapshot of each session's stream | apply events, select, send, cancel | transport, components |
| assistant sessions | `AssistantSessionService.ts` | session file, `activeRuns`, timers | create, send, cancel, timers of a run, fail | store, windows |
| local schedule engines | `LocalJsonScheduleEngine.ts`; `subprocess/schedule/local-json-schedule-engine.js`, a standalone runner | definitions with their jobs, states; the runner's history file | load, reload, enable, disable, stop; a timer's run, the append to the history | skill runners |
| MCP tool client | `mcpToolClient.ts`, `ToolRuntimeService.ts`, `browser-mcp-executor.ts` | the client in use and the one that connects; the session, its endpoint and stream | call, connect, post, retry, time out, close | MCP servers, over the SDK |
| skill script engine | `skillScript*.ts` | outputs, records and step count of one run | run steps, groups and loops, report, abort | tools, a listener |
| runtime events | `execution-layer/events` | subscribers, the last 1000 ids | publish, subscribe | notifications |
| the rest | parser, components, protocol, loaders, demo data, scripts | none of their own | | |

### What is hard here, and what correct means

* **Schedule execution.** `executing` is tested after awaits and set without a
  lock; an item that becomes due while another snapshot is executed leaves its
  announcement to the other call; a failed write may end a loop in the middle.
  Correct: one executor; a loop that started executes its whole snapshot;
  every outcome has its record; the popup is never left with an old picture.
* **Popup.** Overviews and commands cross on the bridge; a message to a window
  that is not there is lost; the component shows a copy of its store that is
  renewed at certain moments only. Correct: what is due gets to the popup, what
  is confirmed is executed.
* **Timers.** A callback holds its timer across awaits during which the user
  disables, enables or the process restarts; enabling itself has four awaits.
  Correct: one timer per schedule and only for an enabled one, the stored next
  time is the timer's, the callback does not undo the user's decision, a timer
  that fired is set again. In time: no drift beyond bounds, no lost match.
* **Stores.** Every operation rewrites the whole file; reads that fail are
  silent. Correct: the operations are atomic for all who use the store, none is
  held up by one that failed, and what was answered is in the file.
* **Local schedules.** Loading, commands and the end of a run each change jobs and
  states without regard for the others, and nothing keeps two appends to the history
  apart. Correct: what an engine says of a schedule is so, every timer can be cleared,
  what the history records is over, and a run is followed by the next timer or by its
  record.
* **Chat runs.** Cancelling, a failing stream and the answer of a local tool
  race; the run store holds one run per session and hears events of older ones.
  Messages and events reach a session that need not be the one the window shows, and
  three places keep a picture of each run. Correct: a run ends once; what is shown as
  running can be aborted; panels show their own steps; stores and snapshot agree; a
  session shows its turns in order, each with its end; nothing hangs.
* **Assistant sessions.** A run is a row of timers, each with awaits; cancelling
  may come between any two; sending writes the whole session back. Correct:
  nothing follows the end of a run; file and window agree on it; no message is
  lost; what is stored as running can be cancelled.
* **Skill scripts.** A step can fail, be skipped or be aborted inside groups and
  loops, and the listener that is told of it may reject. Correct: every step that
  was begun has its record, once and in the order of the steps; a failure ends the
  run; nothing is called after an abort; a step reads what was stored before it.
* **MCP connection.** Overlapping calls share a client and a session that exist only
  as promises; a session may be gone, a stream may end, a message is sent a second
  time, a timeout races its answer, and closing waits for the server. Correct: a call
  gets its own answer; one session serves all calls; a retry leaves the session that
  was gone; a call ends, however its connection fails.

## 2. The modules

| module | models | runs | proofs |
|---|---|---|---|
| `ScheduleExecution` | `ScheduleExecutionService` over its three stores | `execution` | `ScheduleExecution_proofs` |
| `SchedulePopup` (extends it) | popup window, bridge and DCF runtime around the service | `popup`, `popup_confirmed` | `ScheduleExecution_proofs` |
| `ScheduleTimer` | timers, enable/disable handlers, restore, window | `timer` | `ScheduleTimer_proofs` |
| `TriggerClock` | the times at which the timers fire | `clock` | `ScheduleTimer_proofs` |
| `AtomicStore` | what a store promises (abstract) | | |
| `JsonStore` | a service over `RumJsJsonStore`, implementing it | `store` | `JsonStore_proofs` |
| `LocalSchedule` | the two engines for local schedule files | `local` | `LocalSchedule_proofs` |
| `ChatRun` | transport, chat runs and run panels of the assistant window | (in `window`) | `ChatRun_proofs` |
| `AssistantWindow` (extends it) | the session shown, messages, snapshots | `window` | `ChatRun_proofs` |
| `SessionRuntime` | conversations of the subprocess | `session` | `SessionRuntime_proofs` |
| `SkillScript` | one run of the skill script engine | `script`, `script_outputs` | `SkillScript_proofs` |
| `McpTransport` | calls over one MCP connection | `mcp` | `McpTransport_proofs` |

`MC*` modules give model values and small instances. An operator called a
"mutant" in its comment is a plausible mistake in the code; it is defined beside
the operator it replaces and used by no specification.

### How code becomes actions

A handler, a timer callback or a call of a service is a *call* with a label,
the await it is suspended at. One action resumes one call: the awaited
operation takes effect and the code runs on to its next await, in one step, as
the event loop does. Guards are the conditions and early returns met on the way.

**Stores.** A label that is an operation of a store stands in that store's
queue; only the head of a queue can resume. That an operation may be one step,
although the code reads and writes the file in two, is what `JsonStore` shows
(and `StoreIsAtomic` proves): with its read and write as steps of their own it
implements `AtomicStore`. A failing write is a failing operation without effect;
the modules above the stores use that.

**ScheduleExecution.** `pc` names the await in `onScheduleDue` (add, touch,
overview, publish, open), `confirmAll` (lookup, confirm, overview, publish, open,
then run, skill, settle, outcome, append per item, and overview in `finally`) or
`dismissAll` (skip, skipStatus, skipRecord per item, overview). `Fail(c)` is a
rejected await with the `finally` block that follows it. `Restart` ends all
calls, keeps the files and may come up with other schedules configured. An item is
a number; its schedule and due time are given by constants.

**SchedulePopup.** Reuses the actions of the service, adds the host's FIFO for
publishing and opening, the messages under way in both directions, the store of
the popup and the copy React has rendered. `ReloadOnOpen` says whether opening a
window that exists loads its page again, which the repository does not settle:
`popup` assumes it, `popup_confirmed` does not need it.

**ScheduleTimer.** Requests to enable, disable and list, the timer callback and
the restoring loop of `bootstrap` are calls. Timers are numbered; a number is
also the stored `nextTriggerAt`. `Authorize` is the request that writes the
authorization file and answers at once. What the window hears of, and keeps in
`host` and `window`, is the state of the bootstrap, the authorization, and the
schedules. The window is open all the time, and its requests are not limited to
those its buttons allow: the routes of the DCF runtime bring them to the handlers
whatever the window shows. Which idle call serves a request makes no difference
(`Begins`). Time is left out, so a timer may fire at any moment: every race of a
callback is there.

**TriggerClock.** The same `register` with time in seconds and a cron expression
that matches the multiples of `Period`. A delay is counted from `currentDate`,
which the callback sets to one second after the nominal time; the timer starts
now. `Latency` bounds how late a callback begins and how long `onDue` takes.

**JsonStore.** `Read`, `ReadFails` (an error or text that cannot be parsed, both
swallowed), `Write`, `WriteFails`, `Crash`; the default value is one object that
operations change in place. Entries are named by the call that adds them; an
update of an entry is not distinguished from adding one. `lost` says that the store
has broken its promise: a read failed while there was a file, or a write failed before
there was one, so that its entry stays in the default value and later calls read it.
`AtomicStore` promises nothing after that, and everything until then.

**LocalSchedule.** `engine` says which of the two engines a behaviour is about; both
set and clear timers in the same way. A load registers what the file has enabled,
which is any set of schedules each time, and may end at a cron expression that throws.
A run is known by the timer that began it. The repeating engine registers the next
timer in the `finally` block of a run, whatever became of the schedule meanwhile; the
other one drops the job and appends to the history, reading, emptying and writing the
file as three steps that two appends may interleave. `history` is a set of at most one
set, so that `{}` is a file that cannot be parsed. Enabling needs the schedule's
definition, which is kept with its job.

**ChatRun.** A run passes `creating`, `fetch`, `stream`, `tool`, `report`, `over`.
Every event is applied to both stores in the step that publishes it (the
dispatch is synchronous). `CancelRun` aborts the controller, publishes and uploads
at once; the run notices when its own await ends. Session 0 is the draft. A message
may be sent while a run of its session goes on, as the button allows
(`ChatWorkspace/index.tsx:435`); `during`, a history variable, keeps for each run those
of its session that went on when it began, so that a property can say what a message
that was sent alone gets, and what is left when messages cross. The id of an action is
any of `CallIds`, the service's choice (`web-runtime-transport.ts:380`): it may be that of
an action before, of the same run or of another, whose step the store then replaces
(`run.store.ts:91`). That the transport makes up an id when there is none is the same
with an id that does not come again.

**AssistantWindow.** Reuses the actions of `ChatRun` and adds what else an event
changes: the messages of the session (`log`) and the chat client's snapshot, which
`applyAssistantWindowEvent` updates before the stores, in the same step. `Select` turns
to a session; sending and cancelling are about the one shown. Drafts are one session,
and their text is not modelled.

**SessionRuntime.** The awaits of a call are a list (`Awaits`), so that one pair of
actions (`Serve` for the store, `Answer`/`Finish` for publications) drives them
all. Callbacks of a run fire in the order of their delays; each is a thread of its
own, so that the second may begin while the first waits. `patient` is what the user
does, chosen at the start: wait for the end of a run before sending, or not; faults
happen only to a patient one.

**SkillScript.** A script is a tree: constants give each step its kind, tool, output,
what its parameters read and whether it has a condition or a delay. A step is a place in
the tree, so that none is at two places (`IsTree`, an assumption): two steps of one id
are two places, and it is `Valid`, the validator's walk, that refuses them. `stack` is the
engine's call stack, one frame per step under way with its path and loop counter; `at`
is the await. `Throw(code, left)` is an error on its way up: the innermost step of
`left` records it and tells the listener, after which `StepFailed` passes it on to the
step around it, until it reaches the run. Expressions come to any of their outcomes; an
output's value is the number of the tool call that made it, which is enough to tell an
old value from the last one. `Scope(Parent)` is what a step sees: `runtime.values`
itself, or the copy `executeForeachStep` makes for an iteration.

**McpTransport.** The two classes of `mcpToolClient.ts` under the SDK's `Client`. The
wrapper's `sdkClient` and `connectPromise` are client numbers; the transport's
`startPromise`, `messageUrl` and `sessionId` are session numbers, 0 for none. A message
(the `initialize` request of a client, its `initialized` note, a call) passes the awaits
of `sendWithRetry`: `starting`, `posting`, `sent` or `failed`, `Reset` leading back to
`starting` once. A session passes `requested`, `waiting` (for its endpoint), `open`, and
`ended`, `broken` (ended before its endpoint), `failed` or `silent`: its stream broke
before its endpoint but after the transport was closed, when nobody hears of it any more,
not even `start()` (`handleSseError`, `mcpToolClient.ts:414`; a stream that ends in order
rejects `start()` even then, 405). The SDK is external and modelled by what the code sees of it: each
`Client` numbers its requests from 0, its `connect` chains the handlers of the clients
before it, so that an answer goes to all of them and settles what waits with that number;
a failed `connect` closes the transport; when the transport closes all waiting requests
fail. The server answers in the body of the post or over the stream, or not at all.

## 3. The runs

All runs use small instances; `CHECK_DEADLOCK FALSE` is set because the system
rests when the bounds of its environment (requests, faults, messages) are used up.

| run | instance | shows |
|---|---|---|
| `execution` | 2 calls at a time, 2 items, 2 schedules (one perhaps unknown), 2 commands, 1 fault or restart; 218 000 states | `OneExecutor`, `RunningIsExecuted`, `OverviewIsOwed`, `RecordIsOwed`, `SnapshotIsExecuted` |
| `popup` | 2 calls, 2 items, 2 clicks; 216 000 states | `PopupIsCurrent`, `DueReachesPopup` |
| `popup_confirmed` | the same | **violated**: `ConfirmedAreExecuted` |
| `timer` | 3 calls, 1 schedule, 2 requests, 2 firings, 1 failure or restart; 772 000 states | `OneTimer`, `TimerIsEnabled`, `NextIsArmed`, `WindowAgrees`, `ReenabledOnRequest`, `FiredIsRearmed` |
| `window` | 2 messages, 2 actions in all with 2 ids, 3 sessions with the draft; 575 000 states | `OneEnd`, `RunningCanBeAborted`, `StepsAreOwn`, `StoresAgree`, `TurnsAreShown`, `RunsEnd` |
| `session` | 1 session, 2 runs that overlap or, for a user who waits, 1 fault or restart; 3.0 million states | `EndIsLast`, `RunningIsActive`, `ListIsOwed`, `EndsAgree`, `MessagesAreKept` |
| `clock` | period 3 s, latency 2 s, 16 s, 3 requests; 110 000 states | `DriftIsBounded`, `NoneIsSkipped` |
| `store` | 4 calls, 1 failing read, 2 failing writes, 1 crash, a file or none; 114 000 states | `DoneIsStored`, `ImplementsAtomicStore`, `CallsAreAnswered` |
| `local` | both engines, 2 schedules, 2 commands, 3 firings, 2 starts; 74 000 states | `StateIsTrue`, `RecordedIsOver`, `RunIsFollowedUp` |
| `script` | 6 scripts of up to 7 steps, up to 3 items, 2 rejected events, an abort; nesting up to 3, 7 expanded steps; 3 800 states | `StartedAreRecorded`, `FailureIsFinal`, `ReadsAreStored`, `AbortedCallsNothing` |
| `script_outputs` | a loop of two steps | **violated**: `OutputsCanBeRead` |
| `mcp` | 2 calls, 3 sessions (the last always refused), 2 faults; 837 000 states | `AnswersMatch`, `SessionIsShared`, `RetriedElsewhere`, `CallsEnd` |

**Why the bounds are enough.** The races are between pairs: a loop and a due
event or a second confirmation, a callback and a request, a cancellation and a
timer or tool. Two calls at a time, which are reused when they return, make every
pair; the timers have three, since enabling twice meets a callback. Two items are
needed for a snapshot with one behind the other, two runs for events of an old run
in a new one and for messages that cross, two actions for an id that comes again, in one
run or in two, four store calls for a chain with a failed operation in the middle. The
local engines have two schedules, since two appends clash, and three firings, which
lets two runs of one schedule overlap while the other's begins; the second start meets
the history the first has left. In `timer` a failure and a restart are not combined.
One fault shows every single failure (and of a run of the subprocess one `failRun` at a
time is under way, with any number of faults); invariants that promise nothing after a
fault say so (`faults = 0 =>`). The scripts are a loop between steps, a loop in a group,
a group in a loop, one too deep and two the validator refuses; their conditions and
delays are on different steps, and with 7 expanded steps the limit is met in the middle
of a loop. Over one connection, two calls make two clients at most; two faults are a
session forgotten and a stream ended, or a session forgotten twice. The theorems of
section 4 hold without bounds.

**Fairness.** The event loop resumes every call whose await is over and the host
answers: weak fairness of each call's step. Skill runs and tool calls have
timeouts (`mcpToolClient.ts`), so the steps that end them are among these; in
`McpTransport` the timeouts are actions of their own and the server need not answer, but
fetch gives up on a response, and on a stream, that does not come (its default timeouts;
opening a session has no other, `mcpToolClient.ts:218`). In
`ChatRun` a run that reads its stream alternates between texts and actions; that a
stream is closed in the end is strong fairness of its ending, failing or stopping.
The local engines' runs are tool
calls, too, and the operations of a file end. Requests, clicks, cancellations, schedule
firings and faults are never fair: nothing relies on a user. What no scheduling brings to
an end is left out by the property and not by fairness: `CallsEnd` excepts the calls a
close has stranded (`Stranded`, see below).

### Where the code and its documents disagree

Two runs end with a counterexample on purpose:

* `popup_confirmed`: `confirmAll` marks its snapshot `confirmed` before it looks at
  `executing` (`SchedulerService.ts:212`) and returns when another snapshot is being
  executed. Nobody executes the items; as they are not pending they are not shown
  again.
* `script_outputs`: outputs are stored in `runtime.values`, but an iteration of a loop
  works on a copy made before it began (`skillScriptEngine.ts:268`). A step of the
  iteration that names the output of the step before it fails with
  `VARIABLE_RESOLVE_FAILED`, or reads what an earlier iteration put out.
  `ReadsAreStored` is what holds: outside of loops a step reads the last value.

Further behaviours were read off the models and are not kept as runs. Enabling a
schedule writes `enabled` twice (`register`, then `enableSchedule`, `ChannelService.ts:226`);
a disable that comes between loses against the second write, but its `unregister`
stands: file and window say enabled, and there is no timer. A snapshot's
items are executed whatever became of them since they were looked up, so that an
item that is ignored meanwhile is executed after it was recorded as skipped, and one
that two calls confirm is executed twice (`SchedulerService.ts:198`, 219). The
popup's click confirms the items of the store, of which the rendered view may show
fewer (`Popup/index.tsx:308`). An opening carries the overview its call has read: if it
loads the page again after the items were dismissed, it shows them once more, although
nothing is pending (`SchedulerService.ts:328`: read once, then published and opened
with); this is why `PopupIsCurrent` speaks of what is pending only. The component goes on showing that it executes
after the execution is over (364). A callback whose await fails never registers its
next time (`SchedulerService.ts:110`). Every round of a timer may be a second early,
an early trigger is repeated when the schedule is registered again before its nominal
time, a delay above 2^31-1 ms fires at once, and of a schedule that matches every
second every other match is left out (101-118). A read that fails is taken for an
empty file, which the next write makes true (`rumJsJsonStore.ts:41`).
The local engine of the subprocess, which only its test uses, sets the next timer of a
schedule when a run is over even if the schedule was disabled, or the engine stopped,
during the run (`LocalJsonScheduleEngine.ts:245`), as it does for one that the file has
turned off, if a reload is reading the file when the run ends; stopping during a load
does not keep the load from registering; what was disabled cannot be enabled without a
reload, as its definition went with its job; a failed reload leaves everything stopped,
under the states of before. In the standalone runner an append that clashes with another
loses a record, so that the schedule runs again after a restart, although
`src/subprocess/schedule/README.md:28` says
"启动时若已执行过则停止调度" (at the start a schedule that was executed is stopped); what is left
of the file may not parse, which ends the process and keeps the next one from starting
(`local-json-schedule-engine.js:180`). The send button
is enabled while a run is under way (`ChatWorkspace/index.tsx:435`), and a store has one
run per session: the run of a second message takes the place of the first, which goes on.
The window then cannot abort the first; its steps are shown in the panel of the second; when the
second is over, an event of the first makes the session run again, with a button that
does nothing, since the run shown is not among those of the transport; the list says idle at
the end of either run while the other goes on. `RunningCanBeAborted`, `StepsAreOwn` and
`StoresAgree` say what is left of their promises then, and that they hold in full for
the next message that is sent alone; no document says what a second message is to do.
When the service gives one id to two actions, the second step takes the place of the
first in the panel while the snapshot counts both (`run.store.ts:91`,
`stream-parser.ts:78`), and the late report of a cancelled run finishes the step of another
that has its id; nothing in the repository says that the ids are unique. Cancelling leaves the current
step running (`run.store.ts:162`), and the text that was streaming stays a streaming message
for good. The result of a tool that was called before a cancellation is shown whenever it
comes, perhaps after the next question (`web-runtime-transport.ts:413`); a new session is
shown when it has been created, whatever the user turned to meanwhile, and what was typed
in the meantime is cleared; the snapshot of a session takes the number of a cancelled run
whose last step is reported late, and turns failed with that step, so that it may say less
than the panel but never that something runs which is over. Two sends of one session that
overlap lose a message (`AssistantSessionService.ts:224`), which is why
`MessagesAreKept` and `EndsAgree` are stated for a user who waits, and a restart
leaves a run stored as running. An abort during the last tool call of a script lets the
run complete, and one during a request ends it with `RUNTIME_EXCEPTION` instead of
`USER_CANCELED` (`skillScriptEngine.ts:398`); a listener that rejects a record makes a
second record of its step. After a stream ended, the next MCP client numbers its requests
like the one that still waits, whose call may then get the wrong answer (a behaviour of 17
states; `AnswersMatch` is stated for streams that last, and a stream that breaks before
its endpoint has ended too). One client that fails to connect
closes the connection for all calls to come (`mcpToolClient.ts:760`), and two messages that
find their session gone one after the other reset the connection twice, the second time
giving up a healthy session. A call never ends whose client waits for its endpoint while the
connection is closed, by its user or by another client that failed to connect, if the
stream then breaks: `handleSseError` returns before it rejects what `start()` waits for
(`mcpToolClient.ts:414-417`), an endpoint that still comes is ignored (357), and the timeout
of the call is not set before its client is there (693-695). TLC finds it in a few seconds
when `Stranded` is left out of `CallsEnd`; no document promises that a call ends. A scheduled run never closes its connection
(`SchedulerService.ts:84`).

## 4. The proofs

For every value of the constants; the assumptions are those of the modules.

* `ScheduleExecution_proofs`
  * `TypeCorrect` (`TypeOK`): one lemma about moving a call (`Goto`) and one about
    returning carry the labels and queues; one case per action.
  * `ExecutorExclusive` (`OneExecutor`): `TypeOK /\ OneExecutor` is inductive. A call
    enters the loop only in `AfterNotify`, which tests `executing` in the same step
    (`LoopEntered`); leaving it, by its end or a failure, resets it (`LoopLeft`); every
    other step keeps the set of calls in the loop (`LoopKept`).
  * `OverviewOwed` (`OverviewIsOwed`): every step that changes what is pending leaves
    its call at a label from which it announces (`NowOwed`), and a call gives up what
    it owes only by sending the current overview (`StillOwed` otherwise).
  * `RunningExecuted` (`RunningIsExecuted`): inductive, since a snapshot has one next
    item (`NextIsUnique`) and only `Settle` leaves the labels of an execution.
  * `RecordOwed` (`RecordIsOwed`): inductive; a call keeps its outcome until its record
    is written (`StillRecorded`), which removes none (`RecordWritten`).
  * `PopupRuns`: a step of `PopupSpec` is one of `Spec` or leaves the service alone
    (`PopupStepRuns`), so that what is proved above holds with the popup.
  * `PopupStaysCurrent` (`PopupIsCurrent`), under `ReloadOnOpen`, which the run has, too:
    without it, an overview that is sent while the window is being opened is lost, and
    the opening that carries it leaves the page as it is. The invariant follows
    the last overview sent: it is the last message under way, and the newest of the
    calls at the host (`Newest`: the last that publishes, or else the last that opens)
    has it (`SentLast`); and once host and channel are empty the popup shows it,
    until a dismissal, and asks for it, until a confirmation (`ShownLast`). With
    `OverviewIsOwed` the last overview sent is what is pending.
* `JsonStore_proofs`
  * `AnsweredIsStored` (`DoneIsStored`): unconditionally. `Keeping` says that the value
    at hand holds all entries of the file as long as no read failed.
  * `StoreIsAtomic` (`ImplementsAtomicStore`): a refinement. `Write` is `Add` or a read of a
    list is `List`; a loss is the abstract one; everything between is a stutter. It needs
    `Chain` (the chain holds the waiting calls, each once) and `Faithful` (until something
    is lost, the value at hand is the file and one entry). There is no hypothesis about
    what fails: a failure that breaks the promise ends it.
  * `StoreTypeCorrect` (`JsonTypeOK`), on which `StoreIsAtomic` rests.
* `ChatRun_proofs`
  * `EndsOnce` (`OneEnd`): the inductive invariant `EndInv` says, for each phase a run
    can be in, whether the transport knows it and how many records were uploaded:
    exactly the live runs that were not aborted are known, and only the end of a known
    run uploads (`FinishKeeps`).
  * `ShownCanBeAborted` (`RunningCanBeAborted`), `PanelsShowOwnSteps` (`StepsAreOwn`)
    and `PanelsAgree` (`StoresAgree`), from `ShowInv` on top of `EndInv`, for messages
    that cross as well: a run that goes on is the one its session shows, or that one began
    meanwhile (`LiveIsShown`), so that whoever changes what a session shows is either. A
    session is shown as running only while a run of it goes on, and a run that began alone
    is shown as running, in both stores, as long as the transport has it (`Shown`); what `during` says does not change after a run has begun.
  * `WindowRuns`: a step of `WindowSpec` is one of `ChatRun` or leaves its runs alone, so
    that the theorems above hold of the window.
  * `TurnsStayInOrder` (`TurnsAreShown`): a run that goes on is the last that was sent in
    its session or went on when that was sent (`SentInv`), so that what it adds comes after
    the turns before it (`LogInv`: the entries of a session are of its own runs, in turn, and
    show the end that was uploaded). `CountInv` compares the snapshot with the panel,
    whatever ids the actions have: a step that is shown adds at most one to the panel, for
    it may take the place of another (`StepsGrow`), and one that is reported adds none
    (`StepsRemain`). A run that began alone has the count for itself, and that nothing
    is counted before a run has begun is `FreshInv`.
* `ScheduleTimer_proofs`
  * `TimerIsUnique` (`OneTimer`): every step that sets a timer clears the one its job
    names (`ClearedIsGone`).
  * `OnlyEnabledIsTimed` (`TimerIsEnabled`) and `OnlyRequestsReenable`
    (`ReenabledOnRequest`, an action property): the invariant is about the order of the
    store's queue. `Kept(i, s)` says that `s` will be enabled when all before position `i`
    have had their turn: it is enabled or somebody there will write so, and whoever will
    write that it is disabled has one who writes the contrary behind. A schedule with a job
    is kept at the end of the queue, and at the place of a callback that waits to write
    (`JobsAreKept`). What a step may do without breaking this is `Dutiful`, once for all
    steps (`DutyKept`). That the restoring enables nothing anew needs `Restoring`: there are
    no requests before it is over.
  * `ArmedTimeIsStored` (`NextIsArmed`): `JobIsWritten` is about the order of the queue
    again: after everything else that is to be written of a schedule comes the write of
    the timer its job has. Enabling writes twice, and joins the queue a second time
    after the first; what is needed of a callback is therefore that it has no such
    request behind it (`CallbackIsLast`). `Renews` is what a step may do, once for all.
  * `WindowShowsTheStores` (`WindowAgrees`): the last message under way that tells of a
    schedule says what is stored, or the window shows it, or a handler is between its
    write and its message (`Agrees`); a message that refuses what is granted by now is
    followed by one that grants it (`HostInv`).
  * `DriftBounded` (`DriftIsBounded`), for a period that fits a timeout (`Fits`): the
    inductive invariant `DriftInv` bounds the deviation of an armed timer by its round,
    and of a running callback by the clock and the latest end of it; `MatchIsNear` is
    all that is used of the cron expression. `FirstRoundOnTime`: a schedule that was
    enabled or restored is due at its time.
  * `EveryMatchIsDue` (`NoneIsSkipped`), for a schedule that does not match in every
    second (`Pauses`, a period above 1): nominal times are matches, and the timer set in
    a callback waits for the match after the one that was due (`SkipInv`), since
    a search that begins one second after a match finds the next (`NextAfterMatch`).
    With a match in every second it would find the one after that, as the code does.
* `SessionRuntime_proofs`
  * `EndOfRunIsLast` (`EndIsLast`): the invariant is about the order of the store's queue
    (`InOrder`): behind a stop that waits for the store (`cancelRun` or `failRun`) there is
    no callback of its run that has still to publish. A stop first makes the run quiet, by
    clearing its timers, then joins the queue, and publishes when it is served
    (`StopInv`); the callbacks under way are ahead of it (`NoneBehind`), and none begins
    any more (`CallbackInv`). That a run is not quiet before it has begun needs `NotStarted` and
    `Started`; `GoesOn` says once for all steps what a thread may do on its way. Sessions,
    messages and pieces of the reply are unbounded, failures and restarts included.
  * `OldListIsOwed` (`ListIsOwed`): whoever changes a session has the publication of the
    list before it (`Owes`), and gives it up only by publishing (`OwedInv`).
  * `RunningGoesOn` (`RunningIsActive`): a run that is stored as running is one of its
    session whose call, callbacks or cancellation are not at their end (`Pending`).
  * `MessagesStay` (`MessagesAreKept`, an action property) and `EndsAreStored`
    (`EndsAgree`), for a user who waits: when the next run of a session is sent the
    one before it has had its part, or its last write is ahead of the next read in the
    queue (`TurnsInv`), so that what was read is still what is stored (`CopyInv`), and
    the session tells the end of the run it was stored with last (`LastInv`; `DoneInv`
    and `HomeInv` say which callback is the last and when a session is there).
* `LocalSchedule_proofs`
  * `StatesAreTrue` (`StateIsTrue`): inductive for the repeating engine; for the standalone
    one, whose runs leave their timer's state as it is, it needs `OnceInv`.
  * `RecordedStayOver` (`RecordedIsOver`): `OnceInv` says that a schedule is set, or has
    one run, or is idle for good in this life of the process, and that every record an
    append has read is of an idle schedule.
* `McpTransport_proofs`
  * `SentAgainElsewhere` (`RetriedElsewhere`): the endpoint is of a session that was
    opened, or a text taken for one (`EndpointOpened`); a session is opened once; and
    while a message waits to be sent again the endpoint is not where it was
    (`Elsewhere`), since `Reset` removes the endpoint and only a new session or such a
    text brings another. That a message that was reset is not started anew needs
    `Unposted`: a call's or client's message is idle until its turn. Only `Post` makes a
    message go from starting to posting (`GoesOn` for every other step).
  * `OneSessionServes` (`SessionIsShared`): until a message is sent again, `start()` has
    promised the first session and no other, or that session was lost (`SharedInv`).
  * `OwnAnswers` (`AnswersMatch`): while no stream has ended there is one client, which
    calls can use until the transport is closed, and which has given every request a
    number of its own (`OneClient`); an answer then settles only what it belongs to.
* `SkillScript_proofs`, for any scripts that are trees, of any size
  * `FailureEndsRun` (`FailureIsFinal`): after a failure the run is over, or the listener
    is told of a step that failed because of it (`FailInv`).
  * `EveryStepIsRecorded` (`StartedAreRecorded`): what was begun is recorded or under way,
    and a step under way has no record, nor has anything of it that it has not begun
    (`RecordInv`, `Clear`). That a step which begins is new rests on the shape of the
    engine's stack (`Shape`: each step under way is part of what the one around it has
    begun last), on `IsTree`, and on the ids the validator found to differ
    (`ChildrenDiffer`).
  * `StoredIsRead` (`ReadsAreStored`): the copies of the scopes are never newer than the
    values (`Older`), and only steps in a loop see one (`Copied`).
  * `AbortedCallNoTool` (`AbortedCallsNothing`, an action property).

With this every invariant and every action property of the passing runs is proved. Only
model-checked are the liveness properties (fairness and ENABLED are out of the prover's
reach): `SnapshotIsExecuted`, `DueReachesPopup`, `FiredIsRearmed`, `RunsEnd`,
`CallsAreAnswered`, `RunIsFollowedUp` and `CallsEnd`. That the modules which extend
another keep to its behaviours is proved (`PopupRuns`, `WindowRuns`).

Where a theorem has a hypothesis, so has the run: `patient` is a user who waits,
`ReloadOnOpen` a host the repository does not settle, `Fits` and `Pauses` the schedules
for which the code keeps its time. What happens without them is told in section 3.

## 5. What is not modelled

* The user closing the popup's window, and the moment between its creation and its
  first listener; windows other than the popup; routing and parsing of messages.
* Texts, titles, dates, layout, reading handlers that only answer (`listAgents`,
  `publishSessionDetail`), previews and mocks.
* Awaits of a publication with nothing after them, except their rejection.
* Upload handlers of task records: none is wired (`pages/Assistant/runtime.ts:206`).
* DST and time zones; sub-second times.
* Of skill scripts: what the operators of expressions and templates compute, results and
  durations.
* Of the MCP connection: what becomes of a call that a close has stranded (it stays), the SDK's own 60 s timeout of a call and its cancel notification,
  events and bodies that cannot be parsed, a server that sends the id of a session both in
  a header and as an event, and the cancel of a stream that is being read, which fails at
  once because the stream is locked.
* Of the local engines: a second reload while one is under way, which no caller makes,
  and time (the delay is counted as in `TriggerClock`).
* Of the assistant window: drafts beyond their being one session, the panels' folding and
  previews, the content of messages.
* The runtime event dispatcher: see the plan.
* Loaders, demo data, scripts, older JavaScript runners: no state of their own, or used
  by scripts only.

## 6. Plan

Done, in this order: execution, popup, timers, chat, sessions, clock, stores, skill
scripts, MCP connection, local engines, the assistant window; proofs of every safety
property the runs check.

Next, in this order:

1. `SkillExpression`: the operators of `skillScriptExpressionEngine.ts` and the template
   resolution as functions, compared with a reference over bounded inputs; in
   `SkillScript` the conditions then have values.
2. `RuntimeEvents`: the window of 1000 ids (bounded) against repeated events.
3. The popup's window life cycle in `SchedulePopup`, and a composition of
   `ScheduleTimer` with `ScheduleExecution` over the shared runtime store.
4. An abstract connection (a call is answered, fails or times out, once) which
   `McpTransport` implements while streams last.

Theorems to come: type correctness of the modules whose types are so far parts of other
invariants; the safety lemmas under the liveness properties (whoever waits in a queue has
its head before it, and a phase is left only forwards); the properties of the modules
planned above.
