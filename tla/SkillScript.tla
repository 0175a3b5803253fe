------------------------------ MODULE SkillScript ------------------------------
(***************************************************************************)
(* One run of a skill script: SkillScriptEngine.run, which executes tool   *)
(* steps, groups and foreach loops one after the other, reports each step  *)
(* to a listener, and can be aborted by a signal.                          *)
(*                                                                         *)
(* The engine awaits the listener, the delay before a step and the tool;   *)
(* in between it does not wait.  A script is a tree of steps.  Expressions *)
(* and results are left out but for what a step reads: the value of an     *)
(* output is the number of the tool call it comes from.                    *)
(***************************************************************************)
EXTENDS Naturals, Sequences, SequencesExt

CONSTANTS
    Steps,         \* the steps a script may have
    Root,          \* the script itself, not a step
    Ids,           \* step ids
    Outputs,       \* names of outputs, not reserved ones
    NoOutput,      \* a step declares no output
    Scripts,       \* the scripts that may be run
    MaxItems,      \* bound: items of the array of a loop
    MaxRefusals,   \* bound: events the listener rejects
    maxControlDepth, maxExpandedStepCount   \* options of the engine

Nodes == Steps \cup {Root}
Tools == {"mcp", "evaluate", "script", "request", "wait"}
Kinds == {"tool", "group", "foreach"}

\* A script: the steps of its root, groups and loops, and what each step declares.
\* What is in conditional has a when, what is in delayed waits before its tool.
Script ==
    [ body : [Nodes -> Seq(Steps)], id : [Steps -> Ids], kind : [Steps -> Kinds],
      tool : [Steps -> Tools], output : [Steps -> Outputs \cup {NoOutput}],
      reads : [Steps -> SUBSET Outputs], maxIterations : [Steps -> Nat],
      conditional : SUBSET Steps, delayed : SUBSET Steps ]

\* A step is a place in the text of a script; the validator walks its tree.
IsTree(s) ==
    \A x, y \in Nodes : \A i \in DOMAIN s.body[x], j \in DOMAIN s.body[y] :
        s.body[x][i] = s.body[y][j] => x = y /\ i = j

ASSUME SkillScriptAssumption ==
    /\ Root \notin Steps /\ NoOutput \notin Outputs
    /\ Scripts \subseteq Script /\ \A s \in Scripts : IsTree(s)
    /\ MaxItems \in Nat /\ MaxRefusals \in Nat
    /\ maxControlDepth \in Nat /\ maxExpandedStepCount \in Nat

VARIABLES
    script,   \* what is run
    at,       \* what the engine waits for, "next" while it looks for the next step
    stack,    \* the steps under way, the script itself first
    values,   \* runtime.values, 0 for an output that is not there
    calls,    \* tool calls made
    data,     \* lastToolResult
    count,    \* expandedStepCount
    records,  \* stepResults
    started,  \* paths the listener was told of by step.started
    error,    \* the error on its way up
    result,   \* status of the result
    aborted,  \* the signal
    refused   \* events the listener rejected

vars == <<script, at, stack, values, calls, data, count, records, started, error,
          result, aborted, refused>>

Nothing == [o \in Outputs |-> 0]
Over == {"returned", "rejected"}
Awaits == {"execution.started", "step.started", "delay", "tool", "step.finished",
           "step.failed", "execution.finished"}
Codes == {"INVALID_SCRIPT", "STEP_LIMIT_EXCEEDED", "WHEN_EVALUATION_FAILED",
          "VARIABLE_RESOLVE_FAILED", "FOREACH_ITEMS_INVALID", "STEP_OUTPUT_UNDEFINED",
          "USER_CANCELED", "RUNTIME_EXCEPTION"}

\* The steps of s that are in the script: what every set holds that has the steps of
\* the script and the steps of its own.
InScript(s) ==
    {x \in Steps : \A S \in SUBSET Steps :
        (\A n \in {Root} \cup S : ToSet(s.body[n]) \subseteq S) => x \in S}

\* Mutant of Valid: step ids are not compared.
ValidAnyIds(s) ==
    /\ s.body[Root] # <<>>
    /\ \A x \in InScript(s) : s.kind[x] # "tool" => s.body[x] # <<>>
    /\ \A x, y \in InScript(s) :
          x # y => s.output[x] = NoOutput \/ s.output[x] # s.output[y]

\* What assertSkillScriptDefinition lets pass: nothing is empty, and no two steps
\* have the same id or output.
Valid(s) ==
    /\ s.body[Root] # <<>>
    /\ \A x \in InScript(s) : s.kind[x] # "tool" => s.body[x] # <<>>
    /\ \A x, y \in InScript(s) : x # y =>
          s.id[x] # s.id[y] /\ (s.output[x] = NoOutput \/ s.output[x] # s.output[y])

\* A step under way: its path, its next substep, the iteration it is in, and the
\* scope of its substeps: runtime.values itself, or the copy an iteration made.
Frame(x, path, n, loop, copy) ==
    [step |-> x, path |-> path, next |-> 1, item |-> 1, items |-> n,
     loop |-> loop, copy |-> copy]

Init ==
    /\ script \in Scripts
    /\ at = "new"
    /\ stack = <<Frame(Root, <<>>, 1, FALSE, Nothing)>>
    /\ values = Nothing
    /\ calls = 0 /\ data = 0 /\ count = 0
    /\ records = <<>> /\ started = {}
    /\ error = "none" /\ result = "none"
    /\ aborted = FALSE /\ refused = 0

Top == Last(stack)
Step == Top.step
Depth == Len(stack)
Parent == stack[Len(stack) - 1]
Scope(f) == IF f.loop THEN f.copy ELSE values

Record(status) == Append(records, [path |-> Top.path, status |-> status])

-------------------------------------------------------------------------------
(* Errors                                                                    *)

\* An error reaches the innermost step of left: it gets a failed record, of which
\* the listener is told.  The error that reaches the script fails the run.
Throw(code, left) ==
    /\ error' = code /\ stack' = left
    /\ IF Len(left) > 1
       THEN /\ records' = Append(records, [path |-> Last(left).path, status |-> "failed"])
            /\ at' = "step.failed"
            /\ UNCHANGED result
       ELSE /\ result' = "failed"
            /\ at' = "execution.finished"
            /\ UNCHANGED records

\* Mutant of StepFailed: the steps around it go on.
StepFailedAlone ==
    at' = "next" /\ stack' = Front(stack) /\ UNCHANGED <<records, error, result>>

\* Mutant of StepFailed: the steps around it are left without a record.
StepFailedForAll == Throw(error, SubSeq(stack, 1, 1))

\* The listener knows that a step failed: the error goes on to the step around it.
StepFailed == Throw(error, Front(stack))

\* Mutant of Canceled: the signal is not looked at.
CanceledNever == FALSE
Canceled == aborted

TooDeep == Depth > maxControlDepth

-------------------------------------------------------------------------------
(* The steps                                                                 *)

Run ==
    /\ at = "new"
    /\ at' = IF Valid(script) THEN "execution.started" ELSE "rejected"
    /\ UNCHANGED <<script, stack, values, calls, data, count, records, started, error,
                   result, aborted, refused>>

\* The path of substep x of the step under way; an iteration is part of it.
Path(x) ==
    Top.path \o (IF Step # Root /\ script.kind[Step] = "foreach"
                 THEN <<Top.item>> ELSE <<>>) \o <<script.id[x]>>

\* The next substep begins, within the limits.
Enter ==
    /\ at = "next" /\ Top.items > 0 /\ Top.next <= Len(script.body[Step])
    /\ LET x == script.body[Step][Top.next]
           passed == [stack EXCEPT ![Depth].next = @ + 1]
       IN IF TooDeep
          THEN Throw("INVALID_SCRIPT", stack) /\ UNCHANGED <<count, started>>
          ELSE /\ count' = count + 1
               /\ IF count' > maxExpandedStepCount
                  THEN Throw("STEP_LIMIT_EXCEEDED", stack) /\ UNCHANGED started
                  ELSE /\ stack' = Append(passed, Frame(x, Path(x), 1, Top.loop, Top.copy))
                       /\ started' = started \cup {Path(x)}
                       /\ at' = "step.started"
                       /\ UNCHANGED <<records, error, result>>
    /\ UNCHANGED <<script, values, calls, data, aborted, refused>>

\* The next iteration of a loop begins, with a copy of the scope the loop is in.
Iterate ==
    /\ at = "next" /\ Top.next > Len(script.body[Step]) /\ Top.item < Top.items
    /\ stack' = [stack EXCEPT ![Depth] =
                    [Top EXCEPT !.next = 1, !.item = Top.item + 1, !.copy = Scope(Parent)]]
    /\ UNCHANGED <<script, at, values, calls, data, count, records, started, error,
                   result, aborted, refused>>

\* All substeps are done, or there was no item for them.
Close ==
    /\ at = "next"
    /\ Top.items = 0 \/ (Top.next > Len(script.body[Step]) /\ Top.item = Top.items)
    /\ IF Step = Root
       THEN result' = "completed" /\ at' = "execution.finished" /\ UNCHANGED records
       ELSE records' = Record("completed") /\ at' = "step.finished" /\ UNCHANGED result
    /\ UNCHANGED <<script, stack, values, calls, data, count, started, error, aborted,
                   refused>>

\* What the expression of a when, or of the items of a loop, comes to.
WhenValues(x) ==
    IF x \notin script.conditional THEN {"true"} ELSE {"true", "false", "throws"}
Items == 0 .. MaxItems

\* Every variable an expression or a template of the step names is in its scope.
Resolvable == \A o \in script.reads[Step] : Scope(Parent)[o] # 0

\* The parameters are resolved and the tool is called, unless the run is aborted.
CallTool ==
    CASE ~Resolvable -> Throw("VARIABLE_RESOLVE_FAILED", stack) /\ UNCHANGED calls
      [] Resolvable /\ Canceled -> Throw("USER_CANCELED", stack) /\ UNCHANGED calls
      [] OTHER -> /\ at' = "tool" /\ calls' = calls + 1
                  /\ UNCHANGED <<stack, records, error, result>>

ExecuteToolStep ==
    CASE Canceled -> Throw("USER_CANCELED", stack) /\ UNCHANGED calls
      [] ~Canceled /\ Step \in script.delayed ->
            at' = "delay" /\ UNCHANGED <<stack, records, error, result, calls>>
      [] OTHER -> CallTool

\* Mutant of ExecuteGroupStep: the steps of the group have a copy of its scope.
ExecuteGroupStepCopying ==
    /\ stack' = [stack EXCEPT ![Depth] = [@ EXCEPT !.loop = TRUE, !.copy = Scope(Parent)]]
    /\ at' = "next"
    /\ UNCHANGED <<records, error, result>>

ExecuteGroupStep == at' = "next" /\ UNCHANGED <<stack, records, error, result>>

\* A loop over n items; items that are no array end like too many of them.
ExecuteForeachStep(n) ==
    IF n > script.maxIterations[Step]
    THEN Throw("FOREACH_ITEMS_INVALID", stack)
    ELSE /\ stack' = [stack EXCEPT ![Depth] =
                         [Top EXCEPT !.items = n, !.loop = TRUE, !.copy = Scope(Parent)]]
         /\ at' = "next"
         /\ UNCHANGED <<records, error, result>>

\* The listener knows that the step begins: its when is evaluated, then a tool step
\* waits or calls its tool, a group goes on with its steps, a loop has its items
\* evaluated.
Execute ==
    /\ at = "step.started"
    /\ \E when \in WhenValues(Step) :
          CASE when = "throws" ->
                  Throw("WHEN_EVALUATION_FAILED", stack) /\ UNCHANGED calls
            [] when = "false" ->
                  /\ records' = Record("skipped") /\ at' = "step.finished"
                  /\ UNCHANGED <<stack, calls, error, result>>
            [] when = "true" ->
                  CASE script.kind[Step] = "tool" -> ExecuteToolStep
                    [] script.kind[Step] = "group" -> ExecuteGroupStep /\ UNCHANGED calls
                    [] script.kind[Step] = "foreach" ->
                          /\ IF Resolvable
                             THEN \E n \in Items : ExecuteForeachStep(n)
                             ELSE Throw("VARIABLE_RESOLVE_FAILED", stack)
                          /\ UNCHANGED calls
    /\ UNCHANGED <<script, values, data, count, started, aborted, refused>>

DelayEnds ==
    /\ at = "delay"
    /\ CallTool
    /\ UNCHANGED <<script, values, data, count, started, aborted, refused>>

\* What a tool of each kind may do in the end; all it throws counts as one error.
ToolOutcomes ==
    [ mcp |-> {"value", "undefined", "throws"}, script |-> {"value", "undefined", "throws"},
      request |-> {"value", "throws"}, evaluate |-> {"value", "throws"},
      wait |-> {"value"} ]

ToolReturns ==
    /\ at = "tool"
    /\ LET output == script.output[Step] IN
       \E outcome \in ToolOutcomes[script.tool[Step]] :
          /\ data' = CASE outcome = "value" -> calls
                       [] outcome = "undefined" -> 0
                       [] outcome = "throws" -> data
          /\ values' = IF outcome = "value" /\ output # NoOutput
                       THEN [values EXCEPT ![output] = calls] ELSE values
          /\ CASE outcome = "throws" -> Throw("RUNTIME_EXCEPTION", stack)
               [] outcome = "undefined" /\ output # NoOutput ->
                     Throw("STEP_OUTPUT_UNDEFINED", stack)
               [] OTHER -> /\ records' = Record("completed") /\ at' = "step.finished"
                           /\ UNCHANGED <<stack, error, result>>
    /\ UNCHANGED <<script, calls, count, started, aborted, refused>>

-------------------------------------------------------------------------------
(* The listener and the signal                                               *)

\* The listener has taken an event: what was executed goes on.
Taken ==
    /\ CASE at = "execution.started" ->
              at' = "next" /\ UNCHANGED <<stack, records, error, result>>
         [] at = "step.finished" ->
              /\ at' = "next" /\ stack' = Front(stack)
              /\ UNCHANGED <<records, error, result>>
         [] at = "step.failed" -> StepFailed
         [] at = "execution.finished" ->
              at' = "returned" /\ UNCHANGED <<stack, records, error, result>>
         [] OTHER -> FALSE
    /\ UNCHANGED <<script, values, calls, data, count, started, aborted, refused>>

\* The listener rejects an event: that is an error where it was awaited.  The first
\* event is awaited outside of the try block of the run, and that of a step that
\* begins outside of the try block of the step.
Rejects ==
    /\ refused < MaxRefusals /\ refused' = refused + 1
    /\ CASE at \in {"step.started", "step.failed"} ->
              Throw("RUNTIME_EXCEPTION", Front(stack))
         [] at = "step.finished" -> Throw("RUNTIME_EXCEPTION", stack)
         [] at = "execution.finished" /\ result = "completed" ->
              Throw("RUNTIME_EXCEPTION", stack)
         [] at = "execution.started" \/ (at = "execution.finished" /\ result = "failed") ->
              at' = "rejected" /\ UNCHANGED <<stack, records, error, result>>
         [] OTHER -> FALSE
    /\ UNCHANGED <<script, values, calls, data, count, started, aborted>>

\* The user aborts.  A delay, a wait and a request end with that; the others go on.
Abort ==
    /\ at \notin Over /\ ~aborted
    /\ aborted' = TRUE
    /\ CASE at = "delay" \/ (at = "tool" /\ script.tool[Step] = "wait") ->
              Throw("USER_CANCELED", stack)
         [] at = "tool" /\ script.tool[Step] = "request" ->
              Throw("RUNTIME_EXCEPTION", stack)
         [] OTHER -> UNCHANGED <<at, stack, records, error, result>>
    /\ UNCHANGED <<script, values, calls, data, count, started, refused>>

-------------------------------------------------------------------------------

Next ==
    \/ Run \/ Enter \/ Iterate \/ Close \/ Execute \/ DelayEnds \/ ToolReturns
    \/ Taken \/ Rejects \/ Abort

Spec == Init /\ [][Next]_vars

-------------------------------------------------------------------------------
(* Properties                                                                *)

Paths == {records[i].path : i \in DOMAIN records}

\* Every step the listener was told of has its record when the run ends, however it
\* ends: a failing step, the groups and loops around it, and a step that is skipped.
\* It has one, which tells the iteration it is of, and that of a group or a loop comes
\* after those of all its steps: no record has the path of an earlier one, or goes on
\* where that one ended.
StartedAreRecorded ==
    refused = 0 =>
        /\ result # "none" => Paths = started
        /\ \A i, j \in DOMAIN records :
              i < j => ~IsPrefix(records[i].path, records[j].path)

\* The first failure ends the run: what is recorded after it is that the steps
\* around it failed, and the run has not completed.  (A listener that rejects a
\* record makes a second one, or the result, failed.)
FailureIsFinal ==
    \A i \in DOMAIN records : records[i].status = "failed" =>
        /\ result # "completed"
        /\ \A j \in i + 1 .. Len(records) :
              /\ records[j].status = "failed"
              /\ IsPrefix(records[j].path, records[i].path)

\* No tool is called once the user has aborted, whatever the run waits for then.
AbortedCallsNothing == [][aborted => calls' = calls]_vars

InLoop == \E k \in 2 .. Len(stack) - 1 : script.kind[stack[k].step] = "foreach"
FailsToRead ==
    /\ at = "step.failed" /\ error = "VARIABLE_RESOLVE_FAILED"
    /\ script.kind[Step] = "tool"

\* Outside of loops a step reads the last result of each output, that of a step of a
\* group or a loop before it included, and fails only when there is none.  In a loop
\* it reads a result that was stored, if not the last one.
ReadsAreStored ==
    /\ at = "tool" => \A o \in script.reads[Step] :
          /\ Scope(Parent)[o] \in 1 .. values[o]
          /\ ~InLoop => Scope(Parent)[o] = values[o]
    /\ FailsToRead /\ ~InLoop => \E o \in script.reads[Step] : values[o] = 0

\* A step can read the output of a step before it, in a loop or not.
\* (event-task-script-authoring-guide.md:194)
OutputsCanBeRead == FailsToRead => \E o \in script.reads[Step] : values[o] = 0
===============================================================================
