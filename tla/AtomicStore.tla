------------------------------ MODULE AtomicStore -------------------------------
(***************************************************************************)
(* What the services over a JSON file of the host promise their callers    *)
(* (ScheduleRuntimeService, SchedulePendingExecutionService,               *)
(* ScheduleRunRecordService, AssistantSessionStoreService): an operation   *)
(* takes effect at once and completes in the same moment, or it fails and  *)
(* has had no effect.  The modules of the services that use the stores     *)
(* are built on this.                                                      *)
(*                                                                         *)
(* A call adds an entry of its own or lists the entries.  The promise ends *)
(* with the first loss (`lost`): a file that could not be read, or that    *)
(* could not be made.                                                      *)
(***************************************************************************)
CONSTANT Calls

VARIABLES
    content,  \* the entries, each named by the call that added it
    call,     \* what has become of a call
    op,       \* what a call asks for
    result,   \* the entries a list returned
    lost      \* the promise no longer holds

vars == <<content, call, op, result, lost>>

Init ==
    /\ content \subseteq Calls
    /\ call = [c \in Calls |-> IF c \in content THEN "done" ELSE "idle"]
    /\ op = [c \in Calls |-> IF c \in content THEN "add" ELSE "list"]
    /\ result = [c \in Calls |-> {}]
    /\ lost = FALSE

Request(c) ==
    /\ call[c] = "idle"
    /\ call' = [call EXCEPT ![c] = "waiting"]
    /\ \E o \in {"add", "list"} : op' = [op EXCEPT ![c] = o]
    /\ UNCHANGED <<content, result>>

Add(c) ==
    /\ call[c] = "waiting" /\ op[c] = "add"
    /\ content' = content \cup {c}
    /\ call' = [call EXCEPT ![c] = "done"]
    /\ UNCHANGED <<op, result>>

List(c) ==
    /\ call[c] = "waiting" /\ op[c] = "list"
    /\ result' = [result EXCEPT ![c] = content]
    /\ call' = [call EXCEPT ![c] = "done"]
    /\ UNCHANGED <<content, op>>

Fail(c) ==
    /\ call[c] = "waiting"
    /\ call' = [call EXCEPT ![c] = "failed"]
    /\ UNCHANGED <<content, op, result>>

\* The process ends.  No call is answered; one of them may have taken effect.
Crash ==
    /\ \/ UNCHANGED content
       \/ \E c \in Calls : /\ call[c] = "waiting" /\ op[c] = "add"
                           /\ content' = content \cup {c}
    /\ call' = [c \in Calls |-> IF call[c] = "waiting" THEN "failed" ELSE call[c]]
    /\ UNCHANGED <<op, result>>

\* While nothing is lost, every step is one of the above; then anything may happen.
Next ==
    \/ lost'
    \/ /\ ~lost /\ ~lost'
       /\ Crash \/ \E c \in Calls : Request(c) \/ Add(c) \/ List(c) \/ Fail(c)

Spec == Init /\ [][Next]_vars
===============================================================================
