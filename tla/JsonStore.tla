------------------------------- MODULE JsonStore --------------------------------
(***************************************************************************)
(* A store service over RumJsJsonStore: serialize chains the operations of *)
(* the service, each reads the whole file through the host, changes the    *)
(* value it got and writes the whole file.  A file that is missing or      *)
(* cannot be read stands for the default value, which is one object for    *)
(* the life of the process.                                                *)
(***************************************************************************)
EXTENDS Naturals, Sequences, SequencesExt

CONSTANTS
    Calls,          \* calls of the service; an entry is named by the call adding it
    Stored,         \* what there may be at first: {} is no file, {S} one with S
    MaxReadFaults,  \* bound: reads that fail
    MaxWriteFaults, \* bound: writes that fail
    MaxCrashes      \* bound: ends of the process

ASSUME JsonStoreAssumption ==
    /\ \A f \in Stored : f = {} \/ \E S \in SUBSET Calls : f = {S}
    /\ MaxReadFaults \in Nat /\ MaxWriteFaults \in Nat /\ MaxCrashes \in Nat

VARIABLES
    file,     \* the file of the host, {} or {what it holds}
    default,  \* defaultValue of the store
    queue,    \* the chained operations, the first one is under way
    value,    \* {what it has read and changed}, {} before that
    call, op, result,  \* as in AtomicStore
    faults    \* failed reads, writes over a file and without one, ends of the process

vars == <<file, default, queue, value, call, op, result, faults>>

Entries == UNION file

Init ==
    /\ file \in Stored
    /\ default = {}
    /\ queue = <<>> /\ value = {}
    /\ call = [c \in Calls |-> IF c \in Entries THEN "done" ELSE "idle"]
    /\ op = [c \in Calls |-> IF c \in Entries THEN "add" ELSE "list"]
    /\ result = [c \in Calls |-> {}]
    /\ faults = [read |-> 0, write |-> 0, early |-> 0, crash |-> 0]

Request(c) ==
    /\ call[c] = "idle"
    /\ call' = [call EXCEPT ![c] = "waiting"]
    /\ \E o \in {"add", "list"} : op' = [op EXCEPT ![c] = o]
    /\ queue' = Append(queue, c)
    /\ UNCHANGED <<file, default, value, result, faults>>

\* Mutant of Over: the next operation goes on with the value of this one.
OverCaching(c, how) ==
    /\ call' = [call EXCEPT ![c] = how]
    /\ queue' = Tail(queue)
    /\ UNCHANGED value

\* The operation is over; the next one of the chain begins.
Over(c, how) ==
    /\ call' = [call EXCEPT ![c] = how]
    /\ queue' = Tail(queue)
    /\ value' = {}

\* The first operation has read content.  A list returns it; an entry is added to
\* the value, and that is the default object itself when there is nothing else.
Got(content, isDefault) ==
    LET c == Head(queue) IN
    IF op[c] = "list"
    THEN /\ result' = [result EXCEPT ![c] = content]
         /\ Over(c, "done")
         /\ UNCHANGED default
    ELSE /\ value' = {content \cup {c}}
         /\ default' = IF isDefault THEN content \cup {c} ELSE default
         /\ UNCHANGED <<queue, call, result>>

Read ==
    /\ queue # <<>> /\ value = {}
    /\ IF file = {} THEN Got(default, TRUE) ELSE Got(Entries, FALSE)
    /\ UNCHANGED <<file, op, faults>>

\* A read that fails, and a file that cannot be parsed, are not noticed.
ReadFails ==
    /\ queue # <<>> /\ value = {}
    /\ faults.read < MaxReadFaults /\ faults' = [faults EXCEPT !.read = @ + 1]
    /\ Got(default, TRUE)
    /\ UNCHANGED <<file, op>>

\* Mutant of Write: the file holds the new entry only.
WriteAlone ==
    /\ queue # <<>> /\ value # {}
    /\ file' = {{Head(queue)}}
    /\ Over(Head(queue), "done")
    /\ UNCHANGED <<default, op, result, faults>>

Write ==
    /\ queue # <<>> /\ value # {}
    /\ file' = value
    /\ Over(Head(queue), "done")
    /\ UNCHANGED <<default, op, result, faults>>

\* A write that fails is early as long as there is no file.
WriteFault ==
    /\ faults.write + faults.early < MaxWriteFaults
    /\ faults' = [faults EXCEPT ![IF file = {} THEN "early" ELSE "write"] = @ + 1]

\* Mutant of WriteFails: the chain ends with the operation that failed.
WriteFailsForGood ==
    /\ queue # <<>> /\ value # {}
    /\ WriteFault
    /\ call' = [call EXCEPT ![Head(queue)] = "failed"]
    /\ queue' = <<>> /\ value' = {}
    /\ UNCHANGED <<file, default, op, result>>

\* The operation fails; the next one is chained to it all the same.
WriteFails ==
    /\ queue # <<>> /\ value # {}
    /\ WriteFault
    /\ Over(Head(queue), "failed")
    /\ UNCHANGED <<file, default, op, result>>

\* The process ends and starts again; the host may have done a write it was given.
Crash ==
    /\ faults.crash < MaxCrashes /\ faults' = [faults EXCEPT !.crash = @ + 1]
    /\ \/ UNCHANGED file
       \/ value # {} /\ file' = value
    /\ default' = {} /\ queue' = <<>> /\ value' = {}
    /\ call' = [c \in Calls |-> IF call[c] = "waiting" THEN "failed" ELSE call[c]]
    /\ UNCHANGED <<op, result>>

Next == Read \/ ReadFails \/ Write \/ WriteFails \/ Crash \/ \E c \in Calls : Request(c)

Spec == Init /\ [][Next]_vars
FairSpec == Spec /\ WF_vars(Read \/ Write)

-------------------------------------------------------------------------------
(* Properties                                                                *)

\* A read has failed, or a write before there was a file.
Lost == faults.read > 0 \/ faults.early > 0

\* The types of all variables; the chain holds the calls that wait, each once, and
\* the value at hand is what the file holds and the entry of the first of them, if
\* nothing was lost.
JsonTypeOK ==
    /\ file \in {{}} \cup {{S} : S \in SUBSET Calls} /\ default \subseteq Calls
    /\ ToSet(queue) = {c \in Calls : call[c] = "waiting"} /\ IsInjective(queue)
    /\ value # {} => /\ queue # <<>> /\ op[Head(queue)] = "add"
                     /\ Lost \/ value = {Entries \cup {Head(queue)}}
    /\ call \in [Calls -> {"idle", "waiting", "done", "failed"}]
    /\ op \in [Calls -> {"add", "list"}] /\ result \in [Calls -> SUBSET Calls]
    /\ faults \in [read : Nat, write : Nat, early : Nat, crash : Nat]

\* A service over a file does what the atomic store does: calls may be made while
\* others read and write, writes may fail and the process may end.  Its promise ends
\* with a read that fails, or a write that fails before there is a file.
Atomic == INSTANCE AtomicStore WITH content <- Entries, lost <- Lost
ImplementsAtomicStore == Atomic!Spec

\* An entry is stored when its call is answered and stays stored, whatever fails
\* afterwards, as long as no read fails.
DoneIsStored ==
    faults.read = 0 => \A c \in Calls : call[c] = "done" /\ op[c] = "add" => c \in Entries

\* Every call is answered, whether or not the ones before it failed.
CallsAreAnswered == \A c \in Calls : call[c] = "waiting" ~> call[c] # "waiting"
===============================================================================
