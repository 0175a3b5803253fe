----------------------- MODULE ScheduleExecution_proofs -----------------------
(***************************************************************************)
(* Proofs of the safety properties of ScheduleExecution, for any number of *)
(* calls, schedules, items, commands and faults; and of the popup around   *)
(* it: every step of SchedulePopup is one of the service or none, and what *)
(* is pending is what the popup asks for when all is at rest.              *)
(***************************************************************************)
EXTENDS SchedulePopup, TLAPS

-------------------------------------------------------------------------------
(* Types                                                                     *)

\* Every label the actions name is one of Labels.
LEMMA LabelsListed ==
    Labels = {"idle", "skill", "publish", "open", "add", "lookup", "confirm",
              "run", "settle", "skip", "overview", "touch", "outcome",
              "skipStatus", "append", "skipRecord"}
<1>1. UNION {OperationsOf[s] : s \in Stores}
        = {"add", "lookup", "confirm", "run", "settle", "skip", "overview",
           "touch", "outcome", "skipStatus", "append", "skipRecord"}
  BY DEF OperationsOf, Stores
<1> QED BY <1>1 DEF Labels, Externals

\* Moving a call from one await to the next keeps pc and the queues well typed.
LEMMA GotoType ==
    ASSUME pc \in [Calls -> Labels], queue \in [Stores -> Seq(Calls)],
           NEW c \in Calls, NEW label, NEW next \in Labels, Goto(c, label, next)
    PROVE  pc' \in [Calls -> Labels] /\ queue' \in [Stores -> Seq(Calls)]
<1>1. Served(label) \in [Stores -> Seq(Calls)]
  <2> SUFFICES ASSUME NEW s \in Stores
               PROVE (IF label \in OperationsOf[s] /\ queue[s] # <<>>
                      THEN Tail(queue[s]) ELSE queue[s]) \in Seq(Calls)
    BY DEF Served
  <2>1. queue[s] \in Seq(Calls) OBVIOUS
  <2>2. queue[s] # <<>> => Tail(queue[s]) \in Seq(Calls) BY <2>1
  <2> QED BY <2>1, <2>2
<1>2. WaitAt(Served(label), c, next) \in [Stores -> Seq(Calls)]
  <2> DEFINE q == Served(label)
  <2> SUFFICES ASSUME NEW s \in Stores
               PROVE (IF next \in OperationsOf[s] THEN Append(q[s], c) ELSE q[s]) \in Seq(Calls)
    BY DEF WaitAt
  <2>1. q[s] \in Seq(Calls) BY <1>1
  <2> HIDE DEF q
  <2> QED BY <2>1
<1> QED BY <1>2 DEF Goto

\* A call that returns keeps every variable it touches well typed.
LEMMA ReturnType ==
    ASSUME TypeOK, NEW c \in Calls, NEW label, Return(c, label)
    PROVE  /\ pc' \in [Calls -> Labels] /\ queue' \in [Stores -> Seq(Calls)]
           /\ named' \in [Calls -> SUBSET Items] /\ todo' \in [Calls -> SUBSET Items]
           /\ seen' \in [Calls -> SUBSET Items]
           /\ result' \in [Calls -> {"completed", "failed"}]
           /\ confirming' \in SUBSET Calls
<1>1. Goto(c, label, "idle") /\ "idle" \in Labels BY LabelsListed DEF Return
<1>2. pc' \in [Calls -> Labels] /\ queue' \in [Stores -> Seq(Calls)]
  BY <1>1, GotoType DEF TypeOK
<1> QED BY <1>2 DEF Return, TypeOK

\* A record more for one item and outcome is still a count.
LEMMA RecordType ==
    ASSUME TypeOK, NEW i \in Items, NEW o \in Outcomes, AddRecord(i, o)
    PROVE  records' \in [Items -> [Outcomes -> Nat]]
BY DEF TypeOK, AddRecord

\* The initial state is well typed.
LEMMA TypeInit == Init => TypeOK
<1> SUFFICES ASSUME Init PROVE TypeOK OBVIOUS
<1>1. queue \in [Stores -> Seq(Calls)] BY DEF Init
<1>2. pc \in [Calls -> Labels] BY LabelsListed DEF Init
<1>3. records \in [Items -> [Outcomes -> Nat]] BY DEF Init
<1>4. status \in [Items -> Statuses] /\ lastStatus \in [Schedules -> LastStatuses]
  BY DEF Init, Statuses, LastStatuses
<1>5. due \in 0 .. MaxItems /\ commands \in 0 .. MaxCommands /\ faults \in 0 .. MaxFaults
  BY ScheduleExecutionAssumption DEF Init
<1>6. /\ named \in [Calls -> SUBSET Items] /\ todo \in [Calls -> SUBSET Items]
      /\ seen \in [Calls -> SUBSET Items]
      /\ result \in [Calls -> {"completed", "failed"}]
  BY DEF Init
<1> QED BY <1>1, <1>2, <1>3, <1>4, <1>5, <1>6 DEF Init, TypeOK

\* Every step keeps every variable in its type.
LEMMA TypeStep == TypeOK /\ [Next]_vars => TypeOK'
<1> SUFFICES ASSUME TypeOK, [Next]_vars PROVE TypeOK' OBVIOUS
<1> USE ScheduleExecutionAssumption, LabelsListed
<1>1. ASSUME NEW c \in Calls, Due(c) PROVE TypeOK'
  <2>1. Goto(c, "idle", "add") BY <1>1 DEF Due
  <2>2. pc' \in [Calls -> Labels] /\ queue' \in [Stores -> Seq(Calls)]
    BY <2>1, GotoType DEF TypeOK
  <2>3. due + 1 \in Items /\ due' \in 0 .. MaxItems BY <1>1 DEF Due, TypeOK, Items
  <2>4. named' \in [Calls -> SUBSET Items] BY <1>1, <2>3 DEF Due, TypeOK
  <2> QED BY <1>1, <2>2, <2>3, <2>4 DEF Due, TypeOK, stores
<1>2. ASSUME NEW c \in Calls, Add(c) PROVE TypeOK'
  <2>1. Goto(c, "add", "touch") BY <1>2 DEF Add
  <2>2. pc' \in [Calls -> Labels] /\ queue' \in [Stores -> Seq(Calls)]
    BY <2>1, GotoType DEF TypeOK
  <2> QED BY <1>2, <2>2 DEF Add, SetStatus, TypeOK, locals, Statuses
<1>3. ASSUME NEW c \in Calls, Touch(c) PROVE TypeOK'
  <2>1. CASE executing
    <3>1. Return(c, "touch") BY <1>3, <2>1 DEF Touch
    <3> QED BY <1>3, <3>1, ReturnType DEF Touch, TypeOK, stores
  <2>2. CASE ~executing
    <3>1. Goto(c, "touch", "overview") BY <1>3, <2>2 DEF Touch
    <3>2. pc' \in [Calls -> Labels] /\ queue' \in [Stores -> Seq(Calls)]
      BY <3>1, GotoType DEF TypeOK
    <3> QED BY <1>3, <2>2, <3>2 DEF Touch, TypeOK, stores, locals
  <2> QED BY <2>1, <2>2
<1>4. ASSUME NEW c \in Calls, NEW ids \in SUBSET (1 .. due), ReceiveConfirm(c, ids)
      PROVE TypeOK'
  <2>1. Goto(c, "idle", "lookup") BY <1>4 DEF ReceiveConfirm
  <2>2. pc' \in [Calls -> Labels] /\ queue' \in [Stores -> Seq(Calls)]
    BY <2>1, GotoType DEF TypeOK
  <2>3. ids \in SUBSET Items BY DEF TypeOK, Items
  <2>4. commands' \in 0 .. MaxCommands BY <1>4 DEF ReceiveConfirm, TypeOK
  <2> QED BY <1>4, <2>2, <2>3, <2>4 DEF ReceiveConfirm, TypeOK, stores
<1>5. ASSUME NEW c \in Calls, NEW ids \in SUBSET (1 .. due), ReceiveDismiss(c, ids)
      PROVE TypeOK'
  <2>1. Goto(c, "idle", "skip") BY <1>5 DEF ReceiveDismiss
  <2>2. pc' \in [Calls -> Labels] /\ queue' \in [Stores -> Seq(Calls)]
    BY <2>1, GotoType DEF TypeOK
  <2>3. ids \in SUBSET Items BY DEF TypeOK, Items
  <2>4. commands' \in 0 .. MaxCommands BY <1>5 DEF ReceiveDismiss, TypeOK
  <2> QED BY <1>5, <2>2, <2>3, <2>4 DEF ReceiveDismiss, TypeOK, stores
<1>6. ASSUME NEW c \in Calls, Lookup(c) PROVE TypeOK'
  <2> DEFINE snapshot == named[c] \cap Pending
  <2>1. CASE snapshot = {}
    <3>1. Return(c, "lookup") BY <1>6, <2>1 DEF Lookup
    <3> QED BY <1>6, <3>1, ReturnType DEF Lookup, TypeOK, stores
  <2>2. CASE snapshot # {}
    <3>1. /\ Goto(c, "lookup", "confirm")
          /\ todo' = [todo EXCEPT ![c] = snapshot]
          /\ UNCHANGED <<named, result, seen, confirming>>
      BY <1>6, <2>2 DEF Lookup
    <3>2. pc' \in [Calls -> Labels] /\ queue' \in [Stores -> Seq(Calls)]
      BY <3>1, GotoType DEF TypeOK
    <3> QED BY <1>6, <3>1, <3>2 DEF Lookup, TypeOK, stores, Pending
  <2> QED BY <2>1, <2>2
<1>7. ASSUME NEW c \in Calls, Confirm(c) PROVE TypeOK'
  <2>1. Goto(c, "confirm", "overview") BY <1>7 DEF Confirm
  <2>2. pc' \in [Calls -> Labels] /\ queue' \in [Stores -> Seq(Calls)]
    BY <2>1, GotoType DEF TypeOK
  <2> QED BY <1>7, <2>2 DEF Confirm, SetStatus, TypeOK, Statuses
<1>8. ASSUME NEW c \in Calls, Run(c) PROVE TypeOK'
  <2>1. PICK i \in Items :
          /\ SetStatus({i}, "running")
          /\ IF ScheduleOf[i] \in known
             THEN Goto(c, "run", "skill") /\ UNCHANGED result
             ELSE /\ Goto(c, "run", "settle")
                  /\ result' = [result EXCEPT ![c] = "failed"]
    BY <1>8 DEF Run
  <2>2. pc' \in [Calls -> Labels] /\ queue' \in [Stores -> Seq(Calls)]
    BY <2>1, GotoType DEF TypeOK
  <2>3. result' \in [Calls -> {"completed", "failed"}] BY <2>1 DEF TypeOK
  <2>4. status' \in [Items -> Statuses] BY <2>1 DEF TypeOK, SetStatus, Statuses
  <2> QED BY <1>8, <2>2, <2>3, <2>4 DEF Run, TypeOK
<1>9. ASSUME NEW c \in Calls, Skill(c) PROVE TypeOK'
  <2>1. Goto(c, "skill", "settle") BY <1>9 DEF Skill
  <2>2. pc' \in [Calls -> Labels] /\ queue' \in [Stores -> Seq(Calls)]
    BY <2>1, GotoType DEF TypeOK
  <2> QED BY <1>9, <2>2 DEF Skill, TypeOK, stores
<1>10. ASSUME NEW c \in Calls, Settle(c) PROVE TypeOK'
  <2>1. Goto(c, "settle", "outcome") BY <1>10 DEF Settle
  <2>2. pc' \in [Calls -> Labels] /\ queue' \in [Stores -> Seq(Calls)]
    BY <2>1, GotoType DEF TypeOK
  <2>3. result[c] \in Statuses BY DEF TypeOK, Statuses, Outcomes
  <2> QED BY <1>10, <2>2, <2>3 DEF Settle, SetStatus, TypeOK, locals
<1>11. ASSUME NEW c \in Calls, Outcome(c) PROVE TypeOK'
  <2>1. Goto(c, "outcome", "append") BY <1>11 DEF Outcome
  <2>2. pc' \in [Calls -> Labels] /\ queue' \in [Stores -> Seq(Calls)]
    BY <2>1, GotoType DEF TypeOK
  <2>3. result[c] \in LastStatuses BY DEF TypeOK, LastStatuses, Outcomes
  <2> QED BY <1>11, <2>2, <2>3 DEF Outcome, TypeOK, locals
<1>12. ASSUME NEW c \in Calls, AppendRecord(c) PROVE TypeOK'
  <2>1. PICK i \in Items :
          /\ AddRecord(i, result[c])
          /\ todo' = [todo EXCEPT ![c] = @ \ {i}]
          /\ IF todo[c] = {i}
             THEN executing' = FALSE /\ Goto(c, "append", "overview")
             ELSE UNCHANGED executing /\ Goto(c, "append", "run")
    BY <1>12 DEF AppendRecord
  <2>2. pc' \in [Calls -> Labels] /\ queue' \in [Stores -> Seq(Calls)]
    BY <2>1, GotoType DEF TypeOK
  <2>3. result[c] \in Outcomes BY DEF TypeOK, Outcomes
  <2>4. records' \in [Items -> [Outcomes -> Nat]] BY <2>1, <2>3, RecordType
  <2>5. todo' \in [Calls -> SUBSET Items] /\ executing' \in BOOLEAN
    BY <2>1 DEF TypeOK
  <2> QED BY <1>12, <2>2, <2>4, <2>5 DEF AppendRecord, TypeOK
<1>13. ASSUME NEW c \in Calls, Skip(c) PROVE TypeOK'
  <2> DEFINE items == Stored(named[c])
  <2>1. Goto(c, "skip", IF items = {} THEN "overview" ELSE "skipStatus")
    BY <1>13 DEF Skip
  <2>2. pc' \in [Calls -> Labels] /\ queue' \in [Stores -> Seq(Calls)]
    BY <2>1, GotoType DEF TypeOK
  <2>3. items \in SUBSET Items BY DEF Stored, TypeOK
  <2>4. status' \in [Items -> Statuses]
    BY <1>13 DEF Skip, SetStatus, TypeOK, Statuses, Outcomes
  <2> QED BY <1>13, <2>2, <2>3, <2>4 DEF Skip, TypeOK
<1>14. ASSUME NEW c \in Calls, SkipStatus(c) PROVE TypeOK'
  <2>1. Goto(c, "skipStatus", "skipRecord") BY <1>14 DEF SkipStatus
  <2>2. pc' \in [Calls -> Labels] /\ queue' \in [Stores -> Seq(Calls)]
    BY <2>1, GotoType DEF TypeOK
  <2> QED BY <1>14, <2>2 DEF SkipStatus, TypeOK, locals, LastStatuses, Outcomes
<1>15. ASSUME NEW c \in Calls, SkipRecord(c) PROVE TypeOK'
  <2>1. PICK i \in Items :
          /\ AddRecord(i, "skipped")
          /\ todo' = [todo EXCEPT ![c] = @ \ {i}]
          /\ Goto(c, "skipRecord", IF todo[c] = {i} THEN "overview" ELSE "skipStatus")
    BY <1>15 DEF SkipRecord
  <2>2. pc' \in [Calls -> Labels] /\ queue' \in [Stores -> Seq(Calls)]
    BY <2>1, GotoType DEF TypeOK
  <2>3. records' \in [Items -> [Outcomes -> Nat]]
    BY <2>1, RecordType DEF Outcomes
  <2>4. todo' \in [Calls -> SUBSET Items] BY <2>1 DEF TypeOK
  <2> QED BY <1>15, <2>2, <2>3, <2>4 DEF SkipRecord, TypeOK
<1>16. ASSUME NEW c \in Calls, GetPendingOverview(c) PROVE TypeOK'
  <2>1. Goto(c, "overview", "publish") BY <1>16 DEF GetPendingOverview
  <2>2. pc' \in [Calls -> Labels] /\ queue' \in [Stores -> Seq(Calls)]
    BY <2>1, GotoType DEF TypeOK
  <2> QED BY <1>16, <2>2 DEF GetPendingOverview, TypeOK, stores, Pending
<1>17. ASSUME NEW c \in Calls, NEW label, AfterNotify(c, label)
       PROVE /\ pc' \in [Calls -> Labels] /\ queue' \in [Stores -> Seq(Calls)]
             /\ named' \in [Calls -> SUBSET Items] /\ todo' \in [Calls -> SUBSET Items]
             /\ seen' \in [Calls -> SUBSET Items]
             /\ result' \in [Calls -> {"completed", "failed"}]
             /\ confirming' \in SUBSET Calls /\ executing' \in BOOLEAN
  <2>1. CASE c \in confirming /\ ~executing
    <3>1. Goto(c, label, "run") BY <1>17, <2>1 DEF AfterNotify
    <3>2. pc' \in [Calls -> Labels] /\ queue' \in [Stores -> Seq(Calls)]
      BY <3>1, GotoType DEF TypeOK
    <3> QED BY <1>17, <2>1, <3>2 DEF AfterNotify, TypeOK
  <2>2. CASE ~(c \in confirming /\ ~executing)
    <3>1. Return(c, label) /\ UNCHANGED executing BY <1>17, <2>2 DEF AfterNotify
    <3> QED BY <3>1, ReturnType DEF TypeOK
  <2> QED BY <2>1, <2>2
<1>18. ASSUME NEW c \in Calls, Published(c) PROVE TypeOK'
  <2>1. CASE seen[c] # {}
    <3>1. Goto(c, "publish", "open") BY <1>18, <2>1 DEF Published
    <3>2. pc' \in [Calls -> Labels] /\ queue' \in [Stores -> Seq(Calls)]
      BY <3>1, GotoType DEF TypeOK
    <3> QED BY <1>18, <2>1, <3>2 DEF Published, TypeOK, stores, locals
  <2>2. CASE seen[c] = {}
    <3>1. AfterNotify(c, "publish") BY <1>18, <2>2 DEF Published
    <3> QED BY <1>17, <1>18, <3>1 DEF Published, TypeOK, stores
  <2> QED BY <2>1, <2>2
<1>19. ASSUME NEW c \in Calls, Opened(c) PROVE TypeOK'
  <2>1. AfterNotify(c, "open") BY <1>19 DEF Opened
  <2> QED BY <1>17, <1>19, <2>1 DEF Opened, TypeOK, stores
<1>20. ASSUME NEW c \in Calls, Fail(c) PROVE TypeOK'
  <2>1. PICK label \in Fallible :
          IF label \in LoopLabels
          THEN /\ executing' = FALSE
               /\ todo' = [todo EXCEPT ![c] = {}]
               /\ Goto(c, label, "overview")
               /\ UNCHANGED <<named, result, seen, confirming>>
          ELSE Return(c, label) /\ UNCHANGED executing
    BY <1>20 DEF Fail
  <2>2. faults' \in 0 .. MaxFaults BY <1>20 DEF Fail, TypeOK
  <2>3. CASE label \in LoopLabels
    <3>1. Goto(c, label, "overview") BY <2>1, <2>3
    <3>2. pc' \in [Calls -> Labels] /\ queue' \in [Stores -> Seq(Calls)]
      BY <3>1, GotoType DEF TypeOK
    <3> QED BY <1>20, <2>1, <2>2, <2>3, <3>2 DEF Fail, TypeOK, stores
  <2>4. CASE label \notin LoopLabels
    <3>1. Return(c, label) /\ UNCHANGED executing BY <2>1, <2>4
    <3> QED BY <1>20, <2>2, <3>1, ReturnType DEF Fail, TypeOK, stores
  <2> QED BY <2>3, <2>4
<1>21. ASSUME NEW configured \in SUBSET Schedules, Restart(configured) PROVE TypeOK'
  <2>1. faults' \in 0 .. MaxFaults BY <1>21 DEF Restart, TypeOK
  <2>2. queue' \in [Stores -> Seq(Calls)] BY <1>21 DEF Restart
  <2>3. "idle" \in Labels OBVIOUS
  <2> QED BY <1>21, <2>1, <2>2, <2>3 DEF Restart, TypeOK, stores
<1>22. CASE UNCHANGED vars BY <1>22 DEF vars, stores, locals, TypeOK
<1> QED
  BY <1>1, <1>2, <1>3, <1>4, <1>5, <1>6, <1>7, <1>8, <1>9, <1>10, <1>11, <1>12,
     <1>13, <1>14, <1>15, <1>16, <1>18, <1>19, <1>20, <1>21, <1>22
     DEF Next, Step, Request

\* Every variable has its type in every reachable state.
THEOREM TypeCorrect == Spec => []TypeOK
<1>1. Init => TypeOK BY TypeInit
<1>2. TypeOK /\ [Next]_vars => TypeOK' BY TypeStep
<1> QED BY <1>1, <1>2, PTL DEF Spec

-------------------------------------------------------------------------------
(* One executor                                                              *)

\* Only the call that moves changes its label.
LEMMA GotoMoves ==
    ASSUME TypeOK, NEW c \in Calls, NEW label, NEW next, Goto(c, label, next)
    PROVE  pc'[c] = next /\ \A d \in Calls : d # c => pc'[d] = pc[d]
BY DEF TypeOK, Goto

\* A step inside the loop, or outside it, leaves the loop to its owner.
LEMMA LoopKept ==
    ASSUME TypeOK, OneExecutor, NEW c \in Calls, NEW label, NEW next,
           Goto(c, label, next), pc[c] \in LoopLabels <=> next \in LoopLabels,
           executing' = executing
    PROVE  OneExecutor'
BY GotoMoves DEF OneExecutor, InLoop

\* A call that enters after it saw `executing` false is alone in the loop.
LEMMA LoopEntered ==
    ASSUME TypeOK, OneExecutor, NEW c \in Calls, NEW label, NEW next,
           Goto(c, label, next), ~executing, next \in LoopLabels, executing' = TRUE
    PROVE  OneExecutor'
BY GotoMoves DEF OneExecutor, InLoop

\* A call that clears `executing` was the only one in the loop.
LEMMA LoopLeft ==
    ASSUME TypeOK, OneExecutor, NEW c \in Calls, NEW label, NEW next,
           Goto(c, label, next), pc[c] \in LoopLabels, next \notin LoopLabels,
           executing' = FALSE
    PROVE  OneExecutor'
BY GotoMoves DEF OneExecutor, InLoop

\* What follows an announcement: the loop is entered by one call at most.
LEMMA AfterNotifyExecutor ==
    ASSUME TypeOK, OneExecutor, NEW c \in Calls, NEW label, AfterNotify(c, label),
           pc[c] = label, label \notin LoopLabels
    PROVE  OneExecutor'
<1>1. CASE c \in confirming /\ ~executing
  <2>1. Goto(c, label, "run") /\ executing' = TRUE BY <1>1 DEF AfterNotify
  <2> QED BY <2>1, <1>1, LoopEntered DEF LoopLabels
<1>2. CASE ~(c \in confirming /\ ~executing)
  <2>1. Goto(c, label, "idle") /\ executing' = executing
    BY <1>2 DEF AfterNotify, Return
  <2> QED BY <2>1, LoopKept DEF LoopLabels
<1> QED BY <1>1, <1>2

\* At the start no call is in the loop.
LEMMA OneExecutorInit == Init => OneExecutor
BY DEF Init, OneExecutor, InLoop, LoopLabels

\* Every step keeps `executing` and the loop in agreement.
LEMMA OneExecutorStep == TypeOK /\ OneExecutor /\ [Next]_vars => OneExecutor'
<1> SUFFICES ASSUME TypeOK, OneExecutor, [Next]_vars PROVE OneExecutor' OBVIOUS
<1>1. ASSUME NEW c \in Calls, Step(c) PROVE OneExecutor'
  <2>1. CASE Add(c)
    BY <2>1, LoopKept DEF Add, Resumes, LoopLabels
  <2>2. CASE Touch(c)
    <3>1. \/ Goto(c, "touch", "overview")
          \/ Goto(c, "touch", "idle")
      BY <2>2 DEF Touch, Return
    <3> QED BY <2>2, <3>1, LoopKept DEF Touch, Resumes, LoopLabels
  <2>3. CASE Lookup(c)
    <3>1. \/ Goto(c, "lookup", "confirm")
          \/ Goto(c, "lookup", "idle")
      BY <2>3 DEF Lookup, Return
    <3> QED BY <2>3, <3>1, LoopKept DEF Lookup, Resumes, LoopLabels
  <2>4. CASE Confirm(c)
    BY <2>4, LoopKept DEF Confirm, Resumes, LoopLabels
  <2>5. CASE Run(c)
    <3>1. \/ Goto(c, "run", "skill")
          \/ Goto(c, "run", "settle")
      BY <2>5 DEF Run
    <3> QED BY <2>5, <3>1, LoopKept DEF Run, Resumes, LoopLabels
  <2>6. CASE Skill(c)
    BY <2>6, LoopKept DEF Skill, Resumes, LoopLabels
  <2>7. CASE Settle(c)
    BY <2>7, LoopKept DEF Settle, Resumes, LoopLabels
  <2>8. CASE Outcome(c)
    BY <2>8, LoopKept DEF Outcome, Resumes, LoopLabels
  <2>9. CASE AppendRecord(c)
    <3>1. \/ executing' = FALSE /\ Goto(c, "append", "overview")
          \/ executing' = executing /\ Goto(c, "append", "run")
      BY <2>9 DEF AppendRecord
    <3>2. pc[c] = "append" BY <2>9 DEF AppendRecord, Resumes
    <3> QED BY <3>1, <3>2, LoopKept, LoopLeft DEF LoopLabels
  <2>10. CASE Skip(c)
    <3>1. \/ Goto(c, "skip", "overview")
          \/ Goto(c, "skip", "skipStatus")
      BY <2>10 DEF Skip
    <3> QED BY <2>10, <3>1, LoopKept DEF Skip, Resumes, LoopLabels
  <2>11. CASE SkipStatus(c)
    BY <2>11, LoopKept DEF SkipStatus, Resumes, LoopLabels
  <2>12. CASE SkipRecord(c)
    <3>1. \/ Goto(c, "skipRecord", "overview")
          \/ Goto(c, "skipRecord", "skipStatus")
      BY <2>12 DEF SkipRecord
    <3> QED BY <2>12, <3>1, LoopKept DEF SkipRecord, Resumes, LoopLabels
  <2>13. CASE GetPendingOverview(c)
    BY <2>13, LoopKept DEF GetPendingOverview, Resumes, LoopLabels
  <2>14. CASE Published(c)
    <3>1. pc[c] = "publish" BY <2>14 DEF Published, Resumes
    <3>2. \/ Goto(c, "publish", "open") /\ executing' = executing
          \/ AfterNotify(c, "publish")
      BY <2>14 DEF Published
    <3> QED BY <3>1, <3>2, LoopKept, AfterNotifyExecutor DEF LoopLabels
  <2>15. CASE Opened(c)
    <3>1. pc[c] = "open" /\ AfterNotify(c, "open") BY <2>15 DEF Opened, Resumes
    <3> QED BY <3>1, AfterNotifyExecutor DEF LoopLabels
  <2> QED
    BY <1>1, <2>1, <2>2, <2>3, <2>4, <2>5, <2>6, <2>7, <2>8, <2>9, <2>10, <2>11,
       <2>12, <2>13, <2>14, <2>15 DEF Step
<1>2. ASSUME NEW c \in Calls, Request(c) PROVE OneExecutor'
  <2>1. CASE Due(c)
    BY <2>1, LoopKept DEF Due, LoopLabels
  <2>2. ASSUME NEW ids \in SUBSET (1 .. due), ReceiveConfirm(c, ids) PROVE OneExecutor'
    BY <2>2, LoopKept DEF ReceiveConfirm, LoopLabels
  <2>3. ASSUME NEW ids \in SUBSET (1 .. due), ReceiveDismiss(c, ids) PROVE OneExecutor'
    BY <2>3, LoopKept DEF ReceiveDismiss, LoopLabels
  <2> QED BY <1>2, <2>1, <2>2, <2>3 DEF Request
<1>3. ASSUME NEW c \in Calls, Fail(c) PROVE OneExecutor'
  <2>1. PICK label \in Fallible :
          /\ pc[c] = label
          /\ \/ /\ label \in LoopLabels
                /\ executing' = FALSE /\ Goto(c, label, "overview")
             \/ /\ label \notin LoopLabels
                /\ Goto(c, label, "idle") /\ executing' = executing
    BY <1>3 DEF Fail, Resumes, Return
  <2>2. "overview" \notin LoopLabels /\ "idle" \notin LoopLabels BY DEF LoopLabels
  <2> QED BY <2>1, <2>2, LoopKept, LoopLeft
<1>4. ASSUME NEW configured \in SUBSET Schedules, Restart(configured) PROVE OneExecutor'
  BY <1>4 DEF Restart, OneExecutor, InLoop, LoopLabels
<1>5. CASE UNCHANGED vars BY <1>5 DEF vars, OneExecutor, InLoop
<1> QED BY <1>1, <1>2, <1>3, <1>4, <1>5 DEF Next

\* The executing flag excludes: at no time are two calls inside the loop, and
\* the flag is true exactly while one is, whatever fails or restarts.
THEOREM ExecutorExclusive == Spec => []OneExecutor
<1>1. Init => TypeOK /\ OneExecutor BY TypeInit, OneExecutorInit
<1>2. TypeOK /\ OneExecutor /\ [Next]_vars => (TypeOK /\ OneExecutor)'
  BY TypeStep, OneExecutorStep
<1> QED BY <1>1, <1>2, PTL DEF Spec

-------------------------------------------------------------------------------
(* The popup is told                                                         *)

\* A step that changes neither the items nor the overview, of a call that does
\* not give up an announcement it owes, leaves what is owed to somebody.
LEMMA StillOwed ==
    ASSUME TypeOK, OverviewIsOwed, NEW c \in Calls, NEW label, NEW next,
           Goto(c, label, next), status' = status, overview' = overview,
           faults' = faults,
           pc[c] \in AnnouncingLabels => next \in AnnouncingLabels
    PROVE  OverviewIsOwed'
<1>1. Pending' = Pending BY DEF Pending
<1>2. ASSUME NEW d \in Announcing PROVE d \in Announcing'
  BY <1>2, GotoMoves DEF Announcing
<1> QED BY <1>1, <1>2 DEF OverviewIsOwed

\* A call that goes on to announce owes the announcement from now on.
LEMMA NowOwed ==
    ASSUME TypeOK, NEW c \in Calls, NEW label, NEW next,
           Goto(c, label, next), next \in AnnouncingLabels
    PROVE  OverviewIsOwed'
BY GotoMoves DEF OverviewIsOwed, Announcing

\* At the start nothing is pending and nothing is announced.
LEMMA OverviewIsOwedInit == Init => OverviewIsOwed
BY DEF Init, OverviewIsOwed, Pending

\* What follows an announcement owes none.
LEMMA AfterNotifyOwed ==
    ASSUME TypeOK, OverviewIsOwed, NEW c \in Calls, NEW label, AfterNotify(c, label),
           pc[c] = label, label \notin AnnouncingLabels, status' = status,
           overview' = overview, faults' = faults
    PROVE  OverviewIsOwed'
<1>1. Goto(c, label, "run") \/ Goto(c, label, "idle") BY DEF AfterNotify, Return
<1> QED BY <1>1, StillOwed

\* Every step leaves an outdated overview to a call that will send a new one.
LEMMA OverviewIsOwedStep ==
    TypeOK /\ OneExecutor /\ OverviewIsOwed /\ [Next]_vars => OverviewIsOwed'
<1> SUFFICES ASSUME TypeOK, OneExecutor, OverviewIsOwed, [Next]_vars
             PROVE OverviewIsOwed'
  OBVIOUS
<1> DEFINE Same == /\ status' = status /\ overview' = overview /\ faults' = faults
<1>1. ASSUME NEW c \in Calls, Step(c) PROVE OverviewIsOwed'
  <2> USE DEF AnnouncingLabels, LoopLabels
  <2>1. CASE Add(c)
    BY <2>1, NowOwed DEF Add
  <2>2. CASE Touch(c)
    <3>1. CASE executing
      <4>1. Goto(c, "touch", "idle") /\ pc[c] = "touch"
        BY <2>2, <3>1 DEF Touch, Return, Resumes
      <4>2. PICK d \in Calls : pc[d] \in LoopLabels BY <3>1 DEF OneExecutor, InLoop
      <4>3. pc'[d] = pc[d] BY <4>1, <4>2, GotoMoves
      <4> QED BY <4>2, <4>3 DEF OverviewIsOwed, Announcing
    <3>2. CASE ~executing
      BY <2>2, <3>2, NowOwed DEF Touch
    <3> QED BY <3>1, <3>2
  <2>3. CASE Lookup(c)
    <3>1. Goto(c, "lookup", "confirm") \/ Goto(c, "lookup", "idle")
      BY <2>3 DEF Lookup, Return
    <3>2. Same /\ pc[c] = "lookup" BY <2>3 DEF Lookup, Resumes, stores
    <3> QED BY <3>1, <3>2, StillOwed
  <2>4. CASE Confirm(c)
    BY <2>4, NowOwed DEF Confirm
  <2>5. CASE Run(c)
    <3>1. Goto(c, "run", "skill") \/ Goto(c, "run", "settle") BY <2>5 DEF Run
    <3> QED BY <3>1, NowOwed
  <2>6. CASE Skill(c)
    BY <2>6, NowOwed DEF Skill
  <2>7. CASE Settle(c)
    BY <2>7, NowOwed DEF Settle
  <2>8. CASE Outcome(c)
    BY <2>8, NowOwed DEF Outcome
  <2>9. CASE AppendRecord(c)
    <3>1. Goto(c, "append", "overview") \/ Goto(c, "append", "run")
      BY <2>9 DEF AppendRecord
    <3> QED BY <3>1, NowOwed
  <2>10. CASE Skip(c)
    <3>1. Goto(c, "skip", "overview") \/ Goto(c, "skip", "skipStatus")
      BY <2>10 DEF Skip
    <3> QED BY <3>1, NowOwed
  <2>11. CASE SkipStatus(c)
    BY <2>11, NowOwed DEF SkipStatus
  <2>12. CASE SkipRecord(c)
    <3>1. Goto(c, "skipRecord", "overview") \/ Goto(c, "skipRecord", "skipStatus")
      BY <2>12 DEF SkipRecord
    <3> QED BY <3>1, NowOwed
  <2>13. CASE GetPendingOverview(c)
    <3>1. overview' = Pending /\ Pending' = Pending
      BY <2>13 DEF GetPendingOverview, Pending, stores
    <3> QED BY <3>1 DEF OverviewIsOwed
  <2>14. CASE Published(c)
    <3>1. pc[c] = "publish" /\ Same BY <2>14 DEF Published, Resumes, stores
    <3>2. Goto(c, "publish", "open") \/ AfterNotify(c, "publish")
      BY <2>14 DEF Published
    <3> QED BY <3>1, <3>2, StillOwed, AfterNotifyOwed
  <2>15. CASE Opened(c)
    <3>1. pc[c] = "open" /\ Same /\ AfterNotify(c, "open")
      BY <2>15 DEF Opened, Resumes, stores
    <3> QED BY <3>1, AfterNotifyOwed
  <2> QED
    BY <1>1, <2>1, <2>2, <2>3, <2>4, <2>5, <2>6, <2>7, <2>8, <2>9, <2>10, <2>11,
       <2>12, <2>13, <2>14, <2>15 DEF Step
<1>2. ASSUME NEW c \in Calls, Request(c) PROVE OverviewIsOwed'
  <2> USE DEF AnnouncingLabels, LoopLabels
  <2>1. CASE Due(c)
    <3>1. Same /\ Goto(c, "idle", "add") /\ pc[c] = "idle" BY <2>1 DEF Due, stores
    <3> QED BY <3>1, StillOwed
  <2>2. ASSUME NEW ids \in SUBSET (1 .. due), ReceiveConfirm(c, ids)
        PROVE OverviewIsOwed'
    <3>1. Same /\ Goto(c, "idle", "lookup") /\ pc[c] = "idle"
      BY <2>2 DEF ReceiveConfirm, stores
    <3> QED BY <3>1, StillOwed
  <2>3. ASSUME NEW ids \in SUBSET (1 .. due), ReceiveDismiss(c, ids)
        PROVE OverviewIsOwed'
    <3>1. Same /\ Goto(c, "idle", "skip") /\ pc[c] = "idle"
      BY <2>3 DEF ReceiveDismiss, stores
    <3> QED BY <3>1, StillOwed
  <2> QED BY <1>2, <2>1, <2>2, <2>3 DEF Request
<1>3. ASSUME NEW c \in Calls, Fail(c) PROVE OverviewIsOwed'
  BY <1>3 DEF Fail, TypeOK, OverviewIsOwed
<1>4. ASSUME NEW configured \in SUBSET Schedules, Restart(configured)
      PROVE OverviewIsOwed'
  BY <1>4 DEF Restart, TypeOK, OverviewIsOwed
<1>5. CASE UNCHANGED vars
  BY <1>5 DEF vars, stores, OverviewIsOwed, Announcing, Pending
<1> QED BY <1>1, <1>2, <1>3, <1>4, <1>5 DEF Next

\* As long as nothing failed, the popup is never left with an outdated picture:
\* somebody still has to send it what is pending now.
THEOREM OverviewOwed == Spec => []OverviewIsOwed
<1>1. Init => TypeOK /\ OneExecutor /\ OverviewIsOwed
  BY TypeInit, OneExecutorInit, OverviewIsOwedInit
<1>2. TypeOK /\ OneExecutor /\ OverviewIsOwed /\ [Next]_vars
        => (TypeOK /\ OneExecutor /\ OverviewIsOwed)'
  BY TypeStep, OneExecutorStep, OverviewIsOwedStep
<1> QED BY <1>1, <1>2, PTL DEF Spec

-------------------------------------------------------------------------------
(* The item that runs                                                        *)

\* A snapshot has one next item: Before is antisymmetric.
LEMMA NextIsUnique ==
    ASSUME NEW S, NEW i \in Items, NEW j \in Items, NextToRun(i, S), NextToRun(j, S)
    PROVE  i = j
<1>1. Before(i, j) /\ Before(j, i) BY DEF NextToRun
<1>2. RequestedAt[i] \in Nat /\ RequestedAt[j] \in Nat
  BY ScheduleExecutionAssumption
<1>3. i \in Nat /\ j \in Nat BY ScheduleExecutionAssumption DEF Items
<1> QED BY <1>1, <1>2, <1>3 DEF Before

\* A step of c makes no item "running", and c is not executing one, or goes on
\* executing it: whoever executed an item before still does.
LEMMA StillExecuted ==
    ASSUME TypeOK, RunningIsExecuted, NEW c \in Calls, NEW label, NEW next,
           Goto(c, label, next), faults' = faults,
           \A i \in Items : status'[i] = "running" => status[i] = "running",
           \A d \in Calls : d # c => todo'[d] = todo[d],
           pc[c] \in {"skill", "settle"} =>
               next \in {"skill", "settle"} /\ todo'[c] = todo[c]
    PROVE  RunningIsExecuted'
<1> SUFFICES ASSUME faults = 0, NEW i \in Items, status[i] = "running"
             PROVE \E d \in Calls :
                     pc'[d] \in {"skill", "settle"} /\ NextToRun(i, todo'[d])
  BY DEF RunningIsExecuted, NextToRun
<1>1. PICK d \in Calls : pc[d] \in {"skill", "settle"} /\ NextToRun(i, todo[d])
  BY DEF RunningIsExecuted
<1>2. pc'[d] \in {"skill", "settle"} /\ todo'[d] = todo[d] BY <1>1, GotoMoves
<1> QED BY <1>1, <1>2

\* At the start nothing runs.
LEMMA RunningIsExecutedInit == Init => RunningIsExecuted
BY DEF Init, RunningIsExecuted

\* What follows an announcement changes no item and executes none.
LEMMA AfterNotifyExecuted ==
    ASSUME TypeOK, RunningIsExecuted, NEW c \in Calls, NEW label, AfterNotify(c, label),
           pc[c] \notin {"skill", "settle"}, status' = status, faults' = faults
    PROVE  RunningIsExecuted'
<1>1. Goto(c, label, "run") \/ Goto(c, label, "idle") BY DEF AfterNotify, Return
<1>2. \A d \in Calls : d # c => todo'[d] = todo[d]
  BY DEF AfterNotify, Return, TypeOK
<1> QED BY <1>1, <1>2, StillExecuted

\* Every step keeps an executor behind every running item.
LEMMA RunningIsExecutedStep ==
    TypeOK /\ RunningIsExecuted /\ [Next]_vars => RunningIsExecuted'
<1> SUFFICES ASSUME TypeOK, RunningIsExecuted, [Next]_vars PROVE RunningIsExecuted'
  OBVIOUS
<1> DEFINE Kept(c) == /\ faults' = faults
                      /\ \A i \in Items : status'[i] = "running" => status[i] = "running"
                      /\ \A d \in Calls : d # c => todo'[d] = todo[d]
<1>1. ASSUME NEW c \in Calls, Step(c) PROVE RunningIsExecuted'
  <2>1. CASE Add(c)
    <3>1. Kept(c) /\ pc[c] = "add" BY <2>1 DEF Add, SetStatus, Resumes, TypeOK, locals
    <3> QED BY <2>1, <3>1, StillExecuted DEF Add
  <2>2. CASE Touch(c)
    <3>1. Goto(c, "touch", "overview") \/ Goto(c, "touch", "idle")
      BY <2>2 DEF Touch, Return
    <3>2. Kept(c) /\ pc[c] = "touch"
      BY <2>2 DEF Touch, Return, Resumes, TypeOK, locals, stores
    <3> QED BY <3>1, <3>2, StillExecuted
  <2>3. CASE Lookup(c)
    <3>1. Goto(c, "lookup", "confirm") \/ Goto(c, "lookup", "idle")
      BY <2>3 DEF Lookup, Return
    <3>2. Kept(c) /\ pc[c] = "lookup"
      BY <2>3 DEF Lookup, Return, Resumes, TypeOK, stores
    <3> QED BY <3>1, <3>2, StillExecuted
  <2>4. CASE Confirm(c)
    <3>1. Kept(c) /\ pc[c] = "confirm" BY <2>4 DEF Confirm, SetStatus, Resumes, TypeOK
    <3> QED BY <2>4, <3>1, StillExecuted DEF Confirm
  <2>5. CASE Run(c)
    <3>1. PICK i \in Items : NextToRun(i, todo[c]) /\ SetStatus({i}, "running")
      BY <2>5 DEF Run
    <3>2. Goto(c, "run", "skill") \/ Goto(c, "run", "settle") BY <2>5 DEF Run
    <3>3. pc[c] = "run" /\ todo' = todo /\ faults' = faults BY <2>5 DEF Run, Resumes
    <3>4. pc'[c] \in {"skill", "settle"} /\ \A d \in Calls : d # c => pc'[d] = pc[d]
      BY <3>2, GotoMoves
    <3> SUFFICES ASSUME faults = 0, NEW j \in Items, status'[j] = "running"
                 PROVE \E d \in Calls :
                         pc'[d] \in {"skill", "settle"} /\ NextToRun(j, todo[d])
      BY <3>3 DEF RunningIsExecuted, NextToRun
    <3>5. CASE j = i BY <3>1, <3>4, <3>5
    <3>6. CASE j # i
      <4>1. status[j] = "running" BY <3>1, <3>6 DEF SetStatus
      <4>2. PICK d \in Calls : pc[d] \in {"skill", "settle"} /\ NextToRun(j, todo[d])
        BY <4>1 DEF RunningIsExecuted
      <4> QED BY <4>2, <3>3, <3>4
    <3> QED BY <3>5, <3>6
  <2>6. CASE Skill(c)
    <3>1. Kept(c) /\ todo' = todo BY <2>6 DEF Skill, stores
    <3> QED BY <2>6, <3>1, StillExecuted DEF Skill
  <2>7. CASE Settle(c)
    <3>1. PICK i \in Items : NextToRun(i, todo[c]) /\ SetStatus({i}, result[c])
      BY <2>7 DEF Settle
    <3>2. todo' = todo /\ faults' = faults /\ Goto(c, "settle", "outcome")
      BY <2>7 DEF Settle, locals
    <3> SUFFICES ASSUME faults = 0, NEW j \in Items, status'[j] = "running"
                 PROVE \E d \in Calls :
                         pc'[d] \in {"skill", "settle"} /\ NextToRun(j, todo[d])
      BY <3>2 DEF RunningIsExecuted, NextToRun
    <3>3. result[c] # "running" BY DEF TypeOK
    <3>4. j # i /\ status[j] = "running" BY <3>1, <3>3 DEF SetStatus
    <3>5. PICK d \in Calls : pc[d] \in {"skill", "settle"} /\ NextToRun(j, todo[d])
      BY <3>4 DEF RunningIsExecuted
    <3>6. d # c BY <3>1, <3>4, <3>5, NextIsUnique
    <3>7. pc'[d] = pc[d] BY <3>2, <3>6, GotoMoves
    <3> QED BY <3>5, <3>7
  <2>8. CASE Outcome(c)
    <3>1. Kept(c) /\ pc[c] = "outcome" BY <2>8 DEF Outcome, Resumes, locals
    <3> QED BY <2>8, <3>1, StillExecuted DEF Outcome
  <2>9. CASE AppendRecord(c)
    <3>1. Goto(c, "append", "overview") \/ Goto(c, "append", "run")
      BY <2>9 DEF AppendRecord
    <3>2. Kept(c) /\ pc[c] = "append" BY <2>9 DEF AppendRecord, Resumes, TypeOK
    <3> QED BY <3>1, <3>2, StillExecuted
  <2>10. CASE Skip(c)
    <3>1. Goto(c, "skip", "overview") \/ Goto(c, "skip", "skipStatus")
      BY <2>10 DEF Skip
    <3>2. Kept(c) /\ pc[c] = "skip" BY <2>10 DEF Skip, SetStatus, Resumes, TypeOK
    <3> QED BY <3>1, <3>2, StillExecuted
  <2>11. CASE SkipStatus(c)
    <3>1. Kept(c) /\ pc[c] = "skipStatus" BY <2>11 DEF SkipStatus, Resumes, locals
    <3> QED BY <2>11, <3>1, StillExecuted DEF SkipStatus
  <2>12. CASE SkipRecord(c)
    <3>1. Goto(c, "skipRecord", "overview") \/ Goto(c, "skipRecord", "skipStatus")
      BY <2>12 DEF SkipRecord
    <3>2. Kept(c) /\ pc[c] = "skipRecord" BY <2>12 DEF SkipRecord, Resumes, TypeOK
    <3> QED BY <3>1, <3>2, StillExecuted
  <2>13. CASE GetPendingOverview(c)
    <3>1. Kept(c) /\ pc[c] = "overview"
      BY <2>13 DEF GetPendingOverview, Resumes, stores
    <3> QED BY <2>13, <3>1, StillExecuted DEF GetPendingOverview
  <2>14. CASE Published(c)
    <3>1. /\ pc[c] = "publish" /\ status' = status /\ faults' = faults
          /\ \/ Goto(c, "publish", "open") /\ todo' = todo
             \/ AfterNotify(c, "publish")
      BY <2>14 DEF Published, Resumes, stores, locals
    <3> QED BY <3>1, StillExecuted, AfterNotifyExecuted
  <2>15. CASE Opened(c)
    <3>1. /\ pc[c] = "open" /\ status' = status /\ faults' = faults
          /\ AfterNotify(c, "open")
      BY <2>15 DEF Opened, Resumes, stores
    <3> QED BY <3>1, AfterNotifyExecuted
  <2> QED
    BY <1>1, <2>1, <2>2, <2>3, <2>4, <2>5, <2>6, <2>7, <2>8, <2>9, <2>10, <2>11,
       <2>12, <2>13, <2>14, <2>15 DEF Step
<1>2. ASSUME NEW c \in Calls, Request(c) PROVE RunningIsExecuted'
  <2>1. CASE Due(c)
    <3>1. Kept(c) /\ pc[c] = "idle" BY <2>1 DEF Due, stores
    <3> QED BY <2>1, <3>1, StillExecuted DEF Due
  <2>2. ASSUME NEW ids \in SUBSET (1 .. due), ReceiveConfirm(c, ids)
        PROVE RunningIsExecuted'
    <3>1. Kept(c) /\ pc[c] = "idle" BY <2>2 DEF ReceiveConfirm, stores
    <3> QED BY <2>2, <3>1, StillExecuted DEF ReceiveConfirm
  <2>3. ASSUME NEW ids \in SUBSET (1 .. due), ReceiveDismiss(c, ids)
        PROVE RunningIsExecuted'
    <3>1. Kept(c) /\ pc[c] = "idle" BY <2>3 DEF ReceiveDismiss, stores
    <3> QED BY <2>3, <3>1, StillExecuted DEF ReceiveDismiss
  <2> QED BY <1>2, <2>1, <2>2, <2>3 DEF Request
<1>3. ASSUME NEW c \in Calls, Fail(c) PROVE RunningIsExecuted'
  BY <1>3 DEF Fail, TypeOK, RunningIsExecuted
<1>4. ASSUME NEW configured \in SUBSET Schedules, Restart(configured)
      PROVE RunningIsExecuted'
  BY <1>4 DEF Restart, TypeOK, RunningIsExecuted
<1>5. CASE UNCHANGED vars
  BY <1>5 DEF vars, stores, locals, RunningIsExecuted, NextToRun
<1> QED BY <1>1, <1>2, <1>3, <1>4, <1>5 DEF Next

\* As long as nothing failed, an item is "running" only while a call executes it:
\* the status never outlives the execution.
THEOREM RunningExecuted == Spec => []RunningIsExecuted
<1>1. Init => TypeOK /\ RunningIsExecuted BY TypeInit, RunningIsExecutedInit
<1>2. TypeOK /\ RunningIsExecuted /\ [Next]_vars => (TypeOK /\ RunningIsExecuted)'
  BY TypeStep, RunningIsExecutedStep
<1> QED BY <1>1, <1>2, PTL DEF Spec

-------------------------------------------------------------------------------
(* No outcome gets lost                                                      *)

\* Call c is about to write the record of the outcome of item i.
Records(c, i) ==
    \/ /\ pc[c] \in {"outcome", "append"}
       /\ result[c] = status[i] /\ NextToRun(i, todo[c])
    \/ /\ pc[c] \in {"skipStatus", "skipRecord"}
       /\ status[i] = "skipped" /\ i \in todo[c]

\* The labels at which a call still has an outcome to record.
RecordingLabels == {"outcome", "append", "skipStatus", "skipRecord"}

\* An outcome whose record is written or about to be written.
IsOwed(i) == records[i][status[i]] > 0 \/ \E c \in Calls : Records(c, i)

\* The others go on owing what they owe for an item whose status stays.
LEMMA OthersRecord ==
    ASSUME TypeOK, NEW c \in Calls, NEW label, NEW next, Goto(c, label, next),
           \A d \in Calls : d # c => todo'[d] = todo[d] /\ result'[d] = result[d],
           NEW i \in Items, status'[i] = status[i],
           NEW d \in Calls, d # c, Records(d, i)
    PROVE  Records(d, i)'
BY GotoMoves DEF Records, NextToRun

\* A step of c gives no item a new outcome and removes no record, and c owes no
\* record, or goes on owing it: every outcome is still owed.
LEMMA StillRecorded ==
    ASSUME TypeOK, RecordIsOwed, NEW c \in Calls, NEW label, NEW next,
           Goto(c, label, next), faults' = faults, records' = records,
           \A i \in Items : status'[i] \in Outcomes => status'[i] = status[i],
           \A d \in Calls : d # c => todo'[d] = todo[d] /\ result'[d] = result[d],
           \/ pc[c] \notin RecordingLabels
           \/ /\ todo'[c] = todo[c] /\ result'[c] = result[c]
              /\ \/ pc[c] = "outcome" /\ next = "append"
                 \/ pc[c] = "skipStatus" /\ next = "skipRecord"
    PROVE  RecordIsOwed'
<1> SUFFICES ASSUME faults = 0, NEW i \in Items, status'[i] \in Outcomes
             PROVE IsOwed(i)'
  BY DEF RecordIsOwed, IsOwed, Records
<1>1. status'[i] = status[i] OBVIOUS
<1>2. IsOwed(i) BY <1>1 DEF RecordIsOwed, IsOwed, Records
<1>3. CASE records[i][status[i]] > 0 BY <1>1, <1>3 DEF IsOwed
<1>4. ASSUME NEW d \in Calls, Records(d, i) PROVE IsOwed(i)'
  <2>1. CASE d # c BY <1>1, <1>4, <2>1, OthersRecord DEF IsOwed
  <2>2. CASE d = c
    <3>1. pc[c] \in RecordingLabels BY <1>4, <2>2 DEF Records, RecordingLabels
    <3>2. Records(c, i)' BY <1>1, <1>4, <2>2, <3>1, GotoMoves DEF Records, NextToRun
    <3> QED BY <3>2 DEF IsOwed
  <2> QED BY <2>1, <2>2
<1> QED BY <1>2, <1>3, <1>4 DEF IsOwed

\* Writing one record more loses none of the records there are.
LEMMA RecordAdded ==
    ASSUME TypeOK, NEW i \in Items, NEW o \in Outcomes, AddRecord(i, o)
    PROVE  /\ records'[i][o] > 0
           /\ \A j \in Items : \A p \in Outcomes : records[j][p] > 0 => records'[j][p] > 0
<1>1. records'[i] = [records[i] EXCEPT ![o] = @ + 1] BY DEF AddRecord, TypeOK
<1>2. \A j \in Items : j # i => records'[j] = records[j] BY DEF AddRecord, TypeOK
<1>3. records[i] \in [Outcomes -> Nat] BY DEF TypeOK
<1>4. records[i][o] \in Nat /\ records'[i][o] = records[i][o] + 1 BY <1>1, <1>3
<1>5. \A p \in Outcomes : p # o => records'[i][p] = records[i][p] BY <1>1, <1>3
<1> QED BY <1>2, <1>4, <1>5

\* Once c has written the record of item i, whatever else was owed is still owed,
\* provided c goes on owing the outcomes of its other items.
LEMMA RecordWritten ==
    ASSUME TypeOK, RecordIsOwed, NEW c \in Calls, NEW label, NEW next,
           Goto(c, label, next), faults' = faults, status' = status,
           \A d \in Calls : d # c => todo'[d] = todo[d] /\ result'[d] = result[d],
           NEW i \in Items, NEW o \in Outcomes, AddRecord(i, o),
           \A j \in Items : Records(c, j) => (j = i /\ status[i] = o) \/ Records(c, j)'
    PROVE  RecordIsOwed'
<1> SUFFICES ASSUME faults = 0, NEW j \in Items, status'[j] \in Outcomes
             PROVE IsOwed(j)'
  BY DEF RecordIsOwed, IsOwed, Records
<1>1. IsOwed(j) /\ status[j] \in Outcomes BY DEF RecordIsOwed, IsOwed, Records
<1>2. CASE records[j][status[j]] > 0 BY <1>1, <1>2, RecordAdded DEF IsOwed
<1>3. ASSUME NEW d \in Calls, Records(d, j) PROVE IsOwed(j)'
  <2>1. CASE d # c BY <1>3, <2>1, OthersRecord DEF IsOwed
  <2>2. CASE d = c /\ j = i /\ status[i] = o BY <2>2, RecordAdded DEF IsOwed
  <2>3. CASE d = c /\ Records(c, j)' BY <2>3 DEF IsOwed
  <2> QED BY <1>3, <2>1, <2>2, <2>3
<1> QED BY <1>1, <1>2, <1>3 DEF IsOwed

\* At the start no item has an outcome.
LEMMA RecordIsOwedInit == Init => RecordIsOwed
BY DEF Init, RecordIsOwed, Outcomes

\* What follows an announcement settles nothing.
LEMMA AfterNotifyRecorded ==
    ASSUME TypeOK, RecordIsOwed, NEW c \in Calls, NEW label, AfterNotify(c, label),
           pc[c] \notin RecordingLabels, status' = status, records' = records,
           faults' = faults
    PROVE  RecordIsOwed'
<1>1. Goto(c, label, "run") \/ Goto(c, label, "idle") BY DEF AfterNotify, Return
<1>2. \A d \in Calls : d # c => todo'[d] = todo[d] /\ result'[d] = result[d]
  BY DEF AfterNotify, Return, TypeOK
<1> QED BY <1>1, <1>2, StillRecorded

\* Every step leaves every outcome recorded, or owed by a call.
LEMMA RecordIsOwedStep == TypeOK /\ RecordIsOwed /\ [Next]_vars => RecordIsOwed'
<1> SUFFICES ASSUME TypeOK, RecordIsOwed, [Next]_vars PROVE RecordIsOwed'
  OBVIOUS
<1> DEFINE Others(c) ==
             \A d \in Calls : d # c => todo'[d] = todo[d] /\ result'[d] = result[d]
           Kept(c) ==
             /\ faults' = faults /\ records' = records
             /\ \A i \in Items : status'[i] \in Outcomes => status'[i] = status[i]
             /\ Others(c)
<1>1. ASSUME NEW c \in Calls, Step(c) PROVE RecordIsOwed'
  <2> USE DEF RecordingLabels
  <2>1. CASE Add(c)
    <3>1. Kept(c) /\ pc[c] = "add"
      BY <2>1 DEF Add, SetStatus, Resumes, TypeOK, locals, Outcomes
    <3> QED BY <2>1, <3>1, StillRecorded DEF Add
  <2>2. CASE Touch(c)
    <3>1. Goto(c, "touch", "overview") \/ Goto(c, "touch", "idle")
      BY <2>2 DEF Touch, Return
    <3>2. Kept(c) /\ pc[c] = "touch"
      BY <2>2 DEF Touch, Return, Resumes, TypeOK, locals, stores
    <3> QED BY <3>1, <3>2, StillRecorded
  <2>3. CASE Lookup(c)
    <3>1. Goto(c, "lookup", "confirm") \/ Goto(c, "lookup", "idle")
      BY <2>3 DEF Lookup, Return
    <3>2. Kept(c) /\ pc[c] = "lookup"
      BY <2>3 DEF Lookup, Return, Resumes, TypeOK, stores
    <3> QED BY <3>1, <3>2, StillRecorded
  <2>4. CASE Confirm(c)
    <3>1. Kept(c) /\ pc[c] = "confirm"
      BY <2>4 DEF Confirm, SetStatus, Resumes, TypeOK, Outcomes
    <3> QED BY <2>4, <3>1, StillRecorded DEF Confirm
  <2>5. CASE Run(c)
    <3>1. Goto(c, "run", "skill") \/ Goto(c, "run", "settle") BY <2>5 DEF Run
    <3>2. Others(c) BY <2>5 DEF Run, TypeOK
    <3>3. \A i \in Items : status'[i] \in Outcomes => status'[i] = status[i]
      BY <2>5 DEF Run, SetStatus, Outcomes
    <3>4. faults' = faults /\ records' = records /\ pc[c] = "run"
      BY <2>5 DEF Run, Resumes
    <3> QED BY <3>1, <3>2, <3>3, <3>4, StillRecorded
  <2>6. CASE Skill(c)
    <3>1. Kept(c) /\ pc[c] = "skill" BY <2>6 DEF Skill, Resumes, TypeOK, stores
    <3> QED BY <2>6, <3>1, StillRecorded DEF Skill
  <2>7. CASE Settle(c)
    <3>1. PICK i \in Items : NextToRun(i, todo[c]) /\ SetStatus({i}, result[c])
      BY <2>7 DEF Settle
    <3>2. /\ todo' = todo /\ result' = result /\ faults' = faults /\ records' = records
          /\ pc[c] = "settle" /\ Goto(c, "settle", "outcome")
      BY <2>7 DEF Settle, Resumes, locals
    <3> SUFFICES ASSUME faults = 0, NEW j \in Items, status'[j] \in Outcomes
                 PROVE IsOwed(j)'
      BY <3>2 DEF RecordIsOwed, IsOwed, Records
    <3>3. CASE j = i
      <4>1. status'[i] = result[c] BY <3>1 DEF SetStatus
      <4>2. Records(c, i)' BY <3>1, <3>2, <4>1, GotoMoves DEF Records, NextToRun
      <4> QED BY <3>3, <4>2 DEF IsOwed
    <3>4. CASE j # i
      <4>1. status'[j] = status[j] BY <3>1, <3>4 DEF SetStatus
      <4>2. IsOwed(j) BY <4>1 DEF RecordIsOwed, IsOwed, Records
      <4>3. ASSUME NEW d \in Calls, Records(d, j) PROVE IsOwed(j)'
        <5>1. d # c BY <3>2, <4>3 DEF Records
        <5>2. Records(d, j)' BY <3>2, <4>1, <4>3, <5>1, OthersRecord
        <5> QED BY <5>2 DEF IsOwed
      <4> QED BY <3>2, <4>1, <4>2, <4>3 DEF IsOwed
    <3> QED BY <3>3, <3>4
  <2>8. CASE Outcome(c)
    <3>1. Kept(c) /\ pc[c] = "outcome" /\ todo' = todo /\ result' = result
      BY <2>8 DEF Outcome, Resumes, locals
    <3> QED BY <2>8, <3>1, StillRecorded DEF Outcome
  <2>9. CASE AppendRecord(c)
    <3>1. PICK i \in Items : NextToRun(i, todo[c]) /\ AddRecord(i, result[c])
      BY <2>9 DEF AppendRecord
    <3>2. result[c] \in Outcomes BY DEF TypeOK, Outcomes
    <3>3. Goto(c, "append", "overview") \/ Goto(c, "append", "run")
      BY <2>9 DEF AppendRecord
    <3>4. Others(c) /\ faults' = faults /\ status' = status /\ pc[c] = "append"
      BY <2>9 DEF AppendRecord, Resumes, TypeOK
    <3>5. \A j \in Items : Records(c, j) => j = i /\ status[i] = result[c]
      BY <3>1, <3>4, NextIsUnique DEF Records
    <3> QED BY <3>1, <3>2, <3>3, <3>4, <3>5, RecordWritten
  <2>10. CASE Skip(c)
    <3> DEFINE items == Stored(named[c])
    <3>1. /\ SetStatus(items, "skipped")
          /\ todo' = [todo EXCEPT ![c] = items]
          /\ Goto(c, "skip", IF items = {} THEN "overview" ELSE "skipStatus")
          /\ pc[c] = "skip" /\ result' = result
          /\ faults' = faults /\ records' = records
      BY <2>10 DEF Skip, Resumes
    <3>2. Others(c) /\ todo'[c] = items BY <3>1 DEF TypeOK
    <3> SUFFICES ASSUME faults = 0, NEW j \in Items, status'[j] \in Outcomes
                 PROVE IsOwed(j)'
      BY <3>1 DEF RecordIsOwed, IsOwed, Records
    <3> HIDE DEF items
    <3>3. CASE j \in items
      <4>1. pc'[c] = "skipStatus" BY <3>1, <3>3, GotoMoves
      <4>2. status'[j] = "skipped" BY <3>1, <3>3 DEF SetStatus
      <4>3. Records(c, j)' BY <3>2, <3>3, <4>1, <4>2 DEF Records
      <4> QED BY <4>3 DEF IsOwed
    <3>4. CASE j \notin items
      <4>1. status'[j] = status[j] BY <3>1, <3>4 DEF SetStatus
      <4>2. IsOwed(j) BY <4>1 DEF RecordIsOwed, IsOwed, Records
      <4>3. ASSUME NEW d \in Calls, Records(d, j) PROVE IsOwed(j)'
        <5>1. d # c BY <3>1, <4>3 DEF Records
        <5>2. Records(d, j)' BY <3>1, <3>2, <4>1, <4>3, <5>1, OthersRecord
        <5> QED BY <5>2 DEF IsOwed
      <4> QED BY <3>1, <4>1, <4>2, <4>3 DEF IsOwed
    <3> QED BY <3>3, <3>4
  <2>11. CASE SkipStatus(c)
    <3>1. Kept(c) /\ pc[c] = "skipStatus" /\ todo' = todo /\ result' = result
      BY <2>11 DEF SkipStatus, Resumes, locals
    <3> QED BY <2>11, <3>1, StillRecorded DEF SkipStatus
  <2>12. CASE SkipRecord(c)
    <3>1. PICK i \in Items :
            /\ AddRecord(i, "skipped")
            /\ todo' = [todo EXCEPT ![c] = @ \ {i}]
            /\ Goto(c, "skipRecord", IF todo[c] = {i} THEN "overview" ELSE "skipStatus")
      BY <2>12 DEF SkipRecord
    <3>2. /\ faults' = faults /\ status' = status /\ result' = result
          /\ pc[c] = "skipRecord"
      BY <2>12 DEF SkipRecord, Resumes
    <3>3. Others(c) /\ todo'[c] = todo[c] \ {i} BY <3>1, <3>2 DEF TypeOK
    <3>4. ASSUME NEW j \in Items, Records(c, j)
          PROVE (j = i /\ status[i] = "skipped") \/ Records(c, j)'
      <4>1. status[j] = "skipped" /\ j \in todo[c] BY <3>2, <3>4 DEF Records
      <4>2. CASE j = i BY <4>1, <4>2
      <4>3. CASE j # i
        <5>1. pc'[c] = "skipStatus" BY <3>1, <4>1, <4>3, GotoMoves
        <5> QED BY <3>2, <3>3, <4>1, <4>3, <5>1 DEF Records
      <4> QED BY <4>2, <4>3
    <3>5. "skipped" \in Outcomes BY DEF Outcomes
    <3> QED BY <3>1, <3>2, <3>3, <3>4, <3>5, RecordWritten
  <2>13. CASE GetPendingOverview(c)
    <3>1. Kept(c) /\ pc[c] = "overview"
      BY <2>13 DEF GetPendingOverview, Resumes, stores
    <3> QED BY <2>13, <3>1, StillRecorded DEF GetPendingOverview
  <2>14. CASE Published(c)
    <3>1. /\ pc[c] = "publish" /\ status' = status /\ records' = records
          /\ faults' = faults
          /\ \/ Goto(c, "publish", "open") /\ todo' = todo /\ result' = result
             \/ AfterNotify(c, "publish")
      BY <2>14 DEF Published, Resumes, stores, locals
    <3> QED BY <3>1, StillRecorded, AfterNotifyRecorded
  <2>15. CASE Opened(c)
    <3>1. /\ pc[c] = "open" /\ status' = status /\ records' = records
          /\ faults' = faults /\ AfterNotify(c, "open")
      BY <2>15 DEF Opened, Resumes, stores
    <3> QED BY <3>1, AfterNotifyRecorded
  <2> QED
    BY <1>1, <2>1, <2>2, <2>3, <2>4, <2>5, <2>6, <2>7, <2>8, <2>9, <2>10, <2>11,
       <2>12, <2>13, <2>14, <2>15 DEF Step
<1>2. ASSUME NEW c \in Calls, Request(c) PROVE RecordIsOwed'
  <2> USE DEF RecordingLabels
  <2>1. CASE Due(c)
    <3>1. Kept(c) /\ pc[c] = "idle" BY <2>1 DEF Due, stores
    <3> QED BY <2>1, <3>1, StillRecorded DEF Due
  <2>2. ASSUME NEW ids \in SUBSET (1 .. due), ReceiveConfirm(c, ids)
        PROVE RecordIsOwed'
    <3>1. Kept(c) /\ pc[c] = "idle" BY <2>2 DEF ReceiveConfirm, stores
    <3> QED BY <2>2, <3>1, StillRecorded DEF ReceiveConfirm
  <2>3. ASSUME NEW ids \in SUBSET (1 .. due), ReceiveDismiss(c, ids)
        PROVE RecordIsOwed'
    <3>1. Kept(c) /\ pc[c] = "idle" BY <2>3 DEF ReceiveDismiss, stores
    <3> QED BY <2>3, <3>1, StillRecorded DEF ReceiveDismiss
  <2> QED BY <1>2, <2>1, <2>2, <2>3 DEF Request
<1>3. ASSUME NEW c \in Calls, Fail(c) PROVE RecordIsOwed'
  BY <1>3 DEF Fail, TypeOK, RecordIsOwed
<1>4. ASSUME NEW configured \in SUBSET Schedules, Restart(configured)
      PROVE RecordIsOwed'
  BY <1>4 DEF Restart, TypeOK, RecordIsOwed
<1>5. CASE UNCHANGED vars
  BY <1>5 DEF vars, stores, locals, RecordIsOwed, NextToRun
<1> QED BY <1>1, <1>2, <1>3, <1>4, <1>5 DEF Next

\* As long as nothing failed, no outcome gets lost: an item that is completed,
\* failed or skipped has a record that says so, or a call is about to write it.
THEOREM RecordOwed == Spec => []RecordIsOwed
<1>1. Init => TypeOK /\ RecordIsOwed BY TypeInit, RecordIsOwedInit
<1>2. TypeOK /\ RecordIsOwed /\ [Next]_vars => (TypeOK /\ RecordIsOwed)'
  BY TypeStep, RecordIsOwedStep
<1> QED BY <1>1, <1>2, PTL DEF Spec

-------------------------------------------------------------------------------
(* The popup around the service                                              *)

\* What may be named: items that became due.
Named == SUBSET (1 .. due)
Commands == [kind : {"confirm", "dismiss"}, ids : Named]

PopupTypes ==
    /\ Stored(Items) \in Named
    /\ \A c \in Calls : named[c] \in Named /\ todo[c] \in Named /\ seen[c] \in Named
    /\ host \in Seq(Calls)
    /\ inbox \in Seq(Named) /\ shown \in Named
    /\ sent \in Seq(Commands)
    /\ faults = 0

\* The host has the calls that wait for it, each once.
HostInv ==
    /\ \A i, j \in DOMAIN host : host[i] = host[j] => i = j
    /\ \A c \in Calls :
          pc[c] \in {"publish", "open"} <=> \E i \in DOMAIN host : host[i] = c

\* The newest of the calls that wait for the host: the last that publishes, or if none
\* does the last that opens the window.
Newest(k) ==
    \A j \in DOMAIN host :
        /\ pc[host[j]] = "publish" => pc[host[k]] = "publish" /\ j <= k
        /\ pc[host[k]] = "open" => j <= k

\* The overview sent last is the last message under way to the popup, and the newest
\* call at the host has it if it will open the window.
SentLast ==
    /\ inbox # <<>> => window /\ inbox[Len(inbox)] = overview
    /\ overview # {} /\ host # <<>> =>
          \E k \in DOMAIN host : Newest(k) /\ seen[host[k]] = overview

Dismissing ==
    \/ \E k \in DOMAIN sent : sent[k].kind = "dismiss"
    \/ \E c \in Calls : pc[c] = "skip"
Confirming ==
    \/ \E k \in DOMAIN sent : sent[k].kind = "confirm" /\ sent[k].ids \cap overview # {}
    \/ \E c \in Calls : pc[c] = "lookup" /\ named[c] \cap overview # {}
    \/ \E c \in Calls : pc[c] = "confirm"

\* When no overview is owed or under way, the popup shows the last, until it is
\* dismissed; and asks for it, until it is confirmed.
ShownLast ==
    Announcing = {} /\ overview # {} /\ host = <<>> /\ inbox = <<>> /\ ~ Dismissing
      => shown = overview /\ (mode = "pending" \/ Confirming)

\* The steps of the service that the popup does not see.
Unseen(c) ==
    \/ Add(c) \/ Touch(c)
    \/ Lookup(c) \/ Confirm(c) \/ Run(c) \/ Skill(c) \/ Settle(c)
    \/ Outcome(c) \/ AppendRecord(c)
    \/ Skip(c) \/ SkipStatus(c) \/ SkipRecord(c)

\* In such a step a call goes on within the service: to an announcement, unless it gives
\* way to the one that executes, or its snapshot is looked up.
LEMMA UnseenMoves ==
    ASSUME TypeOK, OneExecutor, NEW c \in Calls, Unseen(c)
    PROVE  \E next \in Labels :
             /\ Goto(c, pc[c], next)
             /\ pc[c] \notin {"idle", "publish", "open", "overview"}
             /\ next \notin {"publish", "open", "skip", "lookup"}
             /\ \/ next \in AnnouncingLabels
                \/ executing /\ pc[c] \notin LoopLabels
                \/ /\ pc[c] = "lookup" /\ status' = status
                   /\ next = IF named[c] \cap Pending = {} THEN "idle" ELSE "confirm"
<1> USE LabelsListed DEF Resumes, AnnouncingLabels, LoopLabels
<1>1. CASE Add(c) BY <1>1 DEF Add
<1>2. CASE Touch(c)
  <2>1. CASE executing BY <1>2, <2>1 DEF Touch, Return
  <2>2. CASE ~ executing BY <1>2, <2>2 DEF Touch
  <2> QED BY <2>1, <2>2
<1>3. CASE Lookup(c)
  <2>1. CASE named[c] \cap Pending = {} BY <1>3, <2>1 DEF Lookup, Return, stores
  <2>2. CASE named[c] \cap Pending # {} BY <1>3, <2>2 DEF Lookup, stores
  <2> QED BY <2>1, <2>2
<1>4. CASE Confirm(c) BY <1>4 DEF Confirm
<1>5. CASE Run(c)
  <2>1. Goto(c, "run", "skill") \/ Goto(c, "run", "settle") BY <1>5 DEF Run
  <2> QED BY <1>5, <2>1 DEF Run
<1>6. CASE Skill(c) BY <1>6 DEF Skill
<1>7. CASE Settle(c) BY <1>7 DEF Settle
<1>8. CASE Outcome(c) BY <1>8 DEF Outcome
<1>9. CASE AppendRecord(c)
  <2>1. Goto(c, "append", "overview") \/ Goto(c, "append", "run") BY <1>9 DEF AppendRecord
  <2> QED BY <1>9, <2>1 DEF AppendRecord
<1>10. CASE Skip(c)
  <2>1. Goto(c, "skip", "overview") \/ Goto(c, "skip", "skipStatus") BY <1>10 DEF Skip
  <2> QED BY <1>10, <2>1 DEF Skip
<1>11. CASE SkipStatus(c) BY <1>11 DEF SkipStatus
<1>12. CASE SkipRecord(c)
  <2>1. Goto(c, "skipRecord", "overview") \/ Goto(c, "skipRecord", "skipStatus")
    BY <1>12 DEF SkipRecord
  <2> QED BY <1>12, <2>1 DEF SkipRecord
<1> QED
  BY <1>1, <1>2, <1>3, <1>4, <1>5, <1>6, <1>7, <1>8, <1>9, <1>10, <1>11, <1>12
  DEF Unseen

\* It sends nothing, and names nothing new.
LEMMA UnseenNames ==
    ASSUME TypeOK, PopupTypes, NEW c \in Calls, Unseen(c)
    PROVE  /\ overview' = overview /\ faults' = faults /\ due' = due
           /\ \A d \in Calls :
                /\ d # c => named'[d] = named[d] /\ todo'[d] = todo[d] /\ seen'[d] = seen[d]
                /\ named'[d] \in Named /\ todo'[d] \in Named /\ seen'[d] \in Named
           /\ Stored(Items)' \in Named
<1> USE DEF Named, PopupTypes
<1>1. ASSUME NEW S \in Named, NEW new, SetStatus(S, new)
      PROVE  Stored(Items)' \in Named
  BY <1>1 DEF SetStatus, Stored
<1>2. ASSUME NEW i \in Items, NextToRun(i, todo[c]) \/ NextToSkip(i, todo[c])
      PROVE  {i} \in Named /\ todo[c] \ {i} \in Named
  BY <1>2 DEF NextToRun, NextToSkip
<1>3. ASSUME status' = status PROVE Stored(Items)' \in Named
  BY <1>3 DEF Stored
<1>4. ASSUME NEW label, Return(c, label)
      PROVE  \A d \in Calls :
                /\ d # c => named'[d] = named[d] /\ todo'[d] = todo[d] /\ seen'[d] = seen[d]
                /\ named'[d] \in Named /\ todo'[d] \in Named /\ seen'[d] \in Named
  BY <1>4 DEF Return, TypeOK
<1>5. CASE Add(c)
  <2>1. Stored(Items)' \in Named BY <1>1, <1>5 DEF Add
  <2> QED BY <1>5, <2>1 DEF Add, locals
<1>6. CASE Touch(c)
  <2>1. CASE executing BY <1>3, <1>4, <1>6, <2>1 DEF Touch, stores
  <2>2. CASE ~ executing BY <1>3, <1>6, <2>2 DEF Touch, locals, stores
  <2> QED BY <2>1, <2>2
<1>7. CASE Lookup(c)
  <2>1. CASE named[c] \cap Pending = {} BY <1>3, <1>4, <1>7, <2>1 DEF Lookup, stores
  <2>2. CASE named[c] \cap Pending # {}
    BY <1>3, <1>7, <2>2 DEF Lookup, stores, TypeOK
  <2> QED BY <2>1, <2>2
<1>8. CASE Confirm(c)
  <2>1. Stored(Items)' \in Named BY <1>1, <1>8 DEF Confirm
  <2> QED BY <1>8, <2>1 DEF Confirm
<1>9. CASE Run(c)
  <2>1. Stored(Items)' \in Named BY <1>1, <1>2, <1>9 DEF Run
  <2> QED BY <1>9, <2>1 DEF Run
<1>10. CASE Skill(c) BY <1>3, <1>10 DEF Skill, stores
<1>11. CASE Settle(c)
  <2>1. Stored(Items)' \in Named BY <1>1, <1>2, <1>11 DEF Settle
  <2> QED BY <1>11, <2>1 DEF Settle, locals
<1>12. CASE Outcome(c) BY <1>3, <1>12 DEF Outcome, locals
<1>13. CASE AppendRecord(c)
  <2>1. PICK i \in Items : NextToRun(i, todo[c]) /\ todo' = [todo EXCEPT ![c] = @ \ {i}]
    BY <1>13 DEF AppendRecord
  <2>2. todo[c] \ {i} \in Named BY <1>2, <2>1
  <2> QED BY <1>3, <1>13, <2>1, <2>2 DEF AppendRecord, TypeOK
<1>14. CASE Skip(c)
  <2>1. Stored(named[c]) \in Named BY DEF Stored
  <2>2. SetStatus(Stored(named[c]), "skipped") /\ todo' = [todo EXCEPT ![c] = Stored(named[c])]
    BY <1>14 DEF Skip
  <2>3. Stored(Items)' \in Named BY <1>1, <2>1, <2>2
  <2> QED BY <1>14, <2>1, <2>2, <2>3 DEF Skip, TypeOK
<1>15. CASE SkipStatus(c) BY <1>3, <1>15 DEF SkipStatus, locals
<1>16. CASE SkipRecord(c)
  <2>1. PICK i \in Items : NextToSkip(i, todo[c]) /\ todo' = [todo EXCEPT ![c] = @ \ {i}]
    BY <1>16 DEF SkipRecord
  <2>2. todo[c] \ {i} \in Named BY <1>2, <2>1
  <2> QED BY <1>3, <1>16, <2>1, <2>2 DEF SkipRecord, TypeOK
<1> QED
  BY <1>5, <1>6, <1>7, <1>8, <1>9, <1>10, <1>11, <1>12, <1>13, <1>14, <1>15, <1>16
  DEF Unseen

\* What follows an announcement names nothing new; the call enters the loop or returns.
LEMMA AfterNotifyNames ==
    ASSUME TypeOK, PopupTypes, NEW c \in Calls, NEW label, AfterNotify(c, label)
    PROVE  /\ Goto(c, label, "run") \/ Goto(c, label, "idle")
           /\ \A d \in Calls :
                /\ d # c => named'[d] = named[d] /\ todo'[d] = todo[d] /\ seen'[d] = seen[d]
                /\ named'[d] \in Named /\ todo'[d] \in Named /\ seen'[d] \in Named
<1> USE DEF PopupTypes, Named
<1>1. CASE c \in confirming /\ ~ executing BY <1>1 DEF AfterNotify, TypeOK
<1>2. CASE ~ (c \in confirming /\ ~ executing) BY <1>2 DEF AfterNotify, Return, TypeOK
<1> QED BY <1>1, <1>2

LEMMA PublishedNames ==
    ASSUME TypeOK, PopupTypes, NEW c \in Calls, Published(c)
    PROVE  /\ UNCHANGED <<due, overview, status, faults>> /\ pc[c] = "publish"
           /\ IF seen[c] # {}
              THEN Goto(c, "publish", "open")
              ELSE Goto(c, "publish", "run") \/ Goto(c, "publish", "idle")
           /\ \A d \in Calls :
                /\ d # c \/ pc'[c] = "open" => named'[d] = named[d] /\ seen'[d] = seen[d]
                /\ named'[d] \in Named /\ todo'[d] \in Named /\ seen'[d] \in Named
<1>1. UNCHANGED <<due, overview, status, faults>> /\ pc[c] = "publish"
  BY DEF Published, Resumes, stores
<1>2. CASE seen[c] # {} BY <1>1, <1>2 DEF Published, locals, PopupTypes
<1>3. CASE seen[c] = {}
  <2>1. AfterNotify(c, "publish") BY <1>3 DEF Published
  <2>2. pc'[c] # "open" BY <2>1, AfterNotifyNames, GotoMoves
  <2> QED BY <1>1, <1>3, <2>1, <2>2, AfterNotifyNames
<1> QED BY <1>2, <1>3

LEMMA OpenedNames ==
    ASSUME TypeOK, PopupTypes, NEW c \in Calls, Opened(c)
    PROVE  /\ UNCHANGED <<due, overview, status, faults>> /\ pc[c] = "open"
           /\ Goto(c, "open", "run") \/ Goto(c, "open", "idle")
           /\ \A d \in Calls :
                /\ d # c => named'[d] = named[d] /\ seen'[d] = seen[d]
                /\ named'[d] \in Named /\ todo'[d] \in Named /\ seen'[d] \in Named
BY AfterNotifyNames DEF Opened, Resumes, stores

\* The kinds of steps of the popup's system.
LEMMA PopupSteps ==
    ASSUME [PopupNext]_allVars
    PROVE  \/ \E c \in Calls :
                \/ SendOverview(c) \/ OverviewSent(c) \/ OpenWindow(c)
                \/ Unseen(c) /\ UNCHANGED popupVars
                \/ ScheduleDue(c) \/ Deliver(c)
           \/ ReceiveOverview \/ ConfirmClick \/ DismissClick \/ SendOver
           \/ UNCHANGED allVars
BY DEF PopupNext, ServiceStep, Unseen

LEMMA NamedGrows ==
    ASSUME PopupTypes, due \in Nat, due' \in Nat, due <= due'
    PROVE  /\ Named \subseteq Named' /\ Commands \subseteq Commands'
           /\ inbox \in Seq(Named') /\ sent \in Seq(Commands')
<1>1. Named \subseteq Named' BY DEF Named
<1>2. Commands \subseteq Commands' BY <1>1 DEF Commands
<1>3. ASSUME NEW X, NEW Y, X \subseteq Y, NEW s \in Seq(X) PROVE s \in Seq(Y)
  BY <1>3
<1> QED BY <1>1, <1>2, <1>3 DEF PopupTypes

LEMMA PopupTypesNext ==
    ASSUME TypeOK, TypeOK', PopupTypes, [PopupNext]_allVars
    PROVE  PopupTypes'
<1>1. Pending \in Named BY DEF PopupTypes, Named, Pending, Stored
<1>2. UNCHANGED due => Named' = Named /\ Commands' = Commands BY DEF Named, Commands
<1>3. UNCHANGED status => Stored(Items)' = Stored(Items) BY DEF Stored
<1>4. ASSUME NEW c \in Calls, SendOverview(c) PROVE PopupTypes'
  <2>1. UNCHANGED <<due, status, faults, named, todo>> /\ seen' = [seen EXCEPT ![c] = Pending]
    BY <1>4 DEF SendOverview, GetPendingOverview, stores
  <2>2. \A d \in Calls : seen'[d] \in Named BY <1>1, <2>1 DEF TypeOK, PopupTypes
  <2>3. host' \in Seq(Calls) /\ inbox' \in Seq(Named) /\ shown' = shown /\ sent' = sent
    <3>1. host' = Append(host, c) /\ inbox' = IF window THEN Append(inbox, Pending) ELSE inbox
      BY <1>4 DEF SendOverview
    <3> QED BY <1>1, <1>4, <3>1 DEF PopupTypes, SendOverview
  <2> QED BY <1>2, <1>3, <2>1, <2>2, <2>3 DEF PopupTypes
<1>5. ASSUME NEW c \in Calls, OverviewSent(c) PROVE PopupTypes'
  <2>1. Published(c) BY <1>5 DEF OverviewSent
  <2>2. UNCHANGED <<inbox, shown, sent>> BY <1>5 DEF OverviewSent
  <2>3. host' \in Seq(Calls)
    <3>1. Tail(host) \in Seq(Calls) BY <1>5 DEF OverviewSent, PopupTypes
    <3>2. host' = Append(Tail(host), c) \/ host' = Tail(host) BY <1>5 DEF OverviewSent
    <3> QED BY <3>1, <3>2
  <2> QED BY <1>2, <1>3, <2>1, <2>2, <2>3, PublishedNames DEF PopupTypes
<1>6. ASSUME NEW c \in Calls, OpenWindow(c) PROVE PopupTypes'
  <2>1. Opened(c) BY <1>6 DEF OpenWindow
  <2>2. UNCHANGED <<inbox, sent>> /\ host' = Tail(host) /\ host # <<>> BY <1>6 DEF OpenWindow
  <2>3. shown' = shown \/ shown' = seen[c] BY <1>6 DEF OpenWindow, ApplyOverview
  <2>4. host' \in Seq(Calls) /\ shown' \in Named BY <2>2, <2>3 DEF PopupTypes
  <2> QED BY <1>2, <1>3, <2>1, <2>2, <2>4, OpenedNames DEF PopupTypes
<1>7. ASSUME NEW c \in Calls, Unseen(c), UNCHANGED popupVars PROVE PopupTypes'
  BY <1>2, <1>7, UnseenNames DEF PopupTypes, popupVars
<1>8. ASSUME NEW c \in Calls, ScheduleDue(c) PROVE PopupTypes'
  <2>1. /\ due' = due + 1 /\ named' = [named EXCEPT ![c] = {due + 1}]
        /\ UNCHANGED <<status, todo, seen, faults, popupVars>>
    BY <1>8 DEF ScheduleDue, Due, stores
  <2>2. due \in Nat /\ due' \in Nat /\ due <= due' BY <2>1 DEF TypeOK
  <2>3. \A d \in Calls : named'[d] \in Named'
    <3>1. {due + 1} \in Named' BY <2>1, <2>2 DEF Named
    <3> QED BY <2>1, <2>2, <3>1, NamedGrows DEF TypeOK, PopupTypes
  <2> QED BY <1>3, <2>1, <2>2, <2>3, NamedGrows DEF PopupTypes, popupVars
<1>9. ASSUME NEW c \in Calls, Deliver(c) PROVE PopupTypes'
  <2>1. sent # <<>> /\ sent' = Tail(sent) /\ UNCHANGED <<host, inbox, shown>>
    BY <1>9 DEF Deliver
  <2>2. ReceiveConfirm(c, Head(sent).ids) \/ ReceiveDismiss(c, Head(sent).ids)
    BY <1>9 DEF Deliver
  <2>3. UNCHANGED <<due, status, faults, todo, seen>>
        /\ named' = [named EXCEPT ![c] = Head(sent).ids]
    BY <2>2 DEF ReceiveConfirm, ReceiveDismiss, stores
  <2>4. Head(sent) \in Commands /\ Tail(sent) \in Seq(Commands) BY <2>1 DEF PopupTypes
  <2>5. \A d \in Calls : named'[d] \in Named
    <3>1. Head(sent).ids \in Named BY <2>4 DEF Commands
    <3> QED BY <2>3, <3>1 DEF TypeOK, PopupTypes
  <2> QED BY <1>2, <1>3, <2>1, <2>3, <2>4, <2>5 DEF PopupTypes
<1>10. CASE ReceiveOverview
  <2>1. UNCHANGED <<vars, host, sent>> /\ inbox # <<>> /\ inbox' = Tail(inbox)
        /\ shown' = Head(inbox)
    BY <1>10 DEF ReceiveOverview, ApplyOverview
  <2>2. Tail(inbox) \in Seq(Named) /\ Head(inbox) \in Named BY <2>1 DEF PopupTypes
  <2> QED BY <1>2, <1>3, <2>1, <2>2 DEF PopupTypes, vars, stores, locals
<1>11. CASE ConfirmClick \/ DismissClick
  <2>1. PICK command \in {"confirm", "dismiss"} : Click(command) /\ shown' \in {shown, {}}
    BY <1>11 DEF ConfirmClick, DismissClick
  <2>2. UNCHANGED <<vars, host, inbox>>
        /\ sent' = Append(sent, [kind |-> command, ids |-> shown])
    BY <2>1 DEF Click
  <2>3. [kind |-> command, ids |-> shown] \in Commands BY DEF PopupTypes, Commands
  <2>4. sent' \in Seq(Commands) BY <2>2, <2>3 DEF PopupTypes
  <2>5. shown' \in Named BY <2>1 DEF PopupTypes, Named
  <2> QED BY <1>2, <1>3, <2>2, <2>4, <2>5 DEF PopupTypes, vars, stores, locals
<1>12. CASE SendOver \/ UNCHANGED allVars
  <2>1. UNCHANGED <<vars, host, inbox, shown, sent>>
    BY <1>12 DEF SendOver, allVars, popupVars
  <2> QED BY <1>2, <1>3, <2>1 DEF PopupTypes, vars, stores, locals
<1> QED BY <1>4, <1>5, <1>6, <1>7, <1>8, <1>9, <1>10, <1>11, <1>12, PopupSteps

\* A step around the service is a step of the service, or none: what it is sent names
\* items that became due.
LEMMA PopupStepRuns ==
    ASSUME PopupTypes, [PopupNext]_allVars
    PROVE  [Next]_vars
<1>1. ASSUME NEW c \in Calls, SendOverview(c) \/ OverviewSent(c) \/ OpenWindow(c) \/ Unseen(c)
      PROVE  Step(c)
  BY <1>1 DEF SendOverview, OverviewSent, OpenWindow, Unseen, Step
<1>2. ASSUME NEW c \in Calls, ScheduleDue(c) PROVE Request(c)
  BY <1>2 DEF ScheduleDue, Request
<1>3. ASSUME NEW c \in Calls, Deliver(c) PROVE Request(c)
  <2>1. sent # <<>> BY <1>3 DEF Deliver
  <2>2. Head(sent) \in Commands BY <2>1 DEF PopupTypes
  <2>3. Head(sent).ids \in SUBSET (1 .. due) BY <2>2 DEF Commands, Named
  <2> QED BY <1>3, <2>3 DEF Deliver, Request
<1>4. CASE ReceiveOverview \/ ConfirmClick \/ DismissClick \/ SendOver \/ UNCHANGED allVars
  BY <1>4 DEF ReceiveOverview, ConfirmClick, DismissClick, Click, SendOver, allVars
<1> QED BY <1>1, <1>2, <1>3, <1>4, PopupSteps DEF Next

LEMMA PopupTypesInit == ASSUME PopupInit PROVE PopupTypes
<1>1. Init /\ host = <<>> /\ inbox = <<>> /\ shown = {} /\ sent = <<>> BY DEF PopupInit
<1>2. Stored(Items) = {} BY <1>1 DEF Init, Stored
<1> QED BY <1>1, <1>2 DEF Init, PopupTypes, Named

\* The service around which the popup is built is the service on its own, whatever the user
\* clicks: what is proved of it holds there.  (Popup/index.tsx, SchedulerService.ts)
THEOREM PopupRuns == PopupSpec => Spec
<1>1. PopupInit => Init /\ TypeOK /\ PopupTypes
  BY TypeInit, PopupTypesInit DEF PopupInit
<1>2. TypeOK /\ PopupTypes /\ [PopupNext]_allVars => [Next]_vars /\ (TypeOK /\ PopupTypes)'
  BY TypeStep, PopupTypesNext, PopupStepRuns
<1> QED BY <1>1, <1>2, PTL DEF PopupSpec, Spec

LEMMA TailOf ==
    ASSUME NEW X, NEW s \in Seq(X), s # <<>>
    PROVE  /\ Len(s) \in Nat \ {0} /\ Head(s) = s[1] /\ DOMAIN s = 1 .. Len(s)
           /\ Len(Tail(s)) = Len(s) - 1 /\ DOMAIN Tail(s) = 1 .. Len(s) - 1
           /\ \A i \in 1 .. Len(s) - 1 : Tail(s)[i] = s[i + 1]
OBVIOUS

LEMMA Appended ==
    ASSUME NEW X, NEW s \in Seq(X), NEW x \in X
    PROVE  /\ Len(s) \in Nat /\ DOMAIN Append(s, x) = 1 .. Len(s) + 1
           /\ Append(s, x)[Len(s) + 1] = x
           /\ \A i \in 1 .. Len(s) : Append(s, x)[i] = s[i]
OBVIOUS

\* The host as it is after a step of call c: c joins, c at its head leaves, or comes again.
Joins(c) == host' = Append(host, c)
Leaves(c) == host # <<>> /\ Head(host) = c /\ host' = Tail(host)
Returns(c) == host # <<>> /\ Head(host) = c /\ host' = Append(Tail(host), c)

LEMMA HostMoves ==
    ASSUME PopupTypes, NEW c \in Calls
    PROVE  /\ Len(host) \in Nat /\ DOMAIN host = 1 .. Len(host)
           /\ Joins(c) => /\ DOMAIN host' = 1 .. Len(host) + 1
                          /\ host'[Len(host) + 1] = c
                          /\ \A i \in DOMAIN host : host'[i] = host[i]
           /\ Leaves(c) => /\ Len(host) > 0 /\ host[1] = c
                           /\ DOMAIN host' = 1 .. Len(host) - 1
                           /\ \A i \in 1 .. Len(host) - 1 : host'[i] = host[i + 1]
           /\ Returns(c) => /\ Len(host) > 0 /\ host[1] = c
                            /\ DOMAIN host' = DOMAIN host /\ host'[Len(host)] = c
                            /\ \A i \in 1 .. Len(host) - 1 : host'[i] = host[i + 1]
<1>1. host \in Seq(Calls) BY DEF PopupTypes
<1>2. Len(host) \in Nat /\ DOMAIN host = 1 .. Len(host) BY <1>1
<1>3. ASSUME Joins(c)
      PROVE  /\ DOMAIN host' = 1 .. Len(host) + 1
             /\ host'[Len(host) + 1] = c
             /\ \A i \in DOMAIN host : host'[i] = host[i]
  BY <1>1, <1>2, <1>3, Appended DEF Joins
<1>4. ASSUME Leaves(c)
      PROVE  /\ Len(host) > 0 /\ host[1] = c
             /\ DOMAIN host' = 1 .. Len(host) - 1
             /\ \A i \in 1 .. Len(host) - 1 : host'[i] = host[i + 1]
  BY <1>1, <1>4, TailOf DEF Leaves
<1>5. ASSUME Returns(c)
      PROVE  /\ Len(host) > 0 /\ host[1] = c
             /\ DOMAIN host' = DOMAIN host /\ host'[Len(host)] = c
             /\ \A i \in 1 .. Len(host) - 1 : host'[i] = host[i + 1]
  <2> PICK t : t = Tail(host)
    OBVIOUS
  <2>1. /\ t \in Seq(Calls) /\ Len(t) = Len(host) - 1 /\ Len(host) > 0 /\ host[1] = c
        /\ \A i \in 1 .. Len(host) - 1 : t[i] = host[i + 1]
    BY <1>1, <1>5, TailOf DEF Returns
  <2>2. host' = Append(t, c) BY <1>5 DEF Returns
  <2>3. /\ DOMAIN Append(t, c) = 1 .. Len(t) + 1
        /\ Append(t, c)[Len(t) + 1] = c
        /\ \A i \in 1 .. Len(t) : Append(t, c)[i] = t[i]
    BY <2>1, Appended
  <2> QED BY <1>2, <2>1, <2>2, <2>3
<1> QED BY <1>2, <1>3, <1>4, <1>5

\* What a step does to the host's calls.
AtHost == {"publish", "open"}

LEMMA HostSteps ==
    ASSUME TypeOK, OneExecutor, PopupTypes, [PopupNext]_allVars
    PROVE  \/ UNCHANGED <<host, pc>>
           \/ \E c \in Calls, next \in Labels :
                /\ Goto(c, pc[c], next)
                /\ \/ host' = host /\ pc[c] \notin AtHost /\ next \notin AtHost
                   \/ Joins(c) /\ pc[c] \notin AtHost /\ next = "publish"
                   \/ Returns(c) /\ pc[c] = "publish" /\ next = "open"
                   \/ Leaves(c) /\ pc[c] \in AtHost /\ next \notin AtHost
<1> USE LabelsListed DEF AtHost
<1>1. ASSUME NEW c \in Calls, SendOverview(c)
      PROVE  Joins(c) /\ Goto(c, "overview", "publish") /\ pc[c] = "overview"
  BY <1>1 DEF SendOverview, GetPendingOverview, Resumes, Joins
<1>2. ASSUME NEW c \in Calls, OverviewSent(c)
      PROVE  /\ pc[c] = "publish"
             /\ \/ Returns(c) /\ Goto(c, "publish", "open")
                \/ Leaves(c) /\ (Goto(c, "publish", "run") \/ Goto(c, "publish", "idle"))
  <2>1. Published(c) /\ host # <<>> /\ Head(host) = c BY <1>2 DEF OverviewSent
  <2>2. host' = IF pc'[c] = "open" THEN Append(Tail(host), c) ELSE Tail(host)
    BY <1>2 DEF OverviewSent
  <2>3. pc[c] = "publish" BY <2>1, PublishedNames
  <2>4. CASE Goto(c, "publish", "open")
    <3>1. pc'[c] = "open" BY <2>4, GotoMoves
    <3> QED BY <2>1, <2>2, <2>3, <2>4, <3>1 DEF Returns
  <2>5. ASSUME NEW next \in {"run", "idle"}, Goto(c, "publish", next) PROVE Leaves(c)
    <3>1. pc'[c] # "open" BY <2>5, GotoMoves
    <3> QED BY <2>1, <2>2, <3>1 DEF Leaves
  <2> QED BY <2>1, <2>3, <2>4, <2>5, PublishedNames
<1>3. ASSUME NEW c \in Calls, OpenWindow(c)
      PROVE  /\ pc[c] = "open" /\ Leaves(c)
             /\ Goto(c, "open", "run") \/ Goto(c, "open", "idle")
  BY <1>3, OpenedNames DEF OpenWindow, Leaves
<1>4. ASSUME NEW c \in Calls, Unseen(c), UNCHANGED popupVars
      PROVE  \E next \in Labels : /\ Goto(c, pc[c], next) /\ host' = host
                                  /\ pc[c] \notin AtHost /\ next \notin AtHost
  BY <1>4, UnseenMoves DEF popupVars
<1>5. ASSUME NEW c \in Calls, ScheduleDue(c)
      PROVE  Goto(c, "idle", "add") /\ pc[c] = "idle" /\ host' = host
  BY <1>5 DEF ScheduleDue, Due, popupVars
<1>6. ASSUME NEW c \in Calls, Deliver(c)
      PROVE  /\ Goto(c, "idle", "lookup") \/ Goto(c, "idle", "skip")
             /\ pc[c] = "idle" /\ host' = host
  BY <1>6 DEF Deliver, ReceiveConfirm, ReceiveDismiss
<1>7. CASE ReceiveOverview \/ ConfirmClick \/ DismissClick \/ SendOver \/ UNCHANGED allVars
  BY <1>7 DEF ReceiveOverview, ConfirmClick, DismissClick, Click, SendOver, allVars, vars,
              popupVars
<1> QED BY <1>1, <1>2, <1>3, <1>4, <1>5, <1>6, <1>7, PopupSteps

LEMMA HostNext ==
    ASSUME TypeOK, OneExecutor, PopupTypes, HostInv, [PopupNext]_allVars
    PROVE  HostInv'
<1> USE DEF AtHost
<1>1. CASE UNCHANGED <<host, pc>> BY <1>1 DEF HostInv
<1>2. ASSUME NEW c \in Calls, NEW next \in Labels, Goto(c, pc[c], next)
      PROVE  /\ pc'[c] = next /\ \A d \in Calls \ {c} : pc'[d] = pc[d]
  BY <1>2, GotoMoves
<1>3. /\ \A i, j \in DOMAIN host : host[i] = host[j] => i = j
      /\ \A d \in Calls : pc[d] \in AtHost <=> \E i \in DOMAIN host : host[i] = d
  BY DEF HostInv
<1>4. SUFFICES ASSUME NEW c \in Calls, NEW next \in Labels, Goto(c, pc[c], next),
                      \/ host' = host /\ pc[c] \notin AtHost /\ next \notin AtHost
                      \/ Joins(c) /\ pc[c] \notin AtHost /\ next = "publish"
                      \/ Returns(c) /\ pc[c] = "publish" /\ next = "open"
                      \/ Leaves(c) /\ pc[c] \in AtHost /\ next \notin AtHost
               PROVE  /\ \A i, j \in DOMAIN host' : host'[i] = host'[j] => i = j
                      /\ \A d \in Calls :
                            pc'[d] \in AtHost <=> \E i \in DOMAIN host' : host'[i] = d
  BY <1>1, HostSteps DEF HostInv
<1>5. /\ pc'[c] = next /\ \A d \in Calls \ {c} : pc'[d] = pc[d]
  BY <1>2, <1>4
<1> PICK n \in Nat : n = Len(host) /\ DOMAIN host = 1 .. n
  BY HostMoves
<1>6. CASE host' = host /\ pc[c] \notin AtHost /\ next \notin AtHost BY <1>3, <1>5, <1>6
<1>7. CASE Joins(c) /\ pc[c] \notin AtHost /\ next = "publish"
  <2>1. /\ DOMAIN host' = 1 .. n + 1 /\ host'[n + 1] = c
        /\ \A i \in 1 .. n : host'[i] = host[i]
    BY <1>7, HostMoves
  <2>2. \A i \in 1 .. n : host[i] # c BY <1>3, <1>7
  <2>3. \A i, j \in DOMAIN host' : host'[i] = host'[j] => i = j BY <1>3, <2>1, <2>2
  <2>4. ASSUME NEW d \in Calls
        PROVE  (\E i \in DOMAIN host' : host'[i] = d) <=> d = c \/ \E i \in DOMAIN host : host[i] = d
    BY <2>1
  <2> QED BY <1>3, <1>5, <1>7, <2>3, <2>4
<1>8. CASE Returns(c) /\ pc[c] = "publish" /\ next = "open"
  <2>1. /\ n > 0 /\ host[1] = c /\ DOMAIN host' = 1 .. n /\ host'[n] = c
        /\ \A i \in 1 .. n - 1 : host'[i] = host[i + 1]
    BY <1>8, HostMoves
  <2>2. \A i, j \in DOMAIN host' : host'[i] = host'[j] => i = j
    <3>1. \A i \in 1 .. n - 1 : host'[i] # c BY <1>3, <2>1
    <3>2. \A i, j \in 1 .. n - 1 : host'[i] = host'[j] => i = j BY <1>3, <2>1
    <3> QED BY <2>1, <3>1, <3>2
  <2>3. ASSUME NEW d \in Calls
        PROVE  (\E i \in DOMAIN host' : host'[i] = d) <=> \E i \in DOMAIN host : host[i] = d
    <3>1. ASSUME NEW i \in DOMAIN host', host'[i] = d PROVE \E j \in DOMAIN host : host[j] = d
      BY <2>1, <3>1
    <3>2. ASSUME NEW i \in DOMAIN host, host[i] = d PROVE \E j \in DOMAIN host' : host'[j] = d
      <4>1. CASE i = 1 BY <2>1, <3>2, <4>1
      <4>2. CASE i # 1
        <5>1. i - 1 \in 1 .. n - 1 /\ host'[i - 1] = host[i] BY <2>1, <3>2, <4>2
        <5> QED BY <2>1, <3>2, <5>1
      <4> QED BY <4>1, <4>2
    <3> QED BY <3>1, <3>2
  <2> QED BY <1>3, <1>5, <1>8, <2>2, <2>3
<1>9. CASE Leaves(c) /\ pc[c] \in AtHost /\ next \notin AtHost
  <2>1. /\ n > 0 /\ host[1] = c /\ DOMAIN host' = 1 .. n - 1
        /\ \A i \in 1 .. n - 1 : host'[i] = host[i + 1]
    BY <1>9, HostMoves
  <2>2. ASSUME NEW i \in DOMAIN host', NEW j \in DOMAIN host', host'[i] = host'[j]
        PROVE  i = j
    <3>1. host[i + 1] = host[j + 1] BY <2>1, <2>2
    <3>2. i \in Nat /\ j \in Nat /\ i + 1 \in 1 .. n /\ j + 1 \in 1 .. n BY <2>1
    <3>3. i + 1 = j + 1 BY <1>3, <3>1, <3>2
    <3> QED BY <3>2, <3>3
  <2>3. \A i \in 1 .. n - 1 : host'[i] # c BY <1>3, <2>1
  <2>4. ASSUME NEW d \in Calls, d # c
        PROVE  (\E i \in DOMAIN host' : host'[i] = d) <=> \E i \in DOMAIN host : host[i] = d
    <3>1. ASSUME NEW i \in DOMAIN host', host'[i] = d PROVE \E j \in DOMAIN host : host[j] = d
      BY <2>1, <3>1
    <3>2. ASSUME NEW i \in DOMAIN host, host[i] = d PROVE \E j \in DOMAIN host' : host'[j] = d
      <4>1. i # 1 BY <2>1, <2>4, <3>2
      <4>2. i - 1 \in 1 .. n - 1 /\ host'[i - 1] = host[i] BY <2>1, <3>2, <4>1
      <4> QED BY <2>1, <3>2, <4>2
    <3> QED BY <3>1, <3>2
  <2> QED BY <1>3, <1>5, <1>9, <2>1, <2>2, <2>3, <2>4
<1> QED BY <1>4, <1>6, <1>7, <1>8, <1>9

\* Other steps leave the host and its calls as they are.
LEMMA HostRests ==
    ASSUME TypeOK, OneExecutor, PopupTypes,
           \/ \E c \in Calls : Unseen(c) /\ UNCHANGED popupVars
           \/ \E c \in Calls : ScheduleDue(c) \/ Deliver(c)
           \/ ReceiveOverview \/ ConfirmClick \/ DismissClick \/ SendOver
           \/ UNCHANGED allVars
    PROVE  /\ UNCHANGED <<host, overview, window>>
           /\ \A d \in Calls : pc[d] \in AtHost => pc'[d] = pc[d] /\ seen'[d] = seen[d]
<1>1. ASSUME NEW c \in Calls, Unseen(c), UNCHANGED popupVars
      PROVE  /\ UNCHANGED <<host, overview, window>>
             /\ \A d \in Calls : pc[d] \in AtHost => pc'[d] = pc[d] /\ seen'[d] = seen[d]
  <2>1. UNCHANGED <<host, overview, window>> /\ \A d \in Calls \ {c} : seen'[d] = seen[d]
    BY <1>1, UnseenNames DEF popupVars
  <2>2. pc[c] \notin AtHost /\ \A d \in Calls \ {c} : pc'[d] = pc[d]
    BY <1>1, UnseenMoves, GotoMoves DEF AtHost
  <2> QED BY <2>1, <2>2
<1>2. ASSUME NEW c \in Calls, ScheduleDue(c) \/ Deliver(c)
      PROVE  /\ UNCHANGED <<host, overview, window>>
             /\ \A d \in Calls : pc[d] \in AtHost => pc'[d] = pc[d] /\ seen'[d] = seen[d]
  <2>1. UNCHANGED <<host, overview, window, seen>> /\ pc[c] = "idle"
    BY <1>2 DEF ScheduleDue, Due, Deliver, ReceiveConfirm, ReceiveDismiss, popupVars
  <2>2. Goto(c, "idle", "add") \/ Goto(c, "idle", "lookup") \/ Goto(c, "idle", "skip")
    BY <1>2 DEF ScheduleDue, Due, Deliver, ReceiveConfirm, ReceiveDismiss
  <2>3. \A d \in Calls \ {c} : pc'[d] = pc[d] BY <2>2, GotoMoves
  <2> QED BY <2>1, <2>3 DEF AtHost
<1>3. ASSUME ReceiveOverview \/ ConfirmClick \/ DismissClick \/ SendOver \/ UNCHANGED allVars
      PROVE  UNCHANGED <<host, overview, window, pc, seen>>
  BY <1>3 DEF ReceiveOverview, ConfirmClick, DismissClick, Click, SendOver, allVars, vars,
              popupVars, locals
<1> QED BY <1>1, <1>2, <1>3

\* The newest call at the host stays the newest while those before it leave or come again.
LEMMA NewestStays ==
    ASSUME TypeOK, PopupTypes, HostInv, NEW c \in Calls, NEW next,
           Goto(c, pc[c], next), overview # {}, overview' = overview,
           \A d \in Calls \ {c} : seen'[d] = seen[d],
           NEW k \in DOMAIN host, Newest(k), seen[host[k]] = overview,
           \/ /\ Returns(c) /\ pc[c] = "publish" /\ next = "open" /\ seen'[c] = seen[c]
           \/ /\ Leaves(c) /\ pc[c] = "publish" /\ next \notin AtHost /\ seen[c] = {}
           \/ /\ Leaves(c) /\ pc[c] = "open" /\ next \notin AtHost
    PROVE  \/ pc[c] = "open" /\ DOMAIN host' = {}
           \/ \E i \in DOMAIN host' : Newest(i)' /\ seen'[host'[i]] = overview'
<1> PICK n \in Nat : n = Len(host) /\ DOMAIN host = 1 .. n
  BY HostMoves
<1>1. pc'[c] = next /\ \A d \in Calls \ {c} : pc'[d] = pc[d] BY GotoMoves
<1>2. \A j \in 1 .. n : host[j] \in Calls BY DEF PopupTypes
<1>3. host[1] = c /\ n > 0 /\ \A i \in 1 .. n - 1 : host'[i] = host[i + 1]
  BY HostMoves
<1>4. \A j \in 1 .. n - 1 : host'[j] # c /\ pc'[host'[j]] = pc[host[j + 1]]
  <2>1. \A j \in 1 .. n - 1 : host[j + 1] # c /\ host[j + 1] \in Calls BY <1>2, <1>3 DEF HostInv
  <2> QED BY <1>1, <1>3, <2>1
<1>5. /\ pc[host[1]] = "publish" => pc[host[k]] = "publish"
      /\ pc[host[k]] = "open" => \A j \in 1 .. n : j <= k
      /\ \A j \in 1 .. n : pc[host[j]] = "publish" => j <= k
      /\ pc[host[k]] # "open" \/ \A j \in 1 .. n : pc[host[j]] # "publish"
  <2>1. 1 \in DOMAIN host /\ DOMAIN host = 1 .. n BY <1>3
  <2>2. \A j \in DOMAIN host :
           /\ pc[host[j]] = "publish" => pc[host[k]] = "publish" /\ j <= k
           /\ pc[host[k]] = "open" => j <= k
    BY Zenon DEF Newest
  <2>3. pc[host[k]] # "open" \/ \A j \in DOMAIN host : pc[host[j]] # "publish"
    BY <2>2
  <2> QED BY <2>1, <2>2, <2>3
<1>6. CASE k = 1 /\ Returns(c) /\ pc[c] = "publish" /\ next = "open"
  <2>1. DOMAIN host' = 1 .. n /\ host'[n] = c BY <1>6, HostMoves
  <2>2. \A j \in 1 .. n - 1 : pc'[host'[j]] # "publish" BY <1>4, <1>5, <1>6
  <2>3. Newest(n)' BY <1>1, <1>6, <2>1, <2>2 DEF Newest
  <2>4. seen'[host'[n]] = overview' BY <1>3, <1>6, <2>1
  <2> QED BY <1>3, <2>1, <2>3, <2>4
<1>7. CASE k = 1 /\ Leaves(c) /\ pc[c] = "open"
  <2>1. n = 1 BY <1>3, <1>5, <1>7
  <2>2. DOMAIN host' = {} BY <1>7, <2>1, HostMoves
  <2> QED BY <1>7, <2>2
<1>9. CASE k = 1 /\ seen[c] = {} BY <1>3, <1>9
<1>8. CASE k # 1
  <2>1. k - 1 \in 1 .. n - 1 /\ host'[k - 1] = host[k] /\ host[k] # c
    BY <1>3, <1>4, <1>8
  <2>2. k - 1 \in DOMAIN host' BY <2>1, HostMoves
  <2>3. seen'[host'[k - 1]] = overview' /\ pc'[host'[k - 1]] = pc[host[k]]
    BY <1>2, <1>4, <2>1
  <2>4. ASSUME NEW j \in 1 .. n - 1
        PROVE  /\ pc'[host'[j]] = "publish" => pc'[host'[k - 1]] = "publish" /\ j <= k - 1
               /\ pc'[host'[k - 1]] = "open" => j <= k - 1
    <3>1. j + 1 \in DOMAIN host /\ pc'[host'[j]] = pc[host[j + 1]] BY <1>4, <2>4
    <3>2. /\ pc[host[j + 1]] = "publish" => pc[host[k]] = "publish" /\ j + 1 <= k
          /\ pc[host[k]] = "open" => j + 1 <= k
      BY <3>1 DEF Newest
    <3> QED BY <2>3, <3>1, <3>2
  <2>5. CASE Leaves(c)
    <3>1. DOMAIN host' = 1 .. n - 1 BY <2>5, HostMoves
    <3>2. Newest(k - 1)' BY <2>4, <3>1 DEF Newest
    <3> QED BY <2>2, <2>3, <3>2
  <2>6. CASE Returns(c) /\ pc[c] = "publish" /\ next = "open"
    <3>1. DOMAIN host' = 1 .. n /\ host'[n] = c BY <2>6, HostMoves
    <3>2. pc[host[k]] = "publish" /\ pc'[host'[k - 1]] = "publish" /\ pc'[host'[n]] = "open"
      BY <1>1, <1>3, <1>5, <2>3, <2>6, <3>1
    <3>3. Newest(k - 1)' BY <2>4, <3>1, <3>2 DEF Newest
    <3> QED BY <2>2, <2>3, <3>3
  <2> QED BY <2>5, <2>6
<1> QED BY <1>6, <1>7, <1>8, <1>9

LEMMA SentNext ==
    ASSUME TypeOK, OneExecutor, PopupTypes, HostInv, HostInv', SentLast, [PopupNext]_allVars
    PROVE  SentLast'
<1> DEFINE InboxKept == inbox' # <<>> => window' /\ inbox'[Len(inbox')] = overview'
           HostKept == overview' # {} /\ host' # <<>> =>
                         \E k \in DOMAIN host' : Newest(k)' /\ seen'[host'[k]] = overview'
<1>1. SUFFICES InboxKept /\ HostKept
  BY DEF SentLast
<1>2. ASSUME UNCHANGED <<inbox, overview>>, window' = window \/ window' = TRUE PROVE InboxKept
  BY <1>2 DEF SentLast
<1>3. ASSUME NEW c \in Calls, SendOverview(c) PROVE InboxKept /\ HostKept
  <2>1. /\ overview' = Pending /\ seen' = [seen EXCEPT ![c] = Pending] /\ window' = window
        /\ inbox' = (IF window THEN Append(inbox, Pending) ELSE inbox)
        /\ Joins(c) /\ Goto(c, "overview", "publish")
    BY <1>3 DEF SendOverview, GetPendingOverview, Joins
  <2>2. InboxKept
    <3>1. CASE window
      <4>1. Pending \in Named BY DEF PopupTypes, Named, Pending, Stored
      <4> QED BY <2>1, <3>1, <4>1 DEF PopupTypes
    <3>2. CASE ~ window BY <2>1, <3>2 DEF SentLast
    <3> QED BY <3>1, <3>2
  <2>3. HostKept
    <3> PICK n \in Nat : n = Len(host)
      BY HostMoves
    <3>1. DOMAIN host' = 1 .. n + 1 /\ host'[n + 1] = c BY <2>1, HostMoves
    <3>2. pc'[c] = "publish" /\ seen'[c] = Pending BY <2>1, GotoMoves DEF TypeOK
    <3>3. Newest(n + 1)' BY <3>1, <3>2 DEF Newest
    <3> QED BY <2>1, <3>1, <3>2, <3>3
  <2> QED BY <2>2, <2>3
<1>4. ASSUME NEW c \in Calls, OverviewSent(c) PROVE InboxKept /\ HostKept
  <2>1. Published(c) /\ UNCHANGED <<inbox, window>> /\ host # <<>> BY <1>4 DEF OverviewSent
  <2>2. overview' = overview /\ pc[c] = "publish" /\ \A d \in Calls \ {c} : seen'[d] = seen[d]
    BY <2>1, PublishedNames
  <2>3. \/ Goto(c, "publish", "open") /\ Returns(c) /\ seen'[c] = seen[c]
        \/ /\ Goto(c, "publish", "run") \/ Goto(c, "publish", "idle")
           /\ Leaves(c) /\ seen[c] = {}
    <3>1. host' = IF pc'[c] = "open" THEN Append(Tail(host), c) ELSE Tail(host)
      BY <1>4 DEF OverviewSent
    <3>2. Head(host) = c BY <1>4 DEF OverviewSent
    <3>3. CASE seen[c] # {}
      <4>1. Goto(c, "publish", "open") /\ pc'[c] = "open"
        BY <2>1, <3>3, PublishedNames, GotoMoves
      <4> QED BY <2>1, <3>1, <3>2, <4>1, PublishedNames DEF Returns
    <3>4. CASE seen[c] = {}
      <4>1. Goto(c, "publish", "run") \/ Goto(c, "publish", "idle")
        BY <2>1, <3>4, PublishedNames
      <4>2. pc'[c] # "open" BY <4>1, GotoMoves
      <4> QED BY <2>1, <3>1, <3>2, <3>4, <4>1, <4>2 DEF Leaves
    <3> QED BY <3>3, <3>4
  <2>4. HostKept
    <3> SUFFICES ASSUME overview' # {}, host' # <<>>
                 PROVE  \E k \in DOMAIN host' : Newest(k)' /\ seen'[host'[k]] = overview'
      OBVIOUS
    <3>1. PICK k \in DOMAIN host : Newest(k) /\ seen[host[k]] = overview
      BY <2>1, <2>2 DEF SentLast
    <3>2. PICK next :
            /\ Goto(c, pc[c], next)
            /\ \/ Returns(c) /\ next = "open" /\ seen'[c] = seen[c]
               \/ Leaves(c) /\ next \notin AtHost /\ seen[c] = {}
      BY <2>2, <2>3 DEF AtHost
    <3>3. pc[c] # "open" BY <2>2
    <3>4. overview # {} BY <2>2
    <3> QED BY <2>2, <3>1, <3>2, <3>3, <3>4, NewestStays
  <2> QED BY <1>2, <2>1, <2>2, <2>4
<1>5. ASSUME NEW c \in Calls, OpenWindow(c) PROVE InboxKept /\ HostKept
  <2>1. Opened(c) /\ inbox' = inbox /\ window' = TRUE /\ Leaves(c)
    BY <1>5 DEF OpenWindow, Leaves
  <2>2. /\ overview' = overview /\ pc[c] = "open" /\ \A d \in Calls \ {c} : seen'[d] = seen[d]
        /\ Goto(c, "open", "run") \/ Goto(c, "open", "idle")
    BY <2>1, OpenedNames
  <2>3. HostKept
    <3> SUFFICES ASSUME overview' # {}, host' # <<>>
                 PROVE  \E k \in DOMAIN host' : Newest(k)' /\ seen'[host'[k]] = overview'
      OBVIOUS
    <3>1. PICK k \in DOMAIN host : Newest(k) /\ seen[host[k]] = overview
      BY <2>1, <2>2 DEF SentLast, Leaves
    <3>2. DOMAIN host' # {}
      <4>1. host' \in Seq(Calls)
        <5>1. host \in Seq(Calls) BY DEF PopupTypes
        <5> QED BY <2>1, <5>1 DEF Leaves
      <4>2. 1 \in DOMAIN host' BY <4>1, TailOf
      <4> QED BY <4>2
    <3>3. PICK next : Goto(c, pc[c], next) /\ next \notin AtHost BY <2>2 DEF AtHost
    <3>4. overview # {} BY <2>2
    <3> QED BY <2>1, <2>2, <3>1, <3>2, <3>3, <3>4, NewestStays
  <2> QED BY <1>2, <2>1, <2>2, <2>3
<1>6. ASSUME UNCHANGED <<host, overview, window>>,
             \A d \in Calls : pc[d] \in AtHost => pc'[d] = pc[d] /\ seen'[d] = seen[d]
      PROVE  HostKept
  <2> SUFFICES ASSUME overview # {}, host # <<>>
               PROVE  \E k \in DOMAIN host : Newest(k)' /\ seen'[host[k]] = overview
    BY <1>6
  <2>1. PICK k \in DOMAIN host : Newest(k) /\ seen[host[k]] = overview BY DEF SentLast
  <2>2. \A j \in DOMAIN host : host[j] \in Calls /\ pc[host[j]] \in AtHost
    <3>1. \A j \in DOMAIN host : host[j] \in Calls BY DEF PopupTypes
    <3> QED BY <3>1 DEF HostInv, AtHost
  <2>3. \A j \in DOMAIN host : pc'[host[j]] = pc[host[j]] /\ seen'[host[j]] = seen[host[j]]
    BY <1>6, <2>2
  <2>4. Newest(k)' BY <1>6, <2>1, <2>3 DEF Newest
  <2> QED BY <2>1, <2>3, <2>4
<1>7. CASE ReceiveOverview
  <2>1. HostKept BY <1>6, <1>7, HostRests
  <2>2. InboxKept
    <3>1. inbox # <<>> /\ inbox' = Tail(inbox) /\ UNCHANGED <<overview, window>>
      BY <1>7 DEF ReceiveOverview, vars
    <3>2. inbox \in Seq(Named) BY DEF PopupTypes
    <3> QED BY <3>1, <3>2, TailOf DEF SentLast
  <2> QED BY <2>1, <2>2
<1>8. CASE \/ \E c \in Calls : Unseen(c) /\ UNCHANGED popupVars
           \/ \E c \in Calls : ScheduleDue(c) \/ Deliver(c)
           \/ ConfirmClick \/ DismissClick \/ SendOver
           \/ UNCHANGED allVars
  <2>1. UNCHANGED <<host, overview, window>> BY <1>8, HostRests
  <2>2. inbox' = inbox
    BY <1>8 DEF ScheduleDue, Deliver, ConfirmClick, DismissClick, Click, SendOver, allVars,
                popupVars
  <2> QED BY <1>2, <1>6, <1>8, <2>1, <2>2, HostRests
<1> QED BY <1>3, <1>4, <1>5, <1>7, <1>8, PopupSteps

\* The last call leaves the host: if it opens the window, it does so with the last overview.
LEMMA NoneWaits ==
    ASSUME NEW s, NEW n \in Nat, DOMAIN s = 1 .. n, s = <<>>
    PROVE  n = 0
<1>1. DOMAIN s = {} OBVIOUS
<1>2. n > 0 => 1 \in DOMAIN s OBVIOUS
<1> QED BY <1>1, <1>2

LEMMA LastLeaves ==
    ASSUME PopupTypes, SentLast, NEW c \in Calls, Leaves(c), overview # {}, host' = <<>>
    PROVE  seen[c] = overview
<1>1. Len(host) \in Nat /\ Len(host) > 0 /\ host[1] = c /\ DOMAIN host = 1 .. Len(host)
      /\ DOMAIN host' = 1 .. Len(host) - 1
  BY HostMoves
<1>2. Len(host) = 1
  <2> PICK m \in Nat : m = Len(host) BY <1>1
  <2> PICK n \in Nat : m = n + 1 /\ n = m - 1 BY <1>1
  <2>1. n = 0 BY <1>1, NoneWaits
  <2> QED BY <1>1, <2>1
<1>3. PICK k \in DOMAIN host : seen[host[k]] = overview BY DEF SentLast, Leaves
<1> QED BY <1>1, <1>2, <1>3

LEMMA ShownNext ==
    ASSUME ReloadOnOpen, TypeOK, OneExecutor, OverviewIsOwed, PopupTypes, SentLast, ShownLast,
           [PopupNext]_allVars
    PROVE  ShownLast'
<1> SUFFICES ASSUME Announcing' = {}, overview' # {}, host' = <<>>, inbox' = <<>>,
                    ~ Dismissing'
             PROVE  shown' = overview' /\ (mode' = "pending" \/ Confirming')
  BY DEF ShownLast
<1> USE DEF AnnouncingLabels, LoopLabels
<1>1. ASSUME Announcing = {}, UNCHANGED <<overview, host, inbox, shown, mode>>, ~ Dismissing,
             Confirming => Confirming'
      PROVE  shown' = overview' /\ (mode' = "pending" \/ Confirming')
  BY <1>1 DEF ShownLast
<1>2. \A d \in Calls : pc'[d] \notin AnnouncingLabels BY DEF Announcing
<1>3. ASSUME NEW c \in Calls, SendOverview(c) PROVE FALSE
  <2>1. Joins(c) BY <1>3 DEF SendOverview, Joins
  <2>2. DOMAIN host' = 1 .. Len(host) + 1 /\ Len(host) \in Nat BY <2>1, HostMoves
  <2> PICK n \in Nat : n = Len(host) + 1 BY <2>2
  <2>3. n = 0 BY <2>2, NoneWaits
  <2> QED BY <2>2, <2>3
<1>4. ASSUME NEW c \in Calls, OverviewSent(c) PROVE FALSE
  <2>1. Published(c) /\ host # <<>> /\ Head(host) = c BY <1>4 DEF OverviewSent
  <2>2. host' = IF pc'[c] = "open" THEN Append(Tail(host), c) ELSE Tail(host)
    BY <1>4 DEF OverviewSent
  <2>3. CASE pc'[c] = "open"
    <3>1. Returns(c) BY <2>1, <2>2, <2>3 DEF Returns
    <3>2. DOMAIN host' = 1 .. Len(host) /\ Len(host) \in Nat /\ Len(host) > 0
      BY <3>1, HostMoves
    <3> PICK n \in Nat : n = Len(host) BY <3>2
    <3>3. n = 0 BY <3>2, NoneWaits
    <3> QED BY <3>2, <3>3
  <2>4. CASE pc'[c] # "open"
    <3>1. Leaves(c) BY <2>1, <2>2, <2>4 DEF Leaves
    <3>2. overview' = overview BY <2>1, PublishedNames
    <3>3. seen[c] = overview BY <3>1, <3>2, LastLeaves
    <3>4. Goto(c, "publish", "open") BY <2>1, <3>2, <3>3, PublishedNames
    <3> QED BY <2>4, <3>4, GotoMoves
  <2> QED BY <2>3, <2>4
<1>5. ASSUME NEW c \in Calls, OpenWindow(c)
      PROVE  shown' = overview' /\ mode' = "pending"
  <2>1. Leaves(c) /\ ApplyOverview(seen[c]) BY <1>5 DEF OpenWindow, Leaves
  <2>2. overview' = overview BY <1>5, OpenedNames DEF OpenWindow
  <2>3. seen[c] = overview BY <2>1, <2>2, LastLeaves
  <2> QED BY <2>1, <2>2, <2>3 DEF ApplyOverview
<1>6. ASSUME NEW c \in Calls, Unseen(c), UNCHANGED popupVars
      PROVE  shown' = overview' /\ (mode' = "pending" \/ Confirming')
  <2>1. PICK next \in Labels :
          /\ Goto(c, pc[c], next)
          /\ pc[c] \notin {"idle", "publish", "open", "overview"}
          /\ next \notin {"publish", "open", "skip", "lookup"}
          /\ \/ next \in AnnouncingLabels
             \/ executing /\ pc[c] \notin LoopLabels
             \/ /\ pc[c] = "lookup" /\ status' = status
                /\ next = IF named[c] \cap Pending = {} THEN "idle" ELSE "confirm"
    BY <1>6, UnseenMoves
  <2>2. pc'[c] = next /\ \A d \in Calls \ {c} : pc'[d] = pc[d] BY <2>1, GotoMoves
  <2>3. next \notin AnnouncingLabels BY <1>2, <2>2
  <2>4. ~ (executing /\ pc[c] \notin LoopLabels)
    <3> SUFFICES ASSUME executing, pc[c] \notin LoopLabels PROVE FALSE
      OBVIOUS
    <3>1. PICK d \in Calls : pc[d] \in LoopLabels BY DEF OneExecutor, InLoop
    <3>2. d # c BY <3>1
    <3> QED BY <1>2, <2>2, <3>1, <3>2
  <2>5. /\ pc[c] = "lookup" /\ status' = status
        /\ next = IF named[c] \cap Pending = {} THEN "idle" ELSE "confirm"
    BY <2>1, <2>3, <2>4
  <2>6. Announcing = {} BY <1>2, <2>2, <2>5 DEF Announcing
  <2>7. UNCHANGED <<overview, host, inbox, shown, mode, sent>>
        /\ \A d \in Calls \ {c} : named'[d] = named[d]
    BY <1>6, UnseenNames DEF popupVars
  <2>8. ~ Dismissing BY <2>2, <2>5, <2>7 DEF Dismissing
  <2>9. overview = Pending BY <2>6 DEF OverviewIsOwed, PopupTypes
  <2>10. Confirming => Confirming'
    <3> SUFFICES ASSUME Confirming PROVE Confirming'
      OBVIOUS
    <3>1. CASE \E k \in DOMAIN sent : sent[k].kind = "confirm" /\ sent[k].ids \cap overview # {}
      BY <2>7, <3>1 DEF Confirming
    <3>2. ASSUME NEW d \in Calls, pc[d] = "lookup", named[d] \cap overview # {}
          PROVE  Confirming'
      <4>1. CASE d = c
        <5>1. pc'[c] = "confirm" BY <2>2, <2>5, <2>9, <3>2, <4>1
        <5> QED BY <5>1 DEF Confirming
      <4>2. CASE d # c BY <2>2, <2>7, <3>2, <4>2 DEF Confirming
      <4> QED BY <4>1, <4>2
    <3>3. ASSUME NEW d \in Calls, pc[d] = "confirm" PROVE Confirming'
      <4>1. pc'[d] = "confirm" BY <2>2, <2>5, <3>3
      <4> QED BY <4>1 DEF Confirming
    <3> QED BY <3>1, <3>2, <3>3 DEF Confirming
  <2> QED BY <1>1, <2>6, <2>7, <2>8, <2>10
<1>7. ASSUME NEW c \in Calls, ScheduleDue(c)
      PROVE  shown' = overview' /\ (mode' = "pending" \/ Confirming')
  <2>1. Due(c) /\ UNCHANGED popupVars BY <1>7 DEF ScheduleDue
  <2>2. pc[c] = "idle" /\ Goto(c, "idle", "add") /\ overview' = overview
        /\ \A d \in Calls \ {c} : named'[d] = named[d]
    BY <2>1 DEF Due, TypeOK
  <2>3. pc'[c] = "add" /\ \A d \in Calls \ {c} : pc'[d] = pc[d] BY <2>2, GotoMoves
  <2>4. Announcing = {} BY <1>2, <2>2, <2>3 DEF Announcing
  <2>5. ~ Dismissing BY <2>1, <2>2, <2>3 DEF Dismissing, popupVars
  <2>6. \A d \in Calls : pc[d] \in {"lookup", "confirm"} =>
                            pc'[d] = pc[d] /\ named'[d] = named[d]
    BY <2>2, <2>3
  <2>7. Confirming => Confirming' BY <2>1, <2>2, <2>6 DEF Confirming, popupVars
  <2> QED BY <1>1, <2>1, <2>2, <2>4, <2>5, <2>7 DEF popupVars
<1>8. ASSUME NEW c \in Calls, Deliver(c)
      PROVE  shown' = overview' /\ (mode' = "pending" \/ Confirming')
  <2>1. sent # <<>> /\ sent' = Tail(sent) /\ UNCHANGED <<host, inbox, shown, mode>>
    BY <1>8 DEF Deliver
  <2> PICK ids : ids = Head(sent).ids
    OBVIOUS
  <2>2. \/ Head(sent).kind = "confirm" /\ ReceiveConfirm(c, ids)
        \/ Head(sent).kind = "dismiss" /\ ReceiveDismiss(c, ids)
    BY <1>8 DEF Deliver
  <2>3. ~ ReceiveDismiss(c, ids)
    <3> SUFFICES ASSUME ReceiveDismiss(c, ids) PROVE FALSE
      OBVIOUS
    <3>1. pc'[c] = "skip" BY GotoMoves DEF ReceiveDismiss
    <3> QED BY <3>1 DEF Dismissing
  <2>4. Head(sent).kind = "confirm" /\ ReceiveConfirm(c, ids) BY <2>2, <2>3
  <2>5. pc[c] = "idle" /\ Goto(c, "idle", "lookup") /\ overview' = overview
        /\ named' = [named EXCEPT ![c] = ids]
    BY <2>4 DEF ReceiveConfirm
  <2>6. pc'[c] = "lookup" /\ \A d \in Calls \ {c} : pc'[d] = pc[d] BY <2>5, GotoMoves
  <2>7. named'[c] = ids /\ \A d \in Calls \ {c} : named'[d] = named[d] BY <2>5 DEF TypeOK
  <2>8. Announcing = {} BY <1>2, <2>5, <2>6 DEF Announcing
  <2> PICK n \in Nat \ {0} : n = Len(sent)
    BY <2>1, TailOf DEF PopupTypes
  <2>9. /\ DOMAIN sent = 1 .. n /\ sent[1] = Head(sent) /\ DOMAIN sent' = 1 .. n - 1
        /\ \A i \in 1 .. n - 1 : sent'[i] = sent[i + 1]
    BY <2>1, TailOf DEF PopupTypes
  <2>10. \A k \in DOMAIN sent : k # 1 => k - 1 \in DOMAIN sent' /\ sent'[k - 1] = sent[k]
    BY <2>9
  <2>11. ~ Dismissing
    <3>1. ASSUME NEW k \in DOMAIN sent, sent[k].kind = "dismiss" PROVE FALSE
      <4>1. k # 1 BY <2>4, <2>9, <3>1
      <4>2. k - 1 \in DOMAIN sent' /\ sent'[k - 1].kind = "dismiss" BY <2>10, <3>1, <4>1
      <4> QED BY <4>2 DEF Dismissing
    <3>2. ASSUME NEW d \in Calls, pc[d] = "skip" PROVE FALSE
      <4>1. pc'[d] = "skip" BY <2>5, <2>6, <3>2
      <4> QED BY <4>1 DEF Dismissing
    <3> QED BY <3>1, <3>2 DEF Dismissing
  <2>12. Confirming => Confirming'
    <3> SUFFICES ASSUME Confirming PROVE Confirming'
      OBVIOUS
    <3>1. ASSUME NEW k \in DOMAIN sent, sent[k].kind = "confirm", sent[k].ids \cap overview # {}
          PROVE  Confirming'
      <4>1. CASE k = 1
        <5>1. pc'[c] = "lookup" /\ named'[c] \cap overview' # {}
          BY <2>5, <2>6, <2>7, <2>9, <3>1, <4>1
        <5> QED BY <5>1 DEF Confirming
      <4>2. CASE k # 1
        <5>1. k - 1 \in DOMAIN sent' /\ sent'[k - 1].kind = "confirm"
              /\ sent'[k - 1].ids \cap overview' # {}
          BY <2>5, <2>10, <3>1, <4>2
        <5> QED BY <5>1 DEF Confirming
      <4> QED BY <4>1, <4>2
    <3>2. ASSUME NEW d \in Calls, \/ pc[d] = "lookup" /\ named[d] \cap overview # {}
                                  \/ pc[d] = "confirm"
          PROVE  Confirming'
      <4>1. d # c BY <2>5, <3>2
      <4> QED BY <2>5, <2>6, <2>7, <3>2, <4>1 DEF Confirming
    <3> QED BY <3>1, <3>2 DEF Confirming
  <2> QED BY <1>1, <2>1, <2>5, <2>8, <2>11, <2>12
<1>9. ASSUME ReceiveOverview PROVE shown' = overview' /\ mode' = "pending"
  <2>1. inbox # <<>> /\ inbox' = Tail(inbox) /\ ApplyOverview(Head(inbox))
        /\ overview' = overview
    BY <1>9 DEF ReceiveOverview, vars
  <2> PICK n \in Nat \ {0} : n = Len(inbox)
    BY <2>1, TailOf DEF PopupTypes
  <2>2. Head(inbox) = inbox[1] /\ DOMAIN inbox' = 1 .. n - 1
    BY <2>1, TailOf DEF PopupTypes
  <2>3. n = 1
    <3> PICK m \in Nat : n = m + 1 /\ m = n - 1 OBVIOUS
    <3>1. m = 0 BY <2>2, NoneWaits
    <3> QED BY <3>1
  <2>4. Head(inbox) = overview BY <2>1, <2>2, <2>3 DEF SentLast
  <2> QED BY <2>1, <2>4 DEF ApplyOverview
<1>10. ASSUME ConfirmClick \/ DismissClick
       PROVE  shown' = overview' /\ (mode' = "pending" \/ Confirming')
  <2> PICK n \in Nat : n = Len(sent)
    BY Appended DEF PopupTypes
  <2>1. PICK command \in {"confirm", "dismiss"} :
          /\ Click(command)
          /\ command = "confirm" => shown' = shown
    BY <1>10 DEF ConfirmClick, DismissClick
  <2>2. UNCHANGED <<vars, host, inbox>>
        /\ sent' = Append(sent, [kind |-> command, ids |-> shown])
    BY <2>1 DEF Click
  <2>3. [kind |-> command, ids |-> shown] \in Commands BY DEF PopupTypes, Commands
  <2>4. /\ DOMAIN sent = 1 .. n /\ DOMAIN sent' = 1 .. n + 1
        /\ sent'[n + 1] = [kind |-> command, ids |-> shown]
        /\ \A i \in 1 .. n : sent'[i] = sent[i]
    <3>1. sent \in Seq(Commands) BY DEF PopupTypes
    <3>2. DOMAIN sent = 1 .. n BY <3>1
    <3> QED BY <2>2, <2>3, <3>1, <3>2, Appended
  <2>5. command = "confirm"
    <3>1. n + 1 \in DOMAIN sent' BY <2>4
    <3>2. sent'[n + 1].kind = command BY <2>4
    <3> QED BY <3>1, <3>2 DEF Dismissing
  <2>6. Announcing = {} /\ overview' = overview /\ pc' = pc
    BY <2>2 DEF Announcing, vars
  <2>7. ~ Dismissing BY <2>4, <2>6 DEF Dismissing
  <2>8. shown = overview BY <2>2, <2>6, <2>7 DEF ShownLast
  <2>9. Confirming'
    <3>1. n + 1 \in DOMAIN sent' BY <2>4
    <3>2. sent'[n + 1].kind = "confirm" /\ sent'[n + 1].ids \cap overview' # {}
      BY <2>4, <2>5, <2>6, <2>8
    <3> QED BY <3>1, <3>2 DEF Confirming
  <2> QED BY <2>1, <2>5, <2>6, <2>8, <2>9
<1>11. CASE SendOver \/ UNCHANGED allVars
  <2>1. UNCHANGED <<vars, host, inbox, mode, shown, sent>>
    BY <1>11 DEF SendOver, allVars, popupVars
  <2>2. Announcing = {} /\ ~ Dismissing /\ (Confirming => Confirming')
    BY <2>1 DEF Announcing, Dismissing, Confirming, vars, locals
  <2> QED BY <1>1, <2>1, <2>2 DEF vars
<1> QED BY <1>3, <1>4, <1>5, <1>6, <1>7, <1>8, <1>9, <1>10, <1>11, PopupSteps

LEMMA PopupInvInit == ASSUME PopupInit PROVE HostInv /\ SentLast /\ ShownLast
<1>1. Init /\ host = <<>> /\ inbox = <<>> BY DEF PopupInit
<1> QED BY <1>1 DEF Init, HostInv, SentLast, ShownLast

\* However many calls announce what is pending and open the window, and whatever is clicked
\* meanwhile: when all is at rest, what is pending is what the store of the popup asks for,
\* if opening the window loads its page.
\* (SchedulerService.ts: notifyPendingOverview; Popup/index.tsx: PopupExecutionStore)
THEOREM PopupStaysCurrent ==
    ASSUME ReloadOnOpen
    PROVE  PopupSpec => []PopupIsCurrent
<1> DEFINE ServiceInv == TypeOK /\ OneExecutor /\ OverviewIsOwed
           PopupInv == PopupTypes /\ HostInv /\ SentLast /\ ShownLast
<1>1. PopupInit => ServiceInv /\ PopupInv
  BY TypeInit, OneExecutorInit, OverviewIsOwedInit, PopupTypesInit, PopupInvInit DEF PopupInit
<1>2. ServiceInv /\ PopupInv /\ [PopupNext]_allVars => (ServiceInv /\ PopupInv)'
  <2> SUFFICES ASSUME ServiceInv, PopupInv, [PopupNext]_allVars PROVE (ServiceInv /\ PopupInv)'
    OBVIOUS
  <2>1. [Next]_vars BY PopupStepRuns
  <2>2. ServiceInv' BY <2>1, TypeStep, OneExecutorStep, OverviewIsOwedStep
  <2>3. PopupTypes' /\ HostInv' BY <2>2, PopupTypesNext, HostNext
  <2>4. SentLast' /\ ShownLast' BY <2>3, SentNext, ShownNext
  <2> QED BY <2>2, <2>3, <2>4
<1>3. ServiceInv /\ PopupInv => PopupIsCurrent
  <2> SUFFICES ASSUME ServiceInv, PopupInv, AtRest, Pending # {}
               PROVE  mode = "pending" /\ shown = Pending
    BY DEF PopupIsCurrent
  <2>1. /\ \A c \in Calls : pc[c] = "idle"
        /\ inbox = <<>> /\ sent = <<>>
    BY DEF AtRest
  <2>2. Announcing = {} BY <2>1 DEF Announcing, AnnouncingLabels, LoopLabels
  <2>3. overview = Pending BY <2>2 DEF OverviewIsOwed, PopupTypes
  <2>4. host = <<>>
    <3> SUFFICES ASSUME host # <<>> PROVE FALSE
      OBVIOUS
    <3>1. host \in Seq(Calls) BY DEF PopupTypes
    <3>2. 1 \in DOMAIN host /\ host[1] \in Calls BY <3>1, TailOf
    <3>3. pc[host[1]] \in {"publish", "open"} BY <3>2 DEF HostInv
    <3> QED BY <2>1, <3>2, <3>3
  <2>5. ~ Dismissing /\ ~ Confirming BY <2>1 DEF Dismissing, Confirming
  <2> QED BY <2>1, <2>2, <2>3, <2>4, <2>5 DEF ShownLast
<1> HIDE DEF ServiceInv, PopupInv
<1> QED BY <1>1, <1>2, <1>3, PTL DEF PopupSpec
===============================================================================
