----------------------------- MODULE ChatRun_proofs -----------------------------
(***************************************************************************)
(* Proofs about the runs of the assistant window and about what the window *)
(* shows of them, for any number of runs and of actions in their streams.  *)
(***************************************************************************)
EXTENDS AssistantWindow, FiniteSetTheorems, TLAPS

-------------------------------------------------------------------------------
(* One end                                                                   *)

RunTypes ==
    /\ phase \in [Runs -> {"unsent", "creating", "over"} \cup Live]
    /\ home \in [Runs -> Sessions]
    /\ actions \in [Runs -> Nat]
    /\ aborted \in SUBSET Runs /\ active \in SUBSET Runs
    /\ uploads \in [Runs -> Seq({"completed", "failed", "cancelled"})]

\* The transport knows exactly the runs that are live and not aborted; nothing is
\* uploaded for them, and once for every other one that was begun.
Uploaded ==
    \A r \in Runs :
        /\ r \in active <=> phase[r] \in Live /\ r \notin aborted
        /\ phase[r] \in {"unsent", "creating"} =>
              home[r] = Draft /\ uploads[r] = <<>> /\ r \notin aborted
        /\ phase[r] \in Live => home[r] # Draft
        /\ r \in active => Len(uploads[r]) = 0
        /\ phase[r] \in Live /\ r \in aborted => Len(uploads[r]) = 1
        /\ phase[r] = "over" /\ home[r] = Draft => Len(uploads[r]) = 0
        /\ phase[r] = "over" /\ home[r] # Draft => Len(uploads[r]) = 1

EndInv == RunTypes /\ Uploaded

LEMMA EndInit == Init => EndInv
<1>1. Draft \in Sessions BY ChatRunAssumption DEF Draft, Sessions
<1> QED BY <1>1 DEF Init, EndInv, RunTypes, Uploaded, Live

\* The end of a run the transport knows is its first upload; the run is over, or
\* aborted and about to notice.
LEMMA FinishKeeps ==
    ASSUME EndInv, NEW r \in active, NEW end \in {"completed", "failed", "cancelled"},
           Finish(r, end), home' = home, actions' = actions,
           \/ phase' = [phase EXCEPT ![r] = "over"] /\ aborted' = aborted
           \/ phase' = phase /\ aborted' = aborted \cup {r}
    PROVE  EndInv'
<1> DEFINE Ends == {"completed", "failed", "cancelled"}
<1>1. r \in Runs /\ phase[r] \in Live /\ r \notin aborted /\ home[r] # Draft
  BY DEF EndInv, RunTypes, Uploaded
<1>2. uploads \in [Runs -> Seq(Ends)] /\ Len(uploads[r]) = 0
  BY <1>1 DEF EndInv, RunTypes, Uploaded
<1>3. uploads' = [uploads EXCEPT ![r] = Append(uploads[r], end)] BY DEF Finish
<1>4. Append(uploads[r], end) \in Seq(Ends) /\ Len(Append(uploads[r], end)) = 1
  BY <1>1, <1>2
<1>5. uploads' \in [Runs -> Seq(Ends)] /\ Len(uploads'[r]) = 1 BY <1>1, <1>2, <1>3, <1>4
<1>6. ASSUME NEW q \in Runs, q # r PROVE uploads'[q] = uploads[q] BY <1>2, <1>3, <1>6
<1>7. active' = active \ {r} BY DEF Finish
<1>8. RunTypes' BY <1>1, <1>5, <1>7 DEF EndInv, RunTypes, Live
<1>9. Uploaded'
  BY <1>1, <1>5, <1>6, <1>7 DEF EndInv, RunTypes, Uploaded, Live
<1> QED BY <1>8, <1>9 DEF EndInv

LEMMA EndStep == EndInv /\ [Next]_vars => EndInv'
<1> SUFFICES ASSUME EndInv, [Next]_vars PROVE EndInv'
  OBVIOUS
<1> USE DEF EndInv, RunTypes, Uploaded, Live
<1>1. ASSUME NEW r \in Runs, NEW s \in Sessions, SendMessage(r, s) PROVE EndInv'
  <2>1. CASE s = Draft BY <1>1, <2>1 DEF SendMessage
  <2>2. CASE s # Draft
    <3>1. /\ phase' = [phase EXCEPT ![r] = "fetch"] /\ home' = [home EXCEPT ![r] = s]
          /\ active' = active \cup {r} /\ phase[r] = "unsent"
          /\ UNCHANGED <<actions, aborted, uploads>>
      BY <1>1, <2>2 DEF SendMessage, Begin
    <3>2. RunTypes' BY <3>1
    <3>3. Uploaded' BY <3>1, <2>2
    <3> QED BY <3>2, <3>3
  <2> QED BY <2>1, <2>2
<1>2. ASSUME NEW s \in Sessions, CancelRun(s) PROVE EndInv'
  <2> DEFINE r == view[s].run
  <2>1. /\ r \in active /\ Finish(r, "cancelled") /\ aborted' = aborted \cup {r}
        /\ home' = home /\ actions' = actions /\ phase' = phase
    BY <1>2 DEF CancelRun
  <2> HIDE DEF r
  <2> QED BY <2>1, FinishKeeps
<1>3. ASSUME NEW r \in Runs, Step(r) PROVE EndInv'
  <2>1. CASE Created(r)
    <3>1. r # Draft /\ r \in Sessions BY DEF Runs, Sessions, Draft
    <3> QED BY <2>1, <3>1 DEF Created, Begin
  <2>2. CASE CreateFailed(r) BY <2>2 DEF CreateFailed
  <2>3. CASE Connected(r) BY <2>3 DEF Connected
  <2>4. CASE StreamText(r) BY <2>4 DEF StreamText, runVars
  <2>5. CASE StreamAction(r)
    <3>1. phase' = phase \/ phase' = [phase EXCEPT ![r] = "tool"] BY <2>5 DEF StreamAction
    <3>2. actions' \in [Runs -> Nat] BY <2>5 DEF StreamAction
    <3>3. phase[r] = "stream" /\ UNCHANGED <<home, aborted, active, uploads>>
      BY <2>5 DEF StreamAction
    <3> QED BY <3>1, <3>2, <3>3
  <2>6. CASE ToolDone(r) BY <2>6 DEF ToolDone
  <2>7. CASE Reported(r) BY <2>7 DEF Reported
  <2>8. CASE StreamEnd(r)
    <3>1. /\ r \in active /\ Finish(r, "completed") /\ home' = home /\ actions' = actions
          /\ phase' = [phase EXCEPT ![r] = "over"] /\ aborted' = aborted
      BY <2>8 DEF StreamEnd
    <3> QED BY <3>1, FinishKeeps
  <2>9. CASE RunFailed(r)
    <3>1. /\ r \in active /\ Finish(r, "failed") /\ home' = home /\ actions' = actions
          /\ phase' = [phase EXCEPT ![r] = "over"] /\ aborted' = aborted
      BY <2>9 DEF RunFailed
    <3> QED BY <3>1, FinishKeeps
  <2>10. CASE Stopped(r) BY <2>10 DEF Stopped
  <2> QED BY <1>3, <2>1, <2>2, <2>3, <2>4, <2>5, <2>6, <2>7, <2>8, <2>9, <2>10 DEF Step
<1>4. CASE UNCHANGED vars BY <1>4 DEF vars, runVars
<1> QED BY <1>1, <1>2, <1>3, <1>4 DEF Next

LEMMA EndIsOne == EndInv => OneEnd
<1> SUFFICES ASSUME EndInv, NEW r \in Runs
             PROVE /\ Len(uploads[r]) <= 1
                   /\ phase[r] \in Live => (uploads[r] # <<>> <=> r \in aborted)
                   /\ phase[r] = "over" /\ home[r] # Draft => uploads[r] # <<>>
  BY DEF OneEnd
<1>1. /\ uploads[r] \in Seq({"completed", "failed", "cancelled"})
      /\ phase[r] \in {"unsent", "creating", "over"} \cup Live
  BY DEF EndInv, RunTypes
<1>2. uploads[r] = <<>> <=> Len(uploads[r]) = 0 BY <1>1
<1>3. Len(uploads[r]) \in {0, 1} BY <1>1, <1>2 DEF EndInv, Uploaded
<1>4. phase[r] \in Live => (uploads[r] # <<>> <=> r \in aborted)
  BY <1>2 DEF EndInv, Uploaded
<1>5. phase[r] = "over" /\ home[r] # Draft => uploads[r] # <<>>
  BY <1>2 DEF EndInv, Uploaded
<1> QED BY <1>3, <1>4, <1>5

\* However its stream, its tools and the user's cancellation interleave, a run ends
\* once: one record of it is uploaded, as cancelled if it was cancelled.
THEOREM EndsOnce == Spec => []OneEnd
<1> QED BY EndInit, EndStep, EndIsOne, PTL DEF Spec

-------------------------------------------------------------------------------
(* What the stores show                                                      *)

ShownSteps == [run : Runs, id : CallIds, status : {"running", "success", "failed"}]
ShownRuns ==
    [run : Runs \cup {0}, status : {"none", "running", "completed", "failed", "cancelled"},
     steps : SUBSET ShownSteps]

StoreTypes ==
    /\ sessions \in SUBSET Sessions
    /\ during \in [Runs -> SUBSET Runs]
    /\ view \in [Sessions -> ShownRuns]
    /\ chat \in [Sessions -> {"idle", "running", "failed"}]

GoesOn(s) == \E r \in active : home[r] = s

\* The session of a run the transport knows shows that run, or one that began while it
\* went on.  Both stores show a session as running only when a run of it goes on, and
\* then both do if the run it shows began alone.
Shown ==
    /\ \A r \in active :
          LET s == home[r] IN
          /\ s \in sessions /\ view[s].run \in Runs
          /\ r = view[s].run \/ r \in during[view[s].run]
          /\ Alone(s) => view[s].status = "running" /\ chat[s] = "running"
    /\ \A s \in Sessions : view[s].status = "running" \/ chat[s] = "running" => GoesOn(s)
    /\ \A s \in Sessions :
          IF view[s].run \in Runs
          THEN home[view[s].run] = s /\ phase[view[s].run] \notin {"unsent", "creating"}
          ELSE view[s].steps = {}
    /\ \A r \in Runs : phase[r] \in {"unsent", "creating"} => r \notin sessions

ShowInv == StoreTypes /\ Shown /\ StepsAreOwn

LEMMA ShowInit == Init => ShowInv
<1> SUFFICES ASSUME Init PROVE ShowInv
  OBVIOUS
<1>1. Draft \in Sessions /\ Draft \notin Runs /\ 0 \notin Runs
  BY ChatRunAssumption DEF Draft, Sessions, Runs
<1>2. NoRun \in ShownRuns BY DEF NoRun, ShownRuns
<1>3. StoreTypes BY <1>1, <1>2 DEF Init, StoreTypes
<1>4. Shown BY <1>1 DEF Init, Shown, NoRun
<1>5. StepsAreOwn BY DEF Init, StepsAreOwn, NoRun
<1> QED BY <1>3, <1>4, <1>5 DEF ShowInv

\* A run begins: the session shows it, and what went on before is known.
LEMMA BeginShows ==
    ASSUME EndInv, ShowInv, NEW r \in Runs, NEW s \in sessions', Begin(r, s),
           phase[r] \in {"unsent", "creating"},
           sessions' \in SUBSET Sessions,
           sessions \subseteq sessions',
           \A q \in Runs \ {r} : phase[q] \in {"unsent", "creating"} => q \notin sessions'
    PROVE  ShowInv'
<1> DEFINE new == [run |-> r, status |-> "running", steps |-> {}]
           others == {q \in active : home[q] = s}
<1>1. /\ view' = [view EXCEPT ![s] = new] /\ chat' = [chat EXCEPT ![s] = "running"]
      /\ home' = [home EXCEPT ![r] = s] /\ active' = active \cup {r}
      /\ during' = [during EXCEPT ![r] = others]
      /\ phase' = [phase EXCEPT ![r] = "fetch"]
  BY DEF Begin, RunStarted, ShownRunning
<1>2. s \in Sessions /\ new \in ShownRuns /\ others \in SUBSET Runs
  BY DEF ShownRuns, EndInv, RunTypes
<1>3. view'[s] = new /\ \A t \in Sessions \ {s} : view'[t] = view[t] /\ chat'[t] = chat[t]
  BY <1>1, <1>2 DEF ShowInv, StoreTypes
<1>4. chat'[s] = "running" BY <1>1, <1>2 DEF ShowInv, StoreTypes
<1>5. /\ new.run = r /\ new.status = "running" /\ new.steps = {}
      /\ \A q \in active : home[q] = s => q \in others
  OBVIOUS
<1> HIDE DEF new, others
<1>6. /\ home'[r] = s /\ during'[r] = others
      /\ \A q \in Runs \ {r} : /\ home'[q] = home[q] /\ during'[q] = during[q]
                               /\ phase'[q] = phase[q]
  BY <1>1, <1>2 DEF EndInv, RunTypes, ShowInv, StoreTypes
<1>7. r \notin active /\ phase'[r] = "fetch" /\ active \subseteq Runs
  BY <1>1 DEF EndInv, RunTypes, Uploaded, Live
\* What another session shows is not the run that begins.
<1>8. ASSUME NEW t \in Sessions \ {s}
      PROVE  /\ view[t].run # r
             /\ view[t].run \in Runs => during'[view[t].run] = during[view[t].run]
             /\ Alone(t)' => Alone(t)
  <2>1. view[t].run # r BY DEF ShowInv, Shown
  <2>2. view'[t] = view[t] BY <1>3
  <2> QED BY <2>1, <2>2, <1>6 DEF Alone
<1>9. StoreTypes' BY <1>1, <1>2 DEF ShowInv, StoreTypes
<1>10. Shown'
  <2>1. ASSUME NEW q \in active', NEW t, t = home'[q]
        PROVE /\ t \in sessions' /\ view'[t].run \in Runs
              /\ q = view'[t].run \/ q \in during'[view'[t].run]
              /\ Alone(t)' => view'[t].status = "running" /\ chat'[t] = "running"
    <3>1. CASE t = s
      <4>1. q = r \/ q \in others BY <2>1, <3>1, <1>1, <1>5, <1>6, <1>7
      <4> QED BY <3>1, <4>1, <1>3, <1>4, <1>5, <1>6
    <3>2. CASE t # s
      <4>1. q \in active \ {r} /\ t = home[q] BY <2>1, <3>2, <1>1, <1>6, <1>7
      <4>2. t \in Sessions \ {s} BY <3>2, <4>1 DEF ShowInv, Shown, StoreTypes
      <4>3. view'[t] = view[t] /\ chat'[t] = chat[t] BY <4>2, <1>3
      <4> QED BY <4>1, <4>2, <4>3, <1>8 DEF ShowInv, Shown
    <3> QED BY <3>1, <3>2
  <2>2. ASSUME NEW t \in Sessions, view'[t].status = "running" \/ chat'[t] = "running"
        PROVE GoesOn(t)'
    <3>1. CASE t = s BY <3>1, <1>1, <1>6 DEF GoesOn
    <3>2. CASE t # s
      <4>1. PICK q \in active : home[q] = t
        BY <2>2, <3>2, <1>3 DEF ShowInv, Shown, GoesOn
      <4> QED BY <4>1, <1>1, <1>6, <1>7 DEF GoesOn
    <3> QED BY <3>1, <3>2
  <2>3. ASSUME NEW t \in Sessions
        PROVE IF view'[t].run \in Runs
              THEN /\ home'[view'[t].run] = t
                   /\ phase'[view'[t].run] \notin {"unsent", "creating"}
              ELSE view'[t].steps = {}
    <3>1. CASE t = s BY <3>1, <1>3, <1>5, <1>6, <1>7
    <3>2. CASE t # s BY <3>2, <1>3, <1>6, <1>8 DEF ShowInv, Shown
    <3> QED BY <3>1, <3>2
  <2>4. \A q \in Runs : phase'[q] \in {"unsent", "creating"} => q \notin sessions'
    BY <1>6, <1>7
  <2> QED BY <2>1, <2>2, <2>3, <2>4 DEF Shown
<1>11. StepsAreOwn'
  <2> SUFFICES ASSUME NEW t \in Sessions, NEW x \in view'[t].steps
               PROVE  x.run = view'[t].run \/ x.run \in during'[view'[t].run]
    BY DEF StepsAreOwn
  <2>1. t # s BY <1>3, <1>5
  <2>2. view'[t] = view[t] /\ x \in view[t].steps BY <2>1, <1>3
  <2>3. view[t].run \in Runs BY <2>2 DEF ShowInv, Shown
  <2> QED BY <2>1, <2>2, <2>3, <1>8 DEF ShowInv, StepsAreOwn
<1> QED BY <1>9, <1>10, <1>11 DEF ShowInv

\* A step that leaves the runs both stores show alone, and shows nothing as running
\* of which no run goes on.
LEMMA SameShown ==
    ASSUME ShowInv, UNCHANGED <<sessions, home, during, active>>,
           \A q \in Runs : phase'[q] \in {"unsent", "creating"} <=>
                          phase[q] \in {"unsent", "creating"},
           view' \in [Sessions -> ShownRuns],
           chat' \in [Sessions -> {"idle", "running", "failed"}],
           \A t \in Sessions :
              /\ view'[t].run = view[t].run
              /\ \/ view'[t].status = view[t].status
                 \/ view'[t].status = "running" /\ GoesOn(t)
              /\ \/ chat'[t] = chat[t]
                 \/ chat'[t] = "running" /\ GoesOn(t)
              /\ \A x \in view'[t].steps :
                    /\ view[t].run \in Runs
                    /\ x.run = view[t].run \/ x.run \in during[view[t].run]
    PROVE  ShowInv'
<1>1. StoreTypes' BY DEF ShowInv, StoreTypes
<1>2. \A t \in Sessions : (GoesOn(t)' <=> GoesOn(t)) /\ (Alone(t)' <=> Alone(t))
  BY DEF GoesOn, Alone
<1>3. Shown'
  <2>1. ASSUME NEW q \in active, NEW t, t = home[q]
        PROVE /\ t \in sessions /\ view'[t].run \in Runs
              /\ q = view'[t].run \/ q \in during[view'[t].run]
              /\ Alone(t)' => view'[t].status = "running" /\ chat'[t] = "running"
    <3>1. t \in sessions /\ t \in Sessions BY <2>1 DEF ShowInv, Shown, StoreTypes
    <3> QED BY <2>1, <3>1, <1>2 DEF ShowInv, Shown
  <2>2. \A t \in Sessions : view'[t].status = "running" \/ chat'[t] = "running" => GoesOn(t)'
    BY <1>2 DEF ShowInv, Shown
  <2>3. ASSUME NEW t \in Sessions
        PROVE IF view'[t].run \in Runs
              THEN /\ home'[view'[t].run] = t
                   /\ phase'[view'[t].run] \notin {"unsent", "creating"}
              ELSE view'[t].steps = {}
    BY DEF ShowInv, Shown
  <2>4. \A q \in Runs : phase'[q] \in {"unsent", "creating"} => q \notin sessions'
    BY DEF ShowInv, Shown
  <2> QED BY <2>1, <2>2, <2>3, <2>4 DEF Shown
<1>4. StepsAreOwn' BY DEF StepsAreOwn
<1> QED BY <1>1, <1>3, <1>4 DEF ShowInv

\* The run a session shows, or one that went on when that began.
LEMMA LiveIsShown ==
    ASSUME EndInv, ShowInv, NEW r \in active
    PROVE  /\ r \in Runs /\ home[r] \in Sessions /\ GoesOn(home[r])
           /\ view[home[r]].run \in Runs
           /\ r = view[home[r]].run \/ r \in during[view[home[r]].run]
BY DEF EndInv, RunTypes, ShowInv, Shown, GoesOn

LEMMA StepStartedShows ==
    ASSUME EndInv, ShowInv, NEW r \in active, NEW id \in CallIds,
           NEW status \in {"running", "success"}, StepStarted(r, id, status),
           UNCHANGED <<sessions, home, during, active, chat>>,
           \A q \in Runs : phase'[q] \in {"unsent", "creating"} <=>
                          phase[q] \in {"unsent", "creating"}
    PROVE  ShowInv'
<1> DEFINE s == home[r]
           steps == WithStep(view[s].steps, r, id, status)
<1>1. /\ s \in Sessions /\ r \in Runs /\ GoesOn(s) /\ view[s].run \in Runs
      /\ r = view[s].run \/ r \in during[view[s].run]
  BY LiveIsShown
<1>2. view \in [Sessions -> ShownRuns] /\ view[s].steps \in SUBSET ShownSteps
  BY <1>1 DEF ShowInv, StoreTypes, ShownRuns
<1>3. steps \in SUBSET ShownSteps
  BY <1>1, <1>2 DEF WithStep, ShownSteps
<1>4. \A x \in steps : x.run = view[s].run \/ x.run \in during[view[s].run]
  BY <1>1 DEF WithStep, ShowInv, StepsAreOwn
<1>5. view' = [view EXCEPT ![s].status = "running", ![s].steps = steps]
  BY DEF StepStarted
<1> HIDE DEF s, steps
<1>6. /\ view' \in [Sessions -> ShownRuns]
      /\ \A t \in Sessions : view'[t].run = view[t].run /\ (t # s => view'[t] = view[t])
      /\ view'[s].steps = steps /\ view'[s].status = "running"
  BY <1>1, <1>2, <1>3, <1>5 DEF ShownRuns
<1>7. ASSUME NEW t \in Sessions, NEW x \in view'[t].steps
      PROVE  view[t].run \in Runs /\ (x.run = view[t].run \/ x.run \in during[view[t].run])
  <2>1. CASE t = s BY <2>1, <1>1, <1>4, <1>6
  <2>2. CASE t # s BY <2>2, <1>6 DEF ShowInv, Shown, StepsAreOwn
  <2> QED BY <2>1, <2>2
<1>8. chat' \in [Sessions -> {"idle", "running", "failed"}] BY DEF ShowInv, StoreTypes
<1> QED BY <1>1, <1>6, <1>7, <1>8, SameShown

\* A tool that answers changes the status of a step, if its session still shows it.
LEMMA StepFinishedShows ==
    ASSUME EndInv, ShowInv, NEW r \in Runs, NEW id,
           NEW status \in {"failed", "success"}, StepFinished(r, id, status),
           UNCHANGED <<sessions, home, during, active, chat>>,
           \A q \in Runs : phase'[q] \in {"unsent", "creating"} <=>
                          phase[q] \in {"unsent", "creating"}
    PROVE  ShowInv'
<1> DEFINE s == home[r]
           steps == {IF x.id = id THEN [x EXCEPT !.status = status] ELSE x :
                        x \in view[s].steps}
<1>1. s \in Sessions BY DEF EndInv, RunTypes
<1>2. view \in [Sessions -> ShownRuns] /\ view[s].steps \in SUBSET ShownSteps
  BY <1>1 DEF ShowInv, StoreTypes, ShownRuns
<1>3. ASSUME NEW x \in view[s].steps
      PROVE /\ [x EXCEPT !.status = status] \in ShownSteps
            /\ [x EXCEPT !.status = status].run = x.run
  BY <1>2 DEF ShownSteps
<1>4. steps \in SUBSET ShownSteps BY <1>2, <1>3
<1>5. ASSUME NEW y \in steps PROVE \E x \in view[s].steps : y.run = x.run
  <2>1. PICK x \in view[s].steps :
           y = IF x.id = id THEN [x EXCEPT !.status = status] ELSE x
    OBVIOUS
  <2>2. y.run = x.run BY <1>3, <2>1
  <2> QED BY <2>2
<1>6. view' = [view EXCEPT ![s].steps = steps] BY DEF StepFinished
<1> HIDE DEF s, steps
<1>7. /\ view' \in [Sessions -> ShownRuns]
      /\ \A t \in Sessions : /\ view'[t].run = view[t].run
                             /\ view'[t].status = view[t].status
                             /\ t # s => view'[t].steps = view[t].steps
      /\ view'[s].steps = steps
  BY <1>1, <1>2, <1>4, <1>6 DEF ShownRuns
<1>8. ASSUME NEW t \in Sessions, NEW y \in view'[t].steps
      PROVE  view[t].run \in Runs /\ (y.run = view[t].run \/ y.run \in during[view[t].run])
  <2>1. PICK x \in view[t].steps : y.run = x.run BY <1>5, <1>7
  <2> QED BY <2>1 DEF ShowInv, Shown, StepsAreOwn
<1>9. chat' \in [Sessions -> {"idle", "running", "failed"}] BY DEF ShowInv, StoreTypes
<1> QED BY <1>7, <1>8, <1>9, SameShown

\* The end of a run the transport knows: its session is no longer shown as running,
\* and none that began alone goes on there.
LEMMA FinishShows ==
    ASSUME EndInv, ShowInv, NEW r \in active,
           NEW end \in {"completed", "failed", "cancelled"}, Finish(r, end),
           UNCHANGED <<sessions, home, during>>,
           \A q \in Runs : phase'[q] \in {"unsent", "creating"} <=>
                          phase[q] \in {"unsent", "creating"}
    PROVE  ShowInv'
<1> DEFINE s == home[r]
           chatEnd == IF end = "failed" THEN "failed" ELSE "idle"
           shows == IF end = "completed" /\ view[s].status = "failed" THEN "failed" ELSE end
<1>1. /\ s \in Sessions /\ r \in Runs
      /\ r = view[s].run \/ r \in during[view[s].run]
  BY LiveIsShown
<1>2. /\ view' = [view EXCEPT ![s].status = shows] /\ active' = active \ {r}
      /\ chat' = [chat EXCEPT ![s] = chatEnd]
  BY DEF Finish, Ended, ShownEnded
<1>3. /\ view \in [Sessions -> ShownRuns] /\ chatEnd \in {"idle", "failed"}
      /\ shows \in {"completed", "failed", "cancelled"}
  BY DEF ShowInv, StoreTypes
<1> HIDE DEF chatEnd, shows
<1>4. /\ view' \in [Sessions -> ShownRuns] /\ view'[s].status # "running"
      /\ \A t \in Sessions : view'[t].run = view[t].run /\ view'[t].steps = view[t].steps
      /\ \A t \in Sessions \ {s} : view'[t].status = view[t].status
  BY <1>1, <1>2, <1>3 DEF ShownRuns
<1>5. chat'[s] # "running" /\ \A t \in Sessions \ {s} : chat'[t] = chat[t]
  BY <1>1, <1>2, <1>3 DEF ShowInv, StoreTypes
<1>6. home[r] = s OBVIOUS
<1> HIDE DEF s
<1>7. StoreTypes' BY <1>1, <1>2, <1>3, <1>4 DEF ShowInv, StoreTypes
<1>8. \A t \in Sessions : Alone(t)' <=> Alone(t) BY <1>4 DEF Alone
<1>9. Shown'
  <2>1. ASSUME NEW q \in active', NEW t, t = home[q]
        PROVE /\ t \in sessions /\ view'[t].run \in Runs
              /\ q = view'[t].run \/ q \in during[view'[t].run]
              /\ Alone(t)' => view'[t].status = "running" /\ chat'[t] = "running"
    <3>1. q \in active /\ q # r BY <1>2
    <3>2. /\ t \in sessions /\ t \in Sessions /\ view[t].run \in Runs
          /\ q = view[t].run \/ q \in during[view[t].run]
          /\ Alone(t) => view[t].status = "running" /\ chat[t] = "running"
      BY <2>1, <3>1 DEF ShowInv, Shown, StoreTypes
    <3>3. CASE t = s
      <4>1. ~ Alone(t) BY <3>1, <3>2, <3>3, <1>1 DEF Alone
      <4> QED BY <3>2, <4>1, <1>4, <1>8
    <3>4. CASE t # s BY <3>2, <3>4, <1>4, <1>5, <1>8
    <3> QED BY <3>3, <3>4
  <2>2. ASSUME NEW t \in Sessions, view'[t].status = "running" \/ chat'[t] = "running"
        PROVE GoesOn(t)'
    <3>1. t # s BY <2>2, <1>4, <1>5
    <3>2. PICK q \in active : home[q] = t
      BY <2>2, <3>1, <1>4, <1>5 DEF ShowInv, Shown, GoesOn
    <3> QED BY <3>1, <3>2, <1>2, <1>6 DEF GoesOn
  <2>3. ASSUME NEW t \in Sessions
        PROVE IF view'[t].run \in Runs
              THEN /\ home'[view'[t].run] = t
                   /\ phase'[view'[t].run] \notin {"unsent", "creating"}
              ELSE view'[t].steps = {}
    BY <1>4 DEF ShowInv, Shown
  <2>4. \A q \in Runs : phase'[q] \in {"unsent", "creating"} => q \notin sessions'
    BY DEF ShowInv, Shown
  <2> QED BY <2>1, <2>2, <2>3, <2>4 DEF Shown
<1>10. StepsAreOwn' BY <1>4 DEF ShowInv, StepsAreOwn
<1> QED BY <1>7, <1>9, <1>10 DEF ShowInv

LEMMA ShowStep == EndInv /\ ShowInv /\ [Next]_vars => ShowInv'
<1> SUFFICES ASSUME EndInv, ShowInv, [Next]_vars PROVE ShowInv'
  OBVIOUS
<1>a. /\ view \in [Sessions -> ShownRuns] /\ chat \in [Sessions -> {"idle", "running", "failed"}]
      /\ \A t \in Sessions : \A x \in view[t].steps :
            /\ view[t].run \in Runs
            /\ x.run = view[t].run \/ x.run \in during[view[t].run]
  BY DEF ShowInv, StoreTypes, Shown, StepsAreOwn
<1>1. ASSUME NEW r \in Runs, NEW s \in Sessions, SendMessage(r, s) PROVE ShowInv'
  <2>1. CASE s = Draft
    <3>1. /\ phase' = [phase EXCEPT ![r] = "creating"] /\ phase[r] = "unsent"
          /\ UNCHANGED <<sessions, home, during, active, view, chat>>
      BY <1>1, <2>1 DEF SendMessage
    <3>2. \A q \in Runs : phase'[q] \in {"unsent", "creating"} <=>
                          phase[q] \in {"unsent", "creating"}
      BY <3>1 DEF EndInv, RunTypes
    <3> QED BY <3>1, <3>2, <1>a, SameShown
  <2>2. CASE s # Draft
    <3>1. /\ Begin(r, s) /\ s \in sessions /\ phase[r] = "unsent" /\ sessions' = sessions
      BY <1>1, <2>2 DEF SendMessage
    <3> QED BY <3>1, BeginShows DEF ShowInv, Shown, StoreTypes
  <2> QED BY <2>1, <2>2
<1>2. ASSUME NEW s \in Sessions, CancelRun(s) PROVE ShowInv'
  <2> DEFINE r == view[s].run
  <2>1. r \in active /\ Finish(r, "cancelled") /\ UNCHANGED <<sessions, home, during, phase>>
    BY <1>2 DEF CancelRun
  <2> HIDE DEF r
  <2> QED BY <2>1, FinishShows
<1>3. ASSUME NEW r \in Runs, Step(r) PROVE ShowInv'
  <2> USE DEF Live
  <2>0. phase \in [Runs -> {"unsent", "creating", "over"} \cup Live]
    BY DEF EndInv, RunTypes
  <2>1. CASE Created(r)
    <3>1. /\ Begin(r, r) /\ phase[r] = "creating" /\ sessions' = sessions \cup {r}
      BY <2>1 DEF Created
    <3>2. r \in Sessions BY DEF Runs, Sessions
    <3> QED BY <3>1, <3>2, BeginShows DEF ShowInv, Shown, StoreTypes
  <2>2. CASE CreateFailed(r)
    <3>1. /\ UNCHANGED <<sessions, home, during, active, view, chat>>
          /\ phase' = [phase EXCEPT ![r] = "over"] /\ phase[r] = "creating"
      BY <2>2 DEF CreateFailed
    <3>2. r \notin sessions /\ home[r] = Draft /\ r \notin active
      BY <3>1 DEF ShowInv, Shown, EndInv, Uploaded
    <3>3. \A t \in Sessions : view[t].run # r BY <3>1 DEF ShowInv, Shown
    <3>4. Shown' BY <2>0, <3>1, <3>2, <3>3 DEF ShowInv, Shown, GoesOn, Alone
    <3> QED BY <3>1, <3>4 DEF ShowInv, StoreTypes, StepsAreOwn
  <2>3. CASE Connected(r) \/ ToolDone(r) \/ Stopped(r)
    <3>1. /\ UNCHANGED <<sessions, home, during, active, view, chat>>
          /\ phase[r] \in Live
          /\ \E p \in {"over", "stream", "report"} : phase' = [phase EXCEPT ![r] = p]
      BY <2>3 DEF Connected, ToolDone, Stopped
    <3> QED BY <3>1, <2>0, <1>a, SameShown
  <2>4. CASE StreamText(r)
    <3>1. r \in active BY <2>4 DEF StreamText, EndInv, Uploaded
    <3>2. /\ chat' = [chat EXCEPT ![home[r]] = "running"]
          /\ UNCHANGED <<sessions, phase, home, during, active, view>>
      BY <2>4 DEF StreamText, ShownRunning, runVars
    <3>3. home[r] \in Sessions /\ GoesOn(home[r]) BY <3>1, LiveIsShown
    <3>4. /\ chat' \in [Sessions -> {"idle", "running", "failed"}]
          /\ \A t \in Sessions : \/ chat'[t] = chat[t]
                                 \/ chat'[t] = "running" /\ GoesOn(t)
      BY <3>2, <3>3, <1>a
    <3> QED BY <3>2, <3>4, <1>a, SameShown
  <2>5. CASE StreamAction(r)
    <3>1. r \in active /\ phase[r] \in Live BY <2>5 DEF StreamAction, EndInv, Uploaded
    <3>2. /\ UNCHANGED <<sessions, home, during, active, chat>>
          /\ phase' = phase \/ phase' = [phase EXCEPT ![r] = "tool"]
          /\ \E id \in CallIds, status \in {"running", "success"} : StepStarted(r, id, status)
      BY <2>5 DEF StreamAction
    <3> QED BY <3>1, <3>2, <2>0, StepStartedShows
  <2>6. CASE Reported(r)
    <3>1. /\ UNCHANGED <<sessions, home, during, active, chat>>
          /\ phase' = [phase EXCEPT ![r] = "stream"] /\ phase[r] \in Live
          /\ \E status \in {"failed", "success"} : StepFinished(r, stepId[r], status)
      BY <2>6 DEF Reported
    <3> QED BY <3>1, <2>0, StepFinishedShows
  <2>7. CASE StreamEnd(r)
    <3>1. /\ r \in active /\ Finish(r, "completed") /\ UNCHANGED <<sessions, home, during>>
          /\ phase' = [phase EXCEPT ![r] = "over"] /\ phase[r] \in Live
      BY <2>7 DEF StreamEnd, EndInv, Uploaded
    <3> QED BY <3>1, <2>0, FinishShows
  <2>8. CASE RunFailed(r)
    <3>1. /\ r \in active /\ Finish(r, "failed") /\ UNCHANGED <<sessions, home, during>>
          /\ phase' = [phase EXCEPT ![r] = "over"] /\ phase[r] \in Live
      BY <2>8 DEF RunFailed, EndInv, Uploaded
    <3> QED BY <3>1, <2>0, FinishShows
  <2> QED BY <1>3, <2>1, <2>2, <2>3, <2>4, <2>5, <2>6, <2>7, <2>8 DEF Step
<1>4. CASE UNCHANGED vars
  BY <1>4, <1>a, SameShown DEF vars, runVars
<1> QED BY <1>1, <1>2, <1>3, <1>4 DEF Next

\* A session that is shown as running shows a run the user can abort, or one that was
\* sent while another one went on that goes on still; no event of an aborted or ended
\* run revives it.
THEOREM ShownCanBeAborted == Spec => []RunningCanBeAborted
<1>1. ShowInv => RunningCanBeAborted
  BY DEF ShowInv, Shown, GoesOn, RunningCanBeAborted
<1> QED BY <1>1, EndInit, EndStep, ShowInit, ShowStep, PTL DEF Spec

\* The run panel shows no step of a run that was over when its run began, whenever
\* the tools answer and however messages cross.
THEOREM PanelsShowOwnSteps == Spec => []StepsAreOwn
<1>1. ShowInv => StepsAreOwn BY DEF ShowInv
<1> QED BY <1>1, EndInit, EndStep, ShowInit, ShowStep, PTL DEF Spec

\* The list of sessions and the run panel agree about what is running wherever the
\* run that is shown began alone, and the list shows nothing as running that is over.
THEOREM PanelsAgree == Spec => []StoresAgree
<1>1. ASSUME ShowInv, NEW s \in Sessions
      PROVE  /\ Alone(s) => (chat[s] = "running" <=> view[s].status = "running")
             /\ chat[s] = "running" => \E r \in active : home[r] = s
  <2>1. chat[s] = "running" \/ view[s].status = "running" => GoesOn(s)
    BY <1>1 DEF ShowInv, Shown
  <2>2. GoesOn(s) /\ Alone(s) => view[s].status = "running" /\ chat[s] = "running"
    BY <1>1 DEF ShowInv, Shown, GoesOn
  <2> QED BY <2>1, <2>2 DEF GoesOn
<1>2. ShowInv => StoresAgree BY <1>1 DEF StoresAgree
<1> QED BY <1>2, EndInit, EndStep, ShowInit, ShowStep, PTL DEF Spec

-------------------------------------------------------------------------------
(* The window: its steps are steps of its runs                               *)

\* The window shows one of its sessions.
ShownInv == shown \in sessions /\ sessions \in SUBSET Sessions

LEMMA ShownInit == WindowInit => ShownInv
<1>1. Draft \in Sessions BY ChatRunAssumption DEF Draft, Sessions
<1> QED BY <1>1 DEF WindowInit, Init, ShownInv

LEMMA WindowSteps == ShownInv /\ [WindowNext]_windowVars => [Next]_vars
<1> SUFFICES ASSUME ShownInv, [WindowNext]_windowVars PROVE [Next]_vars
  OBVIOUS
<1>1. shown \in Sessions BY DEF ShownInv
<1>2. ASSUME NEW s \in Sessions, Select(s) PROVE UNCHANGED vars BY <1>2 DEF Select
<1>3. ASSUME NEW r \in Runs, Send(r) PROVE Next BY <1>1, <1>3 DEF Send, Next
<1>4. CASE Abort BY <1>1, <1>4 DEF Abort, Next
<1>5. ASSUME NEW r \in Runs,
             \/ SendCreated(r) \/ Text(r) \/ Action(r) \/ ToolAnswered(r)
             \/ StepReported(r) \/ Done(r) \/ Failed(r) \/ Silent(r)
      PROVE  Next
  <2>1. Step(r)
    BY <1>5 DEF SendCreated, Text, Action, ToolAnswered, StepReported, Done, Failed,
                Silent, Step
  <2> QED BY <2>1 DEF Next
<1>6. CASE UNCHANGED windowVars BY <1>6 DEF windowVars
<1> QED BY <1>2, <1>3, <1>4, <1>5, <1>6 DEF WindowNext

LEMMA ShownStep == ShownInv /\ [WindowNext]_windowVars => ShownInv'
<1> SUFFICES ASSUME ShownInv, [WindowNext]_windowVars PROVE ShownInv'
  OBVIOUS
<1>1. Runs \subseteq Sessions BY DEF Runs, Sessions
<1>2. ASSUME NEW s \in Sessions, Select(s) PROVE ShownInv'
  BY <1>2 DEF Select, vars, ShownInv
<1>3. ASSUME NEW r \in Runs, Send(r) PROVE ShownInv'
  BY <1>3 DEF Send, SendMessage, ShownInv
<1>4. ASSUME NEW r \in Runs, SendCreated(r) PROVE ShownInv'
  BY <1>1, <1>4 DEF SendCreated, Created, ShownInv
<1>5. CASE Abort BY <1>5 DEF Abort, CancelRun, ShownInv
<1>6. ASSUME NEW r \in Runs,
             \/ Text(r) \/ Action(r) \/ ToolAnswered(r)
             \/ StepReported(r) \/ Done(r) \/ Failed(r) \/ Silent(r)
      PROVE  UNCHANGED <<sessions, shown>>
  BY <1>6 DEF Text, StreamText, Action, StreamAction, ToolAnswered, ToolDone,
              StepReported, Reported, Done, StreamEnd, Failed, RunFailed, Silent,
              CreateFailed, Connected, Stopped
<1>7. CASE UNCHANGED windowVars BY <1>7 DEF windowVars, vars, ShownInv
<1> QED BY <1>2, <1>3, <1>4, <1>5, <1>6, <1>7 DEF WindowNext, ShownInv

\* What the window does to its runs is what the page and the transport do: every
\* step of the window is a step of the runs, so that what is proved of the runs
\* holds in the window.
THEOREM WindowRuns == WindowSpec => Spec
<1>1. WindowInit => Init BY DEF WindowInit
<1> QED BY <1>1, ShownInit, ShownStep, WindowSteps, PTL DEF WindowSpec, Spec

-------------------------------------------------------------------------------
(* The order in which messages are sent                                      *)

\* A run that goes on went on when the later runs of its session began.
SentInv ==
    /\ \A q, r \in Runs : q < r /\ phase[r] # "unsent" => phase[q] # "unsent"
    /\ \A q \in Runs : home[q] \in sessions
    /\ \A r \in active, q \in Runs : home[q] = home[r] /\ r < q => r \in during[q]

LEMMA SentInit == Init => SentInv
BY DEF Init, SentInv

\* All runs that were sent in the session came before.
LEMMA BeginSent ==
    ASSUME EndInv, ShowInv, SentInv, NEW r \in Runs, NEW s \in sessions', Begin(r, s),
           s \in Sessions, sessions \subseteq sessions',
           phase[r] \in {"unsent", "creating"},
           \A q \in Runs : q < r => phase[q] # "unsent",
           \A q \in Runs : home[q] = s => q < r
    PROVE  SentInv'
<1>1. /\ home' = [home EXCEPT ![r] = s] /\ active' = active \cup {r}
      /\ during' = [during EXCEPT ![r] = {q \in active : home[q] = s}]
      /\ phase' = [phase EXCEPT ![r] = "fetch"]
  BY DEF Begin
<1>2. /\ home'[r] = s /\ phase'[r] = "fetch"
      /\ during'[r] = {q \in active : home[q] = s}
      /\ \A q \in Runs \ {r} : /\ home'[q] = home[q] /\ phase'[q] = phase[q]
                               /\ during'[q] = during[q]
  BY <1>1 DEF EndInv, RunTypes, ShowInv, StoreTypes
<1>3. \A q, p \in Runs : q < p /\ phase'[p] # "unsent" => phase'[q] # "unsent"
  BY <1>2 DEF SentInv
<1>4. \A q \in Runs : home'[q] \in sessions'
  BY <1>2 DEF SentInv
<1>5. ASSUME NEW p \in active', NEW q \in Runs, home'[q] = home'[p], p < q
      PROVE  p \in during'[q]
  <2> r \in Int /\ q \in Int BY DEF Runs
  <2>1. CASE p = r
    <3>1. q # r BY <1>5, <2>1
    <3>2. q < r BY <2>1, <3>1, <1>2, <1>5
    <3> QED BY <2>1, <3>2, <1>5
  <2>2. CASE p # r
    <3>1. p \in active /\ p \in Runs /\ home'[p] = home[p]
      BY <2>2, <1>1, <1>2 DEF EndInv, RunTypes
    <3>2. CASE q = r BY <3>1, <3>2, <1>2, <1>5
    <3>3. CASE q # r BY <3>1, <3>3, <1>2, <1>5 DEF SentInv
    <3> QED BY <3>2, <3>3
  <2> QED BY <2>1, <2>2
<1> QED BY <1>3, <1>4, <1>5 DEF SentInv

LEMMA SentStep == EndInv /\ ShowInv /\ SentInv /\ [Next]_vars => SentInv'
<1> SUFFICES ASSUME EndInv, ShowInv, SentInv, [Next]_vars PROVE SentInv'
  OBVIOUS
<1>1. ASSUME NEW r \in Runs, NEW s \in Sessions, SendMessage(r, s) PROVE SentInv'
  <2>0. phase[r] = "unsent" /\ s \in sessions /\ sessions' = sessions
    BY <1>1 DEF SendMessage
  <2>1. CASE s = Draft
    <3>1. phase' = [phase EXCEPT ![r] = "creating"] /\ UNCHANGED <<home, during, active>>
      BY <1>1, <2>1 DEF SendMessage
    <3>2. \A q \in Runs : q < r => phase[q] # "unsent" BY <1>1 DEF SendMessage
    <3> QED BY <2>0, <3>1, <3>2 DEF SentInv, EndInv, RunTypes
  <2>2. CASE s # Draft
    <3>1. Begin(r, s) /\ \A q \in Runs : q < r => phase[q] # "unsent"
      BY <1>1, <2>2 DEF SendMessage
    <3>2. ASSUME NEW q \in Runs, home[q] = s PROVE q < r
      <4>1. phase[q] # "unsent" BY <3>2, <2>2 DEF EndInv, Uploaded
      <4>2. ~ (r < q) BY <4>1, <2>0 DEF SentInv
      <4>3. q # r BY <4>1, <2>0
      <4> QED BY <4>2, <4>3 DEF Runs
    <3> QED BY <2>0, <3>1, <3>2, BeginSent
  <2> QED BY <2>1, <2>2
<1>2. ASSUME NEW r \in Runs, Created(r) PROVE SentInv'
  <2>1. /\ Begin(r, r) /\ phase[r] = "creating" /\ sessions' = sessions \cup {r}
    BY <1>2 DEF Created
  <2>2. r \in Sessions /\ r \notin sessions
    BY <2>1 DEF ShowInv, Shown, Runs, Sessions
  <2>3. \A q \in Runs : q < r => phase[q] # "unsent" BY <2>1 DEF SentInv
  <2>4. \A q \in Runs : home[q] # r BY <2>2 DEF SentInv
  <2> QED BY <2>1, <2>2, <2>3, <2>4, BeginSent
<1>3. CASE \/ \E s \in Sessions : CancelRun(s)
           \/ \E r \in Runs : Step(r) /\ ~ Created(r)
           \/ UNCHANGED vars
  <2>1. /\ UNCHANGED <<sessions, home, during>> /\ active' \subseteq active
        /\ \A q \in Runs : phase'[q] = "unsent" <=> phase[q] = "unsent"
    <3>1. ASSUME NEW r \in Runs, Step(r), ~ Created(r)
          PROVE /\ UNCHANGED <<sessions, home, during>> /\ active' \subseteq active
                /\ \A q \in Runs : phase'[q] = "unsent" <=> phase[q] = "unsent"
      <4>1. /\ UNCHANGED <<sessions, home, during>>
            /\ active' = active \/ active' = active \ {r}
            /\ \/ phase' = phase
               \/ /\ phase[r] # "unsent"
                  /\ \E p \in {"over", "stream", "tool", "report"} :
                        phase' = [phase EXCEPT ![r] = p]
        BY <3>1 DEF Step, CreateFailed, Connected, StreamText, StreamAction, ToolDone,
                    Reported, StreamEnd, RunFailed, Stopped, Finish, runVars
      <4> QED BY <4>1 DEF EndInv, RunTypes
    <3>2. ASSUME NEW s \in Sessions, CancelRun(s)
          PROVE UNCHANGED <<sessions, home, during, phase>> /\ active' \subseteq active
      BY <3>2 DEF CancelRun, Finish
    <3> QED BY <1>3, <3>1, <3>2 DEF vars, runVars
  <2> QED BY <2>1 DEF SentInv
<1> QED BY <1>1, <1>2, <1>3 DEF Next

-------------------------------------------------------------------------------
(* The messages a session shows                                              *)

Entries == [run : Runs, kind : {"question", "answer", "tool", "failed", "cancelled"}]

HasShown(s, r, kind) == \E i \in DOMAIN log[s] : log[s][i].run = r /\ log[s][i].kind = kind
IsUploaded(r, end) == \E i \in DOMAIN uploads[r] : uploads[r][i] = end

OwnEntries ==
    \A s \in Sessions : \A i \in DOMAIN log[s] : s # Draft /\ home[log[s][i].run] = s

InTurn == \A s \in Sessions : \A i, j \in DOMAIN log[s] : i < j => InOrder(log[s][i], log[s][j])

\* The end that was uploaded for a run is the one its session shows.
EndsMatch ==
    \A r \in Runs : \E s \in Sessions :
        /\ s = home[r]
        /\ \A end \in {"failed", "cancelled"} : HasShown(s, r, end) <=> IsUploaded(r, end)
        /\ answer[r] = "done" <=> IsUploaded(r, "completed")

LogTypes ==
    /\ log \in [Sessions -> Seq(Entries)]
    /\ answer \in [Runs -> {"none", "streaming", "done"}]

LogInv == LogTypes /\ OwnEntries /\ InTurn /\ EndsMatch

\* A run gets a session once, and with it the runs that go on there; no run is
\* aborted for nothing.
HomesStay ==
    /\ \A q \in Runs : (home'[q] = home[q] /\ during'[q] = during[q]) \/ home[q] = Draft
    /\ aborted \subseteq aborted'

\* What is shown after the step is what was, and what run r adds to session s.
Adds(s, r, kinds) ==
    /\ log' \in [Sessions -> Seq(Entries)]
    /\ OwnEntries' /\ InTurn'
    /\ \A t \in Sessions, q \in Runs, k \in {"failed", "cancelled"} :
          HasShown(t, q, k)' <=> HasShown(t, q, k) \/ (t = s /\ q = r /\ k \in kinds)

LEMMA LogStays ==
    ASSUME LogInv, HomesStay, log' = log
    PROVE  \A s, r : Adds(s, r, {})
<1>1. OwnEntries'
  <2> SUFFICES ASSUME NEW s \in Sessions, NEW i \in DOMAIN log[s]
               PROVE  s # Draft /\ home'[log[s][i].run] = s
    BY DEF OwnEntries
  <2>1. s # Draft /\ home[log[s][i].run] = s BY DEF LogInv, OwnEntries
  <2>2. log[s][i] \in Entries BY DEF LogInv, LogTypes
  <2>3. log[s][i].run \in Runs BY <2>2 DEF Entries
  <2> QED BY <2>1, <2>3 DEF HomesStay
<1>2. InTurn'
  <2> SUFFICES ASSUME NEW s \in Sessions, NEW i \in DOMAIN log[s], NEW j \in DOMAIN log[s],
                      i < j
               PROVE  InOrder(log[s][i], log[s][j])'
    BY DEF InTurn
  <2>1. log[s][i] \in Entries BY DEF LogInv, LogTypes
  <2>2. log[s][i].run \in Runs /\ home[log[s][i].run] # Draft
    BY <2>1 DEF Entries, LogInv, OwnEntries
  <2>3. InOrder(log[s][i], log[s][j]) BY DEF LogInv, InTurn
  <2> QED BY <2>2, <2>3 DEF InOrder, HomesStay
<1>3. \A t \in Sessions, q \in Runs, k \in {"failed", "cancelled"} :
         HasShown(t, q, k)' <=> HasShown(t, q, k)
  BY DEF HasShown
<1> QED BY <1>1, <1>2, <1>3 DEF Adds, LogInv, LogTypes

LEMMA MessageIsAdded ==
    ASSUME LogInv, HomesStay, NEW r \in Runs, NEW s \in Sessions \ {Draft}, home'[r] = s,
           NEW kind \in {"question", "answer", "tool", "failed", "cancelled"},
           Shows(r, s, kind),
           \A i \in DOMAIN log[s] :
              \/ log[s][i].run < r
              \/ /\ log[s][i].run = r /\ log[s][i].kind \notin {"failed", "cancelled"}
                 /\ kind # "question"
              \/ kind = "tool" /\ r \in aborted'
              \/ r \in during'[log[s][i].run]
    PROVE  Adds(s, r, {kind})
<1> DEFINE e == [run |-> r, kind |-> kind]
           n == Len(log[s])
<1>1. e \in Entries /\ e.run = r /\ e.kind = kind BY DEF Entries
<1>2. log[s] \in Seq(Entries) /\ log' = [log EXCEPT ![s] = Append(log[s], e)]
  BY DEF LogInv, LogTypes, Shows
<1> HIDE DEF e
<1>3. /\ log'[s] = Append(log[s], e) /\ log' \in [Sessions -> Seq(Entries)]
      /\ \A t \in Sessions \ {s} : log'[t] = log[t]
  BY <1>1, <1>2 DEF LogInv, LogTypes
<1>4. /\ n \in Nat /\ DOMAIN log[s] = 1 .. n /\ DOMAIN log'[s] = 1 .. n + 1
      /\ log'[s][n + 1] = e /\ \A i \in 1 .. n : log'[s][i] = log[s][i]
  BY <1>2, <1>3
<1> HIDE DEF n
<1>5. OwnEntries'
  <2> SUFFICES ASSUME NEW t \in Sessions, NEW i \in DOMAIN log'[t]
               PROVE  t # Draft /\ home'[log'[t][i].run] = t
    BY DEF OwnEntries
  <2>1. CASE t = s /\ i = n + 1 BY <2>1, <1>1, <1>4
  <2>2. CASE ~ (t = s /\ i = n + 1)
    <3>1. i \in DOMAIN log[t] /\ log'[t][i] = log[t][i] BY <2>2, <1>3, <1>4
    <3>2. t # Draft /\ home[log[t][i].run] = t BY <3>1 DEF LogInv, OwnEntries
    <3>3. log[t][i] \in Entries BY <3>1 DEF LogInv, LogTypes
    <3>4. log[t][i].run \in Runs BY <3>3 DEF Entries
    <3> QED BY <3>1, <3>2, <3>4 DEF HomesStay
  <2> QED BY <2>1, <2>2
<1>6. InTurn'
  <2> SUFFICES ASSUME NEW t \in Sessions, NEW i \in DOMAIN log'[t],
                      NEW j \in DOMAIN log'[t], i < j
               PROVE  InOrder(log[t][i], log[t][j])'
    BY DEF InTurn
  <2>1. CASE t = s /\ j = n + 1
    <3>1. i \in 1 .. n BY <2>1, <1>4
    <3>2. log'[t][i] = log[s][i] /\ log'[t][j] = e /\ i \in DOMAIN log[s]
      BY <2>1, <3>1, <1>4
    <3> QED BY <3>2, <1>1 DEF InOrder
  <2>2. CASE ~ (t = s /\ j = n + 1)
    <3>1. /\ i \in DOMAIN log[t] /\ log'[t][i] = log[t][i]
          /\ j \in DOMAIN log[t] /\ log'[t][j] = log[t][j]
      <4>1. CASE t = s BY <2>2, <4>1, <1>4
      <4>2. CASE t # s BY <4>2, <1>3
      <4> QED BY <4>1, <4>2
    <3>2. InOrder(log[t][i], log[t][j]) BY <3>1 DEF LogInv, InTurn
    <3>3. log[t][i] \in Entries BY <3>1 DEF LogInv, LogTypes
    <3>4. log[t][i].run \in Runs /\ home[log[t][i].run] # Draft
      BY <3>1, <3>3 DEF Entries, LogInv, OwnEntries
    <3> QED BY <3>1, <3>2, <3>4 DEF InOrder, HomesStay
  <2> QED BY <2>1, <2>2
<1>7. ASSUME NEW t \in Sessions, NEW q \in Runs, NEW k \in {"failed", "cancelled"}
      PROVE  HasShown(t, q, k)' <=> HasShown(t, q, k) \/ (t = s /\ q = r /\ k \in {kind})
  <2>1. CASE t = s
    <3>1. ASSUME NEW i \in 1 .. n + 1, log'[s][i].run = q, log'[s][i].kind = k
          PROVE  HasShown(s, q, k) \/ (q = r /\ k = kind)
      <4>1. CASE i = n + 1 BY <3>1, <4>1, <1>1, <1>4
      <4>2. CASE i # n + 1
        <5>1. i \in 1 .. n BY <4>2, <1>4
        <5> QED BY <5>1, <3>1, <1>4 DEF HasShown
      <4> QED BY <4>1, <4>2
    <3>2. ASSUME NEW i \in 1 .. n, log[s][i].run = q, log[s][i].kind = k
          PROVE  HasShown(s, q, k)'
      <4>1. i \in 1 .. n + 1 BY <1>4
      <4> QED BY <4>1, <3>2, <1>4 DEF HasShown
    <3>3. ASSUME q = r, k = kind PROVE HasShown(s, q, k)'
      <4>1. n + 1 \in 1 .. n + 1 BY <1>4
      <4> QED BY <4>1, <3>3, <1>1, <1>4 DEF HasShown
    <3> QED BY <2>1, <3>1, <3>2, <3>3, <1>4 DEF HasShown
  <2>2. CASE t # s BY <2>2, <1>3 DEF HasShown
  <2> QED BY <2>1, <2>2
<1> QED BY <1>3, <1>5, <1>6, <1>7 DEF Adds

\* The ends that are shown and those that are uploaded change together.
LEMMA EndsGoTogether ==
    ASSUME EndInv, LogInv, HomesStay, NEW r \in Runs, NEW s \in Sessions, NEW end, NEW kinds,
           home'[r] = s, home' \in [Runs -> Sessions], Adds(s, r, kinds),
           \A k \in {"failed", "cancelled"} : k \in kinds <=> k = end,
           answer' \in [Runs -> {"none", "streaming", "done"}],
           \A q \in Runs : answer'[q] = "done" <=>
                              answer[q] = "done" \/ (q = r /\ end = "completed"),
           \A q \in Runs, e \in {"completed", "failed", "cancelled"} :
              IsUploaded(q, e)' <=> IsUploaded(q, e) \/ (q = r /\ e = end)
    PROVE  LogInv'
<1>1. ASSUME NEW q \in Runs, NEW k \in {"failed", "cancelled"}, NEW t, t = home'[q]
      PROVE  HasShown(t, q, k)' <=> IsUploaded(q, k)'
  <2>1. t \in Sessions BY <1>1
  <2>2. HasShown(t, q, k)' <=> HasShown(t, q, k) \/ (q = r /\ k = end)
    BY <1>1, <2>1 DEF Adds
  <2>3. HasShown(t, q, k) <=> IsUploaded(q, k)
    <3>1. CASE home'[q] = home[q] BY <3>1, <1>1 DEF LogInv, EndsMatch
    <3>2. CASE home[q] = Draft
      <4>1. (~ HasShown(t, q, k) /\ ~ HasShown(Draft, q, k)) \/ t = Draft
        <5>1. ASSUME NEW u \in Sessions, HasShown(u, q, k) PROVE FALSE
          BY <3>2, <5>1 DEF HasShown, LogInv, OwnEntries
        <5> QED BY <2>1, <5>1, <3>2, <1>1 DEF EndInv, RunTypes
      <4>2. HasShown(Draft, q, k) <=> IsUploaded(q, k)
        BY <3>2 DEF LogInv, EndsMatch
      <4> QED BY <4>1, <4>2
    <3> QED BY <3>1, <3>2 DEF HomesStay
  <2>4. IsUploaded(q, k)' <=> IsUploaded(q, k) \/ (q = r /\ k = end)
    OBVIOUS
  <2> QED BY <2>2, <2>3, <2>4
<1>2. ASSUME NEW q \in Runs PROVE answer'[q] = "done" <=> IsUploaded(q, "completed")'
  <2>1. answer[q] = "done" <=> IsUploaded(q, "completed") BY DEF LogInv, EndsMatch
  <2> QED BY <2>1
<1>3. EndsMatch' BY <1>1, <1>2 DEF EndsMatch
<1> QED BY <1>3 DEF Adds, LogInv, LogTypes

LEMMA UploadsGrow ==
    ASSUME EndInv, NEW r \in Runs, NEW end \in {"completed", "failed", "cancelled"},
           Finish(r, end)
    PROVE  \A q \in Runs, e \in {"completed", "failed", "cancelled"} :
              IsUploaded(q, e)' <=> IsUploaded(q, e) \/ (q = r /\ e = end)
<1> SUFFICES ASSUME NEW q \in Runs, NEW e \in {"completed", "failed", "cancelled"}
             PROVE  IsUploaded(q, e)' <=> IsUploaded(q, e) \/ (q = r /\ e = end)
  OBVIOUS
<1> PICK n : n = Len(uploads[r])
  OBVIOUS
<1>1. uploads \in [Runs -> Seq({"completed", "failed", "cancelled"})]
  BY DEF EndInv, RunTypes
<1>0. uploads' = [uploads EXCEPT ![r] = Append(@, end)] BY DEF Finish
<1>2. /\ n \in Nat /\ DOMAIN uploads[r] = 1 .. n /\ DOMAIN uploads'[r] = 1 .. n + 1
      /\ uploads'[r][n + 1] = end /\ \A i \in 1 .. n : uploads'[r][i] = uploads[r][i]
  BY <1>0, <1>1
<1>3. CASE q = r
  <2>1. ASSUME NEW i \in 1 .. n + 1, uploads'[r][i] = e
        PROVE  IsUploaded(r, e) \/ e = end
    <3>1. CASE i = n + 1 BY <3>1, <2>1, <1>2
    <3>2. CASE i # n + 1
      <4>1. i \in 1 .. n BY <3>2, <1>2
      <4> QED BY <4>1, <2>1, <1>2 DEF IsUploaded
    <3> QED BY <3>1, <3>2
  <2>2. ASSUME NEW i \in 1 .. n, uploads[r][i] = e PROVE IsUploaded(r, e)'
    <3>1. i \in 1 .. n + 1 BY <1>2
    <3> QED BY <3>1, <2>2, <1>2 DEF IsUploaded
  <2>3. e = end => IsUploaded(r, e)'
    <3>1. n + 1 \in 1 .. n + 1 BY <1>2
    <3> QED BY <3>1, <1>2 DEF IsUploaded
  <2> QED BY <1>3, <2>1, <2>2, <2>3, <1>2 DEF IsUploaded
<1>4. CASE q # r
  <2>1. uploads'[q] = uploads[q] BY <1>0, <1>1, <1>4
  <2> QED BY <1>4, <2>1 DEF IsUploaded
<1> QED BY <1>3, <1>4

\* A run the transport knows has shown no end; it is the last in its session, but for
\* those that began while it went on.
LEMMA LiveIsLast ==
    ASSUME EndInv, ShowInv, SentInv, LogInv, NEW r \in active
    PROVE  /\ r \in Runs /\ home[r] \in Sessions \ {Draft} /\ answer[r] # "done"
           /\ \A i \in DOMAIN log[home[r]] :
                 \/ log[home[r]][i].run < r
                 \/ /\ log[home[r]][i].run = r
                    /\ log[home[r]][i].kind \notin {"failed", "cancelled"}
                 \/ r \in during[log[home[r]][i].run]
<1>1. /\ r \in Runs /\ home[r] \in Sessions \ {Draft} /\ Len(uploads[r]) = 0
      /\ uploads[r] \in Seq({"completed", "failed", "cancelled"})
  BY DEF EndInv, RunTypes, Uploaded
<1>2. ASSUME NEW end PROVE ~ IsUploaded(r, end)
  BY <1>1 DEF IsUploaded
<1>3. answer[r] # "done" BY <1>1, <1>2 DEF LogInv, EndsMatch
<1>4. ASSUME NEW i \in DOMAIN log[home[r]]
      PROVE  \/ log[home[r]][i].run < r
             \/ /\ log[home[r]][i].run = r
                /\ log[home[r]][i].kind \notin {"failed", "cancelled"}
             \/ r \in during[log[home[r]][i].run]
  <2> DEFINE x == log[home[r]][i]
  <2>1. x \in Entries BY <1>1 DEF LogInv, LogTypes
  <2>2. x.run \in Runs BY <2>1 DEF Entries
  <2>3. home[x.run] = home[r] BY <1>1 DEF LogInv, OwnEntries
  <2>4. r < x.run => r \in during[x.run] BY <2>2, <2>3 DEF SentInv
  <2>5. ASSUME x.run = r, x.kind \in {"failed", "cancelled"} PROVE FALSE
    <3>1. HasShown(home[r], r, x.kind) BY <2>5 DEF HasShown
    <3>2. IsUploaded(r, x.kind) BY <1>1, <2>5, <3>1 DEF LogInv, EndsMatch
    <3> QED BY <3>2, <1>2
  <2>6. x.run \in Int /\ r \in Int BY <1>1, <2>2 DEF Runs
  <2> HIDE DEF x
  <2>7. x.run < r \/ x.run = r \/ r \in during[x.run] BY <2>4, <2>6
  <2> QED BY <2>5, <2>7 DEF x
<1> QED BY <1>1, <1>3, <1>4

LEMMA LiveAdds ==
    ASSUME EndInv, ShowInv, SentInv, LogInv, NEW r \in active,
           NEW kind \in {"answer", "tool", "failed", "cancelled"},
           Shows(r, home[r], kind), UNCHANGED <<home, during>>, aborted \subseteq aborted'
    PROVE  Adds(home[r], r, {kind})
<1>1. HomesStay BY DEF HomesStay
<1> PICK s : s = home[r]
  OBVIOUS
<1>2. r \in Runs /\ s \in Sessions \ {Draft} /\ home'[r] = s BY LiveIsLast
<1>3. \A i \in DOMAIN log[s] :
         \/ log[s][i].run < r
         \/ log[s][i].run = r /\ log[s][i].kind \notin {"failed", "cancelled"}
         \/ r \in during'[log[s][i].run]
  BY LiveIsLast
<1> QED BY <1>1, <1>2, <1>3, MessageIsAdded

\* No end is uploaded, none is shown.
LEMMA NoEnd ==
    ASSUME EndInv, EndInv', LogInv, HomesStay, NEW r \in Runs, NEW s \in Sessions,
           home'[r] = s, NEW kinds, Adds(s, r, kinds),
           "failed" \notin kinds, "cancelled" \notin kinds, uploads' = uploads,
           \/ answer' = answer
           \/ answer[r] # "done" /\ answer' = [answer EXCEPT ![r] = "streaming"]
    PROVE  LogInv'
<1>1. home' \in [Runs -> Sessions] BY DEF EndInv, RunTypes
<1>2. /\ answer' \in [Runs -> {"none", "streaming", "done"}]
      /\ \A q \in Runs : answer'[q] = "done" <=>
                            answer[q] = "done" \/ (q = r /\ "none" = "completed")
  BY DEF LogInv, LogTypes
<1>3. \A q \in Runs, e \in {"completed", "failed", "cancelled"} :
         IsUploaded(q, e)' <=> IsUploaded(q, e) \/ (q = r /\ e = "none")
  BY DEF IsUploaded
<1> QED BY <1>1, <1>2, <1>3, EndsGoTogether

\* The end that is uploaded is the one that is shown.
LEMMA NewEnd ==
    ASSUME EndInv, EndInv', LogInv, HomesStay, NEW r \in Runs,
           NEW end \in {"completed", "failed", "cancelled"}, Finish(r, end),
           UNCHANGED home, NEW kinds, Adds(home[r], r, kinds),
           \A k \in {"failed", "cancelled"} : k \in kinds <=> k = end,
           \/ end # "completed" /\ answer' = answer
           \/ end = "completed" /\ answer' = [answer EXCEPT ![r] = "done"]
    PROVE  LogInv'
<1>1. home' \in [Runs -> Sessions] BY DEF EndInv, RunTypes
<1> PICK s : s = home[r]
  OBVIOUS
<1>2. s \in Sessions /\ home'[r] = s BY <1>1
<1>3. /\ answer' \in [Runs -> {"none", "streaming", "done"}]
      /\ \A q \in Runs : answer'[q] = "done" <=>
                            answer[q] = "done" \/ (q = r /\ end = "completed")
  BY DEF LogInv, LogTypes
<1>4. \A q \in Runs, e \in {"completed", "failed", "cancelled"} :
         IsUploaded(q, e)' <=> IsUploaded(q, e) \/ (q = r /\ e = end)
  BY UploadsGrow
<1>5. Adds(s, r, kinds) OBVIOUS
<1> QED BY <1>1, <1>2, <1>3, <1>4, <1>5, EndsGoTogether

\* The answer of a run that goes on is a message of its own, or replaces one.
LEMMA AnswerAdds ==
    ASSUME EndInv, ShowInv, SentInv, LogInv, NEW r \in active, ShowsAnswer(r),
           UNCHANGED <<home, during>>, aborted \subseteq aborted'
    PROVE  \E kinds \in {{}, {"answer"}} : Adds(home[r], r, kinds)
<1>1. CASE Shows(r, home[r], "answer") BY <1>1, LiveAdds
<1>2. CASE log' = log
  <2>1. HomesStay BY DEF HomesStay
  <2> QED BY <1>2, <2>1, LogStays
<1> QED BY <1>1, <1>2 DEF ShowsAnswer

\* A run that begins shows its question below all that its session shows.
LEMMA QuestionAdds ==
    ASSUME EndInv, ShowInv, LogInv, NEW r \in Runs, NEW s \in Sessions \ {Draft}, Begin(r, s),
           phase[r] \in {"unsent", "creating"}, UNCHANGED <<aborted, answer, uploads>>,
           Shows(r, s, "question"), \A q \in Runs : home[q] = s => q < r, EndInv'
    PROVE  LogInv'
<1>1. home[r] = Draft BY DEF EndInv, Uploaded
<1>2. /\ home' = [home EXCEPT ![r] = s]
      /\ during' = [during EXCEPT ![r] = {q \in active : home[q] = s}]
  BY DEF Begin
<1>3. home'[r] = s /\ HomesStay
  BY <1>1, <1>2 DEF HomesStay, EndInv, RunTypes, ShowInv, StoreTypes
<1>4. ASSUME NEW i \in DOMAIN log[s] PROVE log[s][i].run < r
  <2>1. log[s][i] \in Entries BY DEF LogInv, LogTypes
  <2>2. log[s][i].run \in Runs BY <2>1 DEF Entries
  <2>3. home[log[s][i].run] = s BY DEF LogInv, OwnEntries
  <2> QED BY <2>2, <2>3
<1>5. Adds(s, r, {"question"}) BY <1>3, <1>4, MessageIsAdded
<1> QED BY <1>3, <1>5, NoEnd

LEMMA LogInit == WindowInit => LogInv
<1> SUFFICES ASSUME WindowInit PROVE LogInv
  OBVIOUS
<1> USE DEF WindowInit, Init
<1>1. LogTypes BY DEF LogTypes
<1>2. Draft \in Sessions BY ChatRunAssumption DEF Draft, Sessions
<1>3. \A s \in Sessions : DOMAIN log[s] = {} OBVIOUS
<1>4. OwnEntries /\ InTurn BY <1>3 DEF OwnEntries, InTurn
<1>5. EndsMatch BY <1>2, <1>3 DEF EndsMatch, HasShown, IsUploaded
<1> QED BY <1>1, <1>4, <1>5 DEF LogInv

LEMMA LogStep ==
    ShownInv /\ EndInv /\ ShowInv /\ SentInv /\ LogInv /\ [WindowNext]_windowVars
    => LogInv'
<1> SUFFICES ASSUME ShownInv, EndInv, ShowInv, SentInv, LogInv,
                    [WindowNext]_windowVars
             PROVE  LogInv'
  OBVIOUS
<1>0. EndInv' BY WindowSteps, EndStep
<1>a. ASSUME UNCHANGED <<home, during, aborted, log, answer, uploads>> PROVE LogInv'
  BY <1>a DEF LogInv, LogTypes, OwnEntries, InTurn, InOrder, EndsMatch, HasShown, IsUploaded
<1>1. ASSUME NEW s \in Sessions, Select(s) PROVE LogInv'
  BY <1>1, <1>a DEF Select, vars, runVars
<1>2. ASSUME NEW r \in Runs, Send(r) PROVE LogInv'
  <2>1. CASE shown = Draft
    BY <1>2, <2>1, <1>a DEF Send, SendMessage
  <2>2. CASE shown # Draft
    <3>1. /\ Begin(r, shown) /\ UNCHANGED <<aborted, answer, uploads>>
          /\ phase[r] = "unsent" /\ Shows(r, shown, "question")
      BY <1>2, <2>2 DEF Send, SendMessage
    <3>2. ASSUME NEW q \in Runs, home[q] = shown PROVE q < r
      <4>1. phase[q] # "unsent" BY <3>2, <2>2 DEF EndInv, Uploaded
      <4>2. ~ (r < q) BY <4>1, <3>1 DEF SentInv
      <4>3. q # r BY <4>1, <3>1
      <4> QED BY <4>2, <4>3 DEF Runs
    <3>3. shown \in Sessions \ {Draft} BY <2>2 DEF ShownInv
    <3> QED BY <1>0, <3>1, <3>2, <3>3, QuestionAdds
  <2> QED BY <2>1, <2>2
<1>3. ASSUME NEW r \in Runs, SendCreated(r) PROVE LogInv'
  <2>1. /\ Begin(r, r) /\ UNCHANGED <<aborted, answer, uploads>>
        /\ phase[r] = "creating" /\ Shows(r, r, "question")
    BY <1>3 DEF SendCreated, Created
  <2>2. r \in Sessions \ {Draft} /\ r \notin sessions
    BY <2>1 DEF ShowInv, Shown, Runs, Sessions, Draft
  <2>3. \A q \in Runs : home[q] # r BY <2>2 DEF SentInv
  <2> QED BY <1>0, <2>1, <2>2, <2>3, QuestionAdds
<1>4. CASE Abort
  <2> PICK r : r = view[shown].run
    OBVIOUS
  <2>1. /\ r \in active /\ Finish(r, "cancelled") /\ UNCHANGED <<home, during, answer>>
        /\ aborted' = aborted \cup {r} /\ Shows(r, shown, "cancelled")
        /\ view[shown].status = "running"
    BY <1>4 DEF Abort, CancelRun
  <2>2. home[r] = shown BY <2>1 DEF ShownInv, ShowInv, Shown, EndInv, RunTypes
  <2>3. HomesStay BY <2>1 DEF HomesStay
  <2>4. Adds(home[r], r, {"cancelled"}) BY <2>1, <2>2, LiveAdds
  <2>5. r \in Runs BY <2>1 DEF EndInv, RunTypes
  <2> QED BY <1>0, <2>1, <2>3, <2>4, <2>5, NewEnd
<1>5. ASSUME NEW r \in Runs,
             \/ Text(r) \/ Action(r) \/ ToolAnswered(r) \/ StepReported(r)
             \/ Done(r) \/ Failed(r) \/ Silent(r)
      PROVE  LogInv'
  <2>0. UNCHANGED <<home, during, aborted>>
    BY <1>5 DEF Text, StreamText, Action, StreamAction, ToolAnswered, ToolDone,
                StepReported, Reported, Done, StreamEnd, Failed, RunFailed, Silent,
                CreateFailed, Connected, Stopped, runVars
  <2>1. HomesStay /\ home[r] \in Sessions BY <2>0 DEF HomesStay, EndInv, RunTypes
  <2>2. CASE Text(r)
    <3>1. /\ r \in active /\ ShowsAnswer(r) /\ uploads' = uploads
          /\ answer' = [answer EXCEPT ![r] = "streaming"]
      BY <2>2 DEF Text, StreamText, EndInv, Uploaded, Live
    <3>2. answer[r] # "done" BY <3>1, LiveIsLast
    <3>3. PICK kinds \in {{}, {"answer"}} : Adds(home[r], r, kinds)
      BY <2>0, <3>1, AnswerAdds
    <3> QED BY <1>0, <2>0, <2>1, <3>1, <3>2, <3>3, NoEnd
  <2>3. CASE Action(r)
    <3>1. /\ r \in active /\ UNCHANGED <<answer, uploads>>
          /\ Shows(r, home[r], "tool") \/ log' = log
      BY <2>3 DEF Action, StreamAction, EndInv, Uploaded, Live
    <3>2. Adds(home[r], r, {"tool"}) \/ Adds(home[r], r, {})
      BY <2>0, <2>1, <3>1, LiveAdds, LogStays
    <3> QED BY <1>0, <2>0, <2>1, <3>1, <3>2, NoEnd
  <2>4. CASE ToolAnswered(r)
    <3>1. /\ r \in active \/ r \in aborted
          /\ UNCHANGED <<answer, uploads>> /\ Shows(r, home[r], "tool")
          /\ home[r] # Draft
      BY <2>4 DEF ToolAnswered, ToolDone, EndInv, Uploaded, Live
    <3>2. CASE r \in active
      <4>1. Adds(home[r], r, {"tool"}) BY <2>0, <3>1, <3>2, LiveAdds
      <4> QED BY <1>0, <2>0, <2>1, <3>1, <4>1, NoEnd
    <3>3. CASE r \in aborted
      <4> PICK s : s = home[r]
        OBVIOUS
      <4>1. s \in Sessions \ {Draft} /\ home'[r] = s /\ r \in aborted' /\ Shows(r, s, "tool")
        BY <2>0, <2>1, <3>1, <3>3
      <4>2. Adds(s, r, {"tool"}) BY <2>1, <4>1, MessageIsAdded
      <4> QED BY <1>0, <2>1, <3>1, <4>1, <4>2, NoEnd
    <3> QED BY <3>1, <3>2, <3>3
  <2>5. CASE Done(r)
    <3>1. /\ r \in active /\ ShowsAnswer(r) /\ Finish(r, "completed")
          /\ answer' = [answer EXCEPT ![r] = "done"]
      BY <2>5 DEF Done, StreamEnd, EndInv, Uploaded, Live
    <3>2. PICK kinds \in {{}, {"answer"}} : Adds(home[r], r, kinds)
      BY <2>0, <3>1, AnswerAdds
    <3> QED BY <1>0, <2>0, <2>1, <3>1, <3>2, NewEnd
  <2>6. CASE Failed(r)
    <3>1. /\ r \in active /\ Shows(r, home[r], "failed") /\ Finish(r, "failed")
          /\ answer' = answer
      BY <2>6 DEF Failed, RunFailed, EndInv, Uploaded, Live
    <3>2. Adds(home[r], r, {"failed"}) BY <2>0, <3>1, LiveAdds
    <3> QED BY <1>0, <2>0, <2>1, <3>1, <3>2, NewEnd
  <2>7. CASE StepReported(r) \/ Silent(r)
    BY <2>7, <1>a DEF StepReported, Reported, Silent, CreateFailed, Connected, Stopped
  <2> QED BY <1>5, <2>2, <2>3, <2>4, <2>5, <2>6, <2>7
<1>6. CASE UNCHANGED windowVars BY <1>6, <1>a DEF windowVars, vars, runVars
<1> QED BY <1>1, <1>2, <1>3, <1>4, <1>5, <1>6 DEF WindowNext

-------------------------------------------------------------------------------
(* The snapshot of a session                                                 *)

Snapshots ==
    [run : Sessions, status : {"idle", "running", "completed", "failed", "cancelled"},
     steps : Nat]

\* No two steps of a panel have one id; the run it shows is counted if it began alone.
Counted(s) ==
    /\ snapshot[s].status = "running" => GoesOn(s)
    /\ IsFiniteSet(view[s].steps)
    /\ Cardinality(view[s].steps) <= snapshot[s].steps
    /\ \A x, y \in view[s].steps : x.id = y.id => x = y
    /\ \A r \in Runs : view[s].run = r =>
          /\ s # Draft /\ home[r] = s
          /\ during[r] = {} => snapshot[s].steps = actions[r]

CountInv == snapshot \in [Sessions -> Snapshots] /\ \A s \in Sessions : Counted(s)

\* A run that has not begun took no action.
FreshInv == \A r \in Runs : phase[r] \in {"unsent", "creating"} => actions[r] = 0

LEMMA FreshStep == EndInv /\ FreshInv /\ [Next]_vars => FreshInv'
<1> SUFFICES ASSUME EndInv, FreshInv, [Next]_vars PROVE FreshInv'
  OBVIOUS
<1>0. /\ phase \in [Runs -> {"unsent", "creating", "over"} \cup Live]
      /\ actions \in [Runs -> Nat]
  BY DEF EndInv, RunTypes
<1>1. ASSUME NEW r \in Runs, NEW s \in Sessions, SendMessage(r, s) PROVE FreshInv'
  BY <1>0, <1>1 DEF SendMessage, Begin, FreshInv
<1>2. ASSUME NEW s \in Sessions, CancelRun(s) PROVE FreshInv'
  BY <1>2 DEF CancelRun, FreshInv
<1>3. ASSUME NEW r \in Runs, Step(r) PROVE FreshInv'
  <2>1. CASE StreamAction(r)
    <3>1. /\ actions' = [actions EXCEPT ![r] = @ + 1] /\ phase[r] = "stream"
          /\ phase' = phase \/ phase' = [phase EXCEPT ![r] = "tool"]
      BY <2>1 DEF StreamAction
    <3> QED BY <1>0, <3>1 DEF FreshInv
  <2>2. CASE ~ StreamAction(r)
    <3>1. /\ actions' = actions
          /\ \/ phase' = phase
             \/ \E p \in {"fetch", "over", "stream", "report"} : phase' = [phase EXCEPT ![r] = p]
      BY <1>3, <2>2 DEF Step, Created, Begin, CreateFailed, Connected, StreamText, ToolDone,
                        Reported, StreamEnd, RunFailed, Stopped, runVars
    <3> QED BY <1>0, <3>1 DEF FreshInv
  <2> QED BY <2>1, <2>2
<1>4. CASE UNCHANGED vars BY <1>4 DEF vars, runVars, FreshInv
<1> QED BY <1>1, <1>2, <1>3, <1>4 DEF Next

LEMMA CountInit == WindowInit => CountInv
<1> SUFFICES ASSUME WindowInit PROVE CountInv
  OBVIOUS
<1>1. NoSnapshot \in Snapshots BY ChatRunAssumption DEF NoSnapshot, Snapshots, Sessions
<1>2. snapshot \in [Sessions -> Snapshots] BY <1>1 DEF WindowInit
<1>3. ASSUME NEW s \in Sessions PROVE Counted(s)
  <2>1. snapshot[s] = NoSnapshot /\ view[s] = NoRun BY DEF WindowInit, Init
  <2>2. 0 \notin Runs BY DEF Runs
  <2> QED BY <2>1, <2>2, FS_EmptySet DEF Counted, NoSnapshot, NoRun
<1> QED BY <1>2, <1>3 DEF CountInv

\* A step makes one more, or takes the place of one of the same id.
LEMMA StepsGrow ==
    ASSUME NEW steps, IsFiniteSet(steps), NEW r, NEW id, NEW status,
           \A x, y \in steps : x.id = y.id => x = y,
           NEW after, after = WithStep(steps, r, id, status)
    PROVE  /\ IsFiniteSet(after) /\ Cardinality(after) <= Cardinality(steps) + 1
           /\ \A x, y \in after : x.id = y.id => x = y
<1> DEFINE new == [run |-> r, id |-> id, status |-> status]
<1> PICK rest : rest = {x \in steps : x.id # id}
  OBVIOUS
<1>1. after = rest \cup {new} BY DEF WithStep
<1>2. new.id = id OBVIOUS
<1> HIDE DEF new
<1>3. new \notin rest /\ rest \in SUBSET steps BY <1>2
<1>4. IsFiniteSet(rest) /\ Cardinality(rest) <= Cardinality(steps) BY <1>3, FS_Subset
<1>5. IsFiniteSet(after) /\ Cardinality(after) = Cardinality(rest) + 1
  <2>1. /\ IsFiniteSet(rest \cup {new})
        /\ Cardinality(rest \cup {new}) = IF new \in rest THEN Cardinality(rest)
                                          ELSE Cardinality(rest) + 1
    BY <1>4, FS_AddElement
  <2> QED BY <1>1, <1>3, <2>1
<1>6. Cardinality(rest) \in Nat /\ Cardinality(steps) \in Nat BY <1>4, FS_CardinalityType
<1>7. Cardinality(after) <= Cardinality(steps) + 1 BY <1>4, <1>5, <1>6
<1>8. \A x, y \in after : x.id = y.id => x = y BY <1>1, <1>2
<1> QED BY <1>5, <1>7, <1>8

WithStatus(steps, id, status) ==
    {IF x.id = id THEN [x EXCEPT !.status = status] ELSE x : x \in steps}

\* A step that changes its status is one step as before.
LEMMA StepsRemain ==
    ASSUME NEW steps \in SUBSET ShownSteps, IsFiniteSet(steps), NEW id, NEW status,
           \A x, y \in steps : x.id = y.id => x = y,
           NEW after, after = WithStatus(steps, id, status)
    PROVE  /\ IsFiniteSet(after) /\ Cardinality(after) = Cardinality(steps)
           /\ \A x, y \in after : x.id = y.id => x = y
           /\ \A x \in after : \E y \in steps : y.id = x.id
<1> USE DEF WithStatus
<1>1. ASSUME NEW x \in steps PROVE [x EXCEPT !.status = status].id = x.id
  BY DEF ShownSteps
<1>2. CASE \A x \in steps : x.id # id
  <2>1. after = steps BY <1>2
  <2> QED BY <2>1
<1>3. CASE \E x \in steps : x.id = id
  <2> PICK x \in steps : x.id = id
    BY <1>3
  <2> PICK new : new = [x EXCEPT !.status = status]
    OBVIOUS
  <2>1. new.id = id BY <1>1
  <2>2. \A y \in steps \ {x} : y.id # id OBVIOUS
  <2>3. after = (steps \ {x}) \cup {new} BY <2>2
  <2>4. IsFiniteSet(steps \ {x}) /\ Cardinality(steps \ {x}) = Cardinality(steps) - 1
    BY FS_RemoveElement
  <2>5. new \notin steps \ {x} BY <2>1, <2>2
  <2>6. Cardinality(steps) \in Nat BY FS_CardinalityType
  <2>7. /\ IsFiniteSet((steps \ {x}) \cup {new})
        /\ Cardinality((steps \ {x}) \cup {new}) = Cardinality(steps \ {x}) + 1
    BY <2>4, <2>5, FS_AddElement
  <2>8. IsFiniteSet(after) /\ Cardinality(after) = Cardinality(steps)
    <3>1. IsFiniteSet(after) /\ Cardinality(after) = (Cardinality(steps) - 1) + 1
      BY <2>3, <2>4, <2>7, Zenon
    <3>2. \A n \in Nat : (n - 1) + 1 = n OBVIOUS
    <3> QED BY <2>6, <3>1, <3>2
  <2> QED BY <2>1, <2>2, <2>3, <2>8
<1> QED BY <1>2, <1>3

\* A session nothing is written to.
LEMMA OthersCounted ==
    ASSUME CountInv, NEW t \in Sessions, view'[t] = view[t], snapshot'[t] = snapshot[t],
           GoesOn(t) => GoesOn(t)',
           t # Draft => \A q \in Runs : home[q] = t =>
              home'[q] = home[q] /\ actions'[q] = actions[q] /\ during'[q] = during[q]
    PROVE  Counted(t)'
<1>1. Counted(t) BY DEF CountInv
<1>2. ASSUME NEW q \in Runs, view[t].run = q
      PROVE  /\ t # Draft /\ home'[q] = t
             /\ during'[q] = {} => snapshot'[t].steps = actions'[q]
  <2>1. /\ t # Draft /\ home[q] = t
        /\ during[q] = {} => snapshot[t].steps = actions[q]
    BY <1>1, <1>2 DEF Counted
  <2>2. home'[q] = home[q] /\ actions'[q] = actions[q] /\ during'[q] = during[q]
    BY <2>1
  <2> QED BY <2>1, <2>2
<1> QED BY <1>1, <1>2 DEF Counted

LEMMA SnapIs ==
    ASSUME CountInv, NEW r \in Runs, NEW s \in Sessions, NEW n \in Nat,
           NEW status \in {"idle", "running", "completed", "failed", "cancelled"},
           Snap(r, s, status, n)
    PROVE  /\ snapshot' \in [Sessions -> Snapshots]
           /\ snapshot'[s].status = status /\ snapshot'[s].steps = n
           /\ \A t \in Sessions \ {s} : snapshot'[t] = snapshot[t]
<1> DEFINE e == [run |-> r, status |-> status, steps |-> n]
<1>1. e \in Snapshots BY ChatRunAssumption DEF Snapshots, Runs, Sessions
<1>2. e.status = status /\ e.steps = n OBVIOUS
<1>3. snapshot' = [snapshot EXCEPT ![s] = e] BY DEF Snap
<1> HIDE DEF e
<1> QED BY <1>1, <1>2, <1>3 DEF CountInv

\* A run that begins: the snapshot and the panel start again.
LEMMA BeginCounted ==
    ASSUME EndInv, ShowInv, CountInv, NEW r \in Runs, NEW s \in Sessions \ {Draft},
           Begin(r, s), Snap(r, s, "running", 0), phase[r] \in {"unsent", "creating"},
           actions' = actions, FreshInv
    PROVE  CountInv'
<1> DEFINE new == [run |-> r, status |-> "running", steps |-> {}]
<1>1. /\ view' = [view EXCEPT ![s] = new] /\ home' = [home EXCEPT ![r] = s]
      /\ during' = [during EXCEPT ![r] = {q \in active : home[q] = s}]
      /\ active' = active \cup {r}
  BY DEF Begin, RunStarted
<1>2. new.run = r /\ new.status = "running" /\ new.steps = {} OBVIOUS
<1> HIDE DEF new
<1>3. view'[s] = new /\ \A t \in Sessions \ {s} : view'[t] = view[t]
  BY <1>1 DEF ShowInv, StoreTypes
<1>4. /\ home'[r] = s /\ home[r] = Draft /\ r \notin active /\ active \subseteq Runs
      /\ actions[r] = 0
      /\ \A q \in Runs \ {r} : home'[q] = home[q] /\ during'[q] = during[q]
  BY <1>1 DEF EndInv, RunTypes, Uploaded, Live, ShowInv, StoreTypes, FreshInv
<1>5. /\ snapshot' \in [Sessions -> Snapshots]
      /\ snapshot'[s].status = "running" /\ snapshot'[s].steps = 0
      /\ \A t \in Sessions \ {s} : snapshot'[t] = snapshot[t]
  BY SnapIs
<1>6. GoesOn(s)' BY <1>1, <1>4 DEF GoesOn
<1>7. Cardinality({}) = 0 /\ IsFiniteSet({}) BY FS_EmptySet
<1>8. Counted(s)'
  <2>1. view'[s].run = r /\ view'[s].steps = {} BY <1>2, <1>3
  <2>2. actions'[r] = 0 /\ snapshot'[s].steps = 0 BY <1>4, <1>5
  <2>3. Cardinality(view'[s].steps) <= snapshot'[s].steps BY <2>1, <2>2, <1>7
  <2>4. IsFiniteSet(view'[s].steps) BY <2>1, <1>7
  <2>5. \A q \in Runs : view'[s].run = q =>
           s # Draft /\ home'[q] = s /\ (during'[q] = {} => snapshot'[s].steps = actions'[q])
    BY <2>1, <2>2, <1>4
  <2> QED BY <2>1, <2>3, <2>4, <2>5, <1>6 DEF Counted
<1>9. ASSUME NEW t \in Sessions, t # s PROVE Counted(t)'
  <2>1. GoesOn(t) => GoesOn(t)' BY <1>1, <1>4 DEF GoesOn
  <2> QED BY <2>1, <1>3, <1>4, <1>5, <1>9, OthersCounted
<1> QED BY <1>5, <1>8, <1>9 DEF CountInv

\* An event that leaves the number of steps and the run of the session.
LEMMA SameCounted ==
    ASSUME CountInv, NEW r \in Runs, NEW s \in Sessions,
           NEW status \in {"idle", "running", "completed", "failed", "cancelled"},
           Snap(r, s, status, StepsTaken(s)), UNCHANGED <<home, during, actions>>,
           \A t \in Sessions : /\ view'[t].run = view[t].run
                               /\ view'[t].steps = view[t].steps
                               /\ t # s => view'[t] = view[t] /\ (GoesOn(t) => GoesOn(t)'),
           status = "running" => GoesOn(s)'
    PROVE  CountInv'
<1> PICK n : n = StepsTaken(s)
  OBVIOUS
<1>1. n \in Nat /\ n = snapshot[s].steps BY DEF CountInv, Snapshots, StepsTaken
<1>2. Snap(r, s, status, n) OBVIOUS
<1>3. /\ snapshot' \in [Sessions -> Snapshots]
      /\ snapshot'[s].status = status /\ snapshot'[s].steps = n
      /\ \A t \in Sessions \ {s} : snapshot'[t] = snapshot[t]
  BY <1>1, <1>2, SnapIs
<1>4. Counted(s)'
  <2>1. Counted(s) BY DEF CountInv
  <2> QED BY <2>1, <1>1, <1>3 DEF Counted
<1>5. ASSUME NEW t \in Sessions, t # s PROVE Counted(t)'
  BY <1>3, <1>5, OthersCounted
<1> QED BY <1>3, <1>4, <1>5 DEF CountInv

LEMMA EndCounted ==
    ASSUME EndInv, ShowInv, CountInv, NEW r \in active, NEW s, s = home[r],
           NEW end \in {"completed", "failed", "cancelled"}, Finish(r, end),
           Snap(r, s, end, StepsTaken(s)), UNCHANGED <<home, during, actions>>
    PROVE  CountInv'
<1>1. r \in Runs /\ s \in Sessions BY LiveIsShown
<1> PICK shows :
       shows = IF end = "completed" /\ view[s].status = "failed" THEN "failed" ELSE end
  OBVIOUS
<1>2. view' = [view EXCEPT ![s].status = shows] /\ active' = active \ {r}
  BY DEF Finish, Ended
<1>3. \A t \in Sessions : /\ view'[t].run = view[t].run
                          /\ view'[t].steps = view[t].steps
                          /\ t # s => view'[t] = view[t] /\ (GoesOn(t) => GoesOn(t)')
  <2>1. ASSUME NEW t \in Sessions, t # s PROVE GoesOn(t) => GoesOn(t)'
    BY <1>2, <2>1 DEF GoesOn
  <2> QED BY <1>1, <1>2, <2>1 DEF ShowInv, StoreTypes, ShownRuns
<1> QED BY <1>1, <1>3, SameCounted

\* A step that starts is counted once.
LEMMA ActionCounted ==
    ASSUME EndInv, ShowInv, CountInv, NEW r \in active, NEW s, s = home[r], NEW id,
           actions' = [actions EXCEPT ![r] = @ + 1], UNCHANGED <<home, during, active>>,
           NEW status \in {"running", "success"}, StepStarted(r, id, status),
           Snap(r, s, "running", StepsTaken(s) + 1)
    PROVE  CountInv'
<1>1. /\ r \in Runs /\ s \in Sessions \ {Draft} /\ GoesOn(s)
      /\ r = view[s].run \/ r \in during[view[s].run]
  BY LiveIsShown DEF EndInv, Uploaded
<1>2. /\ actions[r] \in Nat /\ actions'[r] = actions[r] + 1
      /\ \A q \in Runs \ {r} : actions'[q] = actions[q]
  BY <1>1 DEF EndInv, RunTypes
<1> PICK steps : steps = view[s].steps
  OBVIOUS
<1> PICK after : after = WithStep(steps, r, id, status)
  OBVIOUS
<1> PICK k : k = StepsTaken(s) + 1
  OBVIOUS
<1>3. Counted(s) BY <1>1 DEF CountInv
<1>4. /\ IsFiniteSet(steps) /\ Cardinality(steps) <= snapshot[s].steps
      /\ \A x, y \in steps : x.id = y.id => x = y
  BY <1>1, <1>3 DEF Counted
<1>5. /\ IsFiniteSet(after) /\ Cardinality(after) <= Cardinality(steps) + 1
      /\ \A x, y \in after : x.id = y.id => x = y
  BY <1>4, StepsGrow
<1>6. view' = [view EXCEPT ![s].status = "running", ![s].steps = after]
  BY DEF StepStarted
<1>7. /\ view'[s].run = view[s].run /\ view'[s].steps = after
      /\ \A t \in Sessions \ {s} : view'[t] = view[t]
  BY <1>1, <1>6 DEF ShowInv, StoreTypes, ShownRuns
<1>8. k \in Nat /\ snapshot[s].steps \in Nat /\ k = snapshot[s].steps + 1
  BY <1>1 DEF CountInv, Snapshots, StepsTaken
<1>9. Snap(r, s, "running", k) OBVIOUS
<1>10. /\ snapshot' \in [Sessions -> Snapshots] /\ snapshot'[s].steps = k
       /\ \A t \in Sessions \ {s} : snapshot'[t] = snapshot[t]
  BY <1>1, <1>8, <1>9, SnapIs
<1>11. \A t \in Sessions : GoesOn(t) => GoesOn(t)' BY DEF GoesOn
<1>12. Counted(s)'
  <2>1. Cardinality(after) <= k
    <3>1. Cardinality(after) \in Nat /\ Cardinality(steps) \in Nat
      BY <1>4, <1>5, FS_CardinalityType
    <3> QED BY <3>1, <1>4, <1>5, <1>8
  <2>2. ASSUME NEW q \in Runs, view'[s].run = q
        PROVE  s # Draft /\ home'[q] = s /\ (during'[q] = {} => k = actions'[q])
    <3>1. /\ home[q] = s /\ during[q] = {} => snapshot[s].steps = actions[q]
      BY <2>2, <1>3, <1>7 DEF Counted
    <3>2. during[q] = {} => q = r BY <2>2, <1>1, <1>7
    <3> QED BY <3>1, <3>2, <2>2, <1>1, <1>2, <1>3, <1>7, <1>8 DEF Counted
  <2> QED BY <2>1, <2>2, <1>1, <1>5, <1>7, <1>10, <1>11 DEF Counted
<1>13. ASSUME NEW t \in Sessions, t # s PROVE Counted(t)'
  BY <1>2, <1>7, <1>10, <1>11, <1>13, OthersCounted
<1> QED BY <1>10, <1>12, <1>13 DEF CountInv

\* A step that is reported: one as before, if the session still shows it.
LEMMA ReportCounted ==
    ASSUME EndInv, ShowInv, CountInv, NEW r \in Runs, StepReported(r)
    PROVE  CountInv'
<1> PICK s : s = home[r]
  OBVIOUS
<1> PICK id : id = stepId[r]
  OBVIOUS
<1> PICK status : status = IF isError[r] THEN "failed" ELSE "success"
  OBVIOUS
<1> PICK steps : steps = view[s].steps
  OBVIOUS
<1> PICK after : after = WithStatus(steps, id, status)
  OBVIOUS
<1> PICK says : says = IF isError[r] THEN "failed" ELSE snapshot[s].status
  OBVIOUS
<1> PICK n : n = StepsTaken(s)
  OBVIOUS
<1>1. s \in Sessions /\ steps \in SUBSET ShownSteps
  BY DEF EndInv, RunTypes, ShowInv, StoreTypes, ShownRuns
<1>2. Counted(s) BY <1>1 DEF CountInv
<1>3. /\ view' = [view EXCEPT ![s].steps = after] /\ Snap(r, s, says, n)
      /\ UNCHANGED <<home, during, actions, active>>
  BY DEF StepReported, Reported, StepFinished, SnapStepFinished, WithStatus
<1>4. /\ view'[s].run = view[s].run
      /\ view'[s].steps = after /\ \A t \in Sessions \ {s} : view'[t] = view[t]
  BY <1>1, <1>3 DEF ShowInv, StoreTypes, ShownRuns
<1>5. /\ IsFiniteSet(steps) /\ Cardinality(steps) <= snapshot[s].steps
      /\ \A x, y \in steps : x.id = y.id => x = y
  BY <1>2 DEF Counted
<1>6. /\ IsFiniteSet(after) /\ Cardinality(after) = Cardinality(steps)
      /\ \A x, y \in after : x.id = y.id => x = y
  BY <1>1, <1>5, StepsRemain
<1>7. /\ n \in Nat /\ n = snapshot[s].steps
      /\ says \in {"idle", "running", "completed", "failed", "cancelled"}
      /\ says = "running" => snapshot[s].status = "running"
  BY <1>1 DEF CountInv, Snapshots, StepsTaken
<1>8. /\ snapshot' \in [Sessions -> Snapshots]
      /\ snapshot'[s].status = says /\ snapshot'[s].steps = n
      /\ \A t \in Sessions \ {s} : snapshot'[t] = snapshot[t]
  BY <1>1, <1>3, <1>7, SnapIs
<1>9. \A t \in Sessions : GoesOn(t) => GoesOn(t)' BY <1>3 DEF GoesOn
<1>10. Counted(s)'
  <2>1. snapshot'[s].status = "running" => GoesOn(s)'
    BY <1>1, <1>2, <1>7, <1>8, <1>9 DEF Counted
  <2>2. Cardinality(view'[s].steps) <= snapshot'[s].steps
    BY <1>4, <1>5, <1>6, <1>7, <1>8
  <2>3. ASSUME NEW q \in Runs, view'[s].run = q
        PROVE  s # Draft /\ home'[q] = s /\ (during'[q] = {} => snapshot'[s].steps = actions'[q])
    BY <2>3, <1>2, <1>3, <1>4, <1>7, <1>8 DEF Counted
  <2> QED BY <2>1, <2>2, <2>3, <1>4, <1>6 DEF Counted
<1>11. ASSUME NEW t \in Sessions, t # s PROVE Counted(t)'
  BY <1>3, <1>4, <1>8, <1>9, <1>11, OthersCounted
<1> QED BY <1>8, <1>10, <1>11 DEF CountInv

LEMMA CountStep ==
    ShownInv /\ EndInv /\ ShowInv /\ FreshInv /\ CountInv /\ [WindowNext]_windowVars
    => CountInv'
<1> SUFFICES ASSUME ShownInv, EndInv, ShowInv, FreshInv, CountInv, [WindowNext]_windowVars
             PROVE  CountInv'
  OBVIOUS
<1>a. ASSUME UNCHANGED <<home, during, active, actions, view, snapshot>> PROVE CountInv'
  BY <1>a DEF CountInv, Counted, GoesOn
<1>1. ASSUME NEW s \in Sessions, Select(s) PROVE CountInv'
  BY <1>1, <1>a DEF Select, vars, runVars
<1>2. ASSUME NEW r \in Runs, Send(r) PROVE CountInv'
  <2>1. CASE shown = Draft
    BY <1>2, <2>1, <1>a DEF Send, SendMessage
  <2>2. CASE shown # Draft
    <3>1. /\ Begin(r, shown) /\ Snap(r, shown, "running", 0) /\ actions' = actions
          /\ phase[r] = "unsent"
      BY <1>2, <2>2 DEF Send, SendMessage
    <3>2. shown \in Sessions \ {Draft} BY <2>2 DEF ShownInv
    <3> QED BY <3>1, <3>2, BeginCounted
  <2> QED BY <2>1, <2>2
<1>3. ASSUME NEW r \in Runs, SendCreated(r) PROVE CountInv'
  <2>1. /\ Begin(r, r) /\ Snap(r, r, "running", 0) /\ actions' = actions
        /\ phase[r] = "creating"
    BY <1>3 DEF SendCreated, Created
  <2>2. r \in Sessions \ {Draft} BY DEF Runs, Sessions, Draft
  <2> QED BY <2>1, <2>2, BeginCounted
<1>4. CASE Abort
  <2> PICK r : r = view[shown].run
    OBVIOUS
  <2>1. /\ r \in active /\ Finish(r, "cancelled") /\ UNCHANGED <<home, during, actions>>
        /\ Snap(r, shown, "cancelled", StepsTaken(shown))
    BY <1>4 DEF Abort, CancelRun
  <2>2. shown = home[r] BY <2>1 DEF ShownInv, ShowInv, Shown, EndInv, RunTypes
  <2> QED BY <2>1, <2>2, EndCounted
<1>5. ASSUME NEW r \in Runs,
             \/ Text(r) \/ Action(r) \/ ToolAnswered(r) \/ StepReported(r)
             \/ Done(r) \/ Failed(r) \/ Silent(r)
      PROVE  CountInv'
  <2> PICK s : s = home[r]
    OBVIOUS
  <2>1. CASE Text(r)
    <3>1. /\ r \in active /\ Snap(r, s, "running", StepsTaken(s))
          /\ UNCHANGED <<home, during, actions, active, view>>
      BY <2>1 DEF Text, StreamText, EndInv, Uploaded, Live, runVars
    <3>2. s \in Sessions /\ GoesOn(s) BY <3>1, LiveIsShown
    <3>3. \A t \in Sessions : GoesOn(t) => GoesOn(t)' BY <3>1 DEF GoesOn
    <3> QED BY <3>1, <3>2, <3>3, SameCounted
  <2>2. CASE Action(r)
    <3>1. /\ r \in active /\ Snap(r, s, "running", StepsTaken(s) + 1)
          /\ UNCHANGED <<home, during, active>> /\ actions' = [actions EXCEPT ![r] = @ + 1]
          /\ \E id, status : status \in {"running", "success"} /\ StepStarted(r, id, status)
      BY <2>2 DEF Action, StreamAction, EndInv, Uploaded, Live
    <3> QED BY <3>1, ActionCounted
  <2>3. CASE StepReported(r) BY <2>3, ReportCounted
  <2>4. CASE Done(r)
    <3>1. /\ r \in active /\ Finish(r, "completed") /\ UNCHANGED <<home, during, actions>>
          /\ Snap(r, s, "completed", StepsTaken(s))
      BY <2>4 DEF Done, StreamEnd, EndInv, Uploaded, Live
    <3> QED BY <3>1, EndCounted
  <2>5. CASE Failed(r)
    <3>1. /\ r \in active /\ Finish(r, "failed") /\ UNCHANGED <<home, during, actions>>
          /\ Snap(r, s, "failed", StepsTaken(s))
      BY <2>5 DEF Failed, RunFailed, EndInv, Uploaded, Live
    <3> QED BY <3>1, EndCounted
  <2>6. CASE ToolAnswered(r) \/ Silent(r)
    BY <2>6, <1>a DEF ToolAnswered, ToolDone, Silent, CreateFailed, Connected, Stopped
  <2> QED BY <1>5, <2>1, <2>2, <2>3, <2>4, <2>5, <2>6
<1>6. CASE UNCHANGED windowVars BY <1>6, <1>a DEF windowVars, vars, runVars
<1> QED BY <1>1, <1>2, <1>3, <1>4, <1>5, <1>6 DEF WindowNext

LEMMA TurnsFollow == EndInv /\ LogInv /\ CountInv => TurnsAreShown
<1> SUFFICES ASSUME EndInv, LogInv, CountInv PROVE TurnsAreShown
  OBVIOUS
<1>1. ASSUME NEW r \in Runs, home[r] # Draft PROVE EndsShown(r) = ToSet(uploads[r])
  <2> DEFINE own == {x \in ToSet(log[home[r]]) : x.run = r}
  <2>1. \A k : k \in {x.kind : x \in own} <=> HasShown(home[r], r, k)
    BY DEF HasShown, ToSet
  <2>2. \A k \in {"failed", "cancelled"} : HasShown(home[r], r, k) <=> IsUploaded(r, k)
    BY DEF LogInv, EndsMatch
  <2>3. answer[r] = "done" <=> IsUploaded(r, "completed") BY DEF LogInv, EndsMatch
  <2>4. \A k : k \in ToSet(uploads[r]) <=> IsUploaded(r, k) BY DEF IsUploaded, ToSet
  <2>5. \A k : IsUploaded(r, k) => k \in {"completed", "failed", "cancelled"}
    <3>1. uploads[r] \in Seq({"completed", "failed", "cancelled"})
      BY DEF EndInv, RunTypes
    <3> QED BY <3>1 DEF IsUploaded
  <2>6. EndsShown(r) = ({x.kind : x \in own} \cap {"failed", "cancelled"})
                         \cup (IF answer[r] = "done" THEN {"completed"} ELSE {})
    BY DEF EndsShown
  <2> HIDE DEF own
  <2>7. \A k : k \in EndsShown(r) <=> k \in ToSet(uploads[r])
    BY <2>1, <2>2, <2>3, <2>4, <2>5, <2>6
  <2> QED BY <2>7
<1>2. ASSUME NEW s \in Sessions
      PROVE  /\ snapshot[s].status = "running" => \E r \in active : home[r] = s
             /\ Cardinality(view[s].steps) <= snapshot[s].steps
             /\ \A r \in Runs : view[s].run = r /\ during[r] = {} =>
                                   snapshot[s].steps = actions[r]
  BY DEF CountInv, Counted, GoesOn
<1>3. \A s \in Sessions : \A i, j \in DOMAIN log[s] :
         i < j => InOrder(log[s][i], log[s][j])
  BY DEF LogInv, InTurn
<1> QED BY <1>1, <1>2, <1>3 DEF TurnsAreShown

\* Whatever sessions the user turns to and sends in, whenever tools answer and runs are
\* cancelled, and whatever ids the service gives to actions: a session shows its turns
\* one after the other, each with the one end that was uploaded, but for what messages
\* that crossed still say; the snapshot of its stream calls nothing running that is over,
\* counts the actions of a run that began alone, and no fewer than the panel shows.
THEOREM TurnsStayInOrder == WindowSpec => []TurnsAreShown
<1> DEFINE Inv == ShownInv /\ EndInv /\ ShowInv /\ SentInv /\ LogInv /\ FreshInv /\ CountInv
<1>1. WindowInit => Inv
  <2>1. WindowInit => Init BY DEF WindowInit
  <2>2. Init => FreshInv BY DEF Init, FreshInv
  <2> QED BY <2>1, <2>2, ShownInit, EndInit, ShowInit, SentInit, LogInit, CountInit
<1>2. Inv /\ [WindowNext]_windowVars => Inv'
  BY WindowSteps, ShownStep, EndStep, ShowStep, SentStep, LogStep, FreshStep, CountStep
<1>3. Inv => TurnsAreShown BY TurnsFollow
<1> QED BY <1>1, <1>2, <1>3, PTL DEF WindowSpec
===============================================================================
