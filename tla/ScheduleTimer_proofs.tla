-------------------------- MODULE ScheduleTimer_proofs --------------------------
(***************************************************************************)
(* Proofs about the timers of schedules, for any number of calls,          *)
(* schedules, requests, firings and faults: a schedule has one timer, only *)
(* while it is enabled, and is enabled again only by a request; at rest    *)
(* its stored time is that of its timer, and the window shows what is      *)
(* stored.  The last part is about the times of TriggerClock.              *)
(***************************************************************************)
EXTENDS ScheduleTimer, TriggerClock, TLAPS

TimerTypeOK ==
    /\ enabled \in [Schedules -> BOOLEAN]
    /\ jobs \in [Schedules -> Nat] /\ made \in Nat
    /\ armed \subseteq Schedules \X (Nat \ {NoTimer})
    /\ queue \in Seq(Calls) /\ pc \in [Calls -> Labels]
    /\ target \in [Calls -> Schedules] /\ timer \in [Calls -> Nat]
    /\ todo \in SUBSET Schedules /\ ready \in BOOLEAN /\ failures \in Nat

\* The queue holds calls that wait for the store, each once.
Queued ==
    /\ \A i \in 1 .. Len(queue) : pc[queue[i]] \in StoreLabels
    /\ \A i, j \in 1 .. Len(queue) : queue[i] = queue[j] => i = j

\* The call at position i of the queue will write that s is enabled, or disabled.
Sets(i, s) == pc[queue[i]] \in RegisteringLabels /\ target[queue[i]] = s
Clears(i, s) == pc[queue[i]] = "disable" /\ target[queue[i]] = s

\* s will be enabled when all before position i have had their turn.
Kept(i, s) ==
    /\ enabled[s] \/ \E j \in 1 .. i - 1 : Sets(j, s)
    /\ \A n \in 1 .. i - 1 : Clears(n, s) => \E j \in n + 1 .. i - 1 : Sets(j, s)

\* A schedule that has a job will be enabled when the queue is worked off, and one
\* whose callback writes that it is, will be so already.
JobsAreKept ==
    /\ \A s \in Schedules : jobs[s] # NoTimer => Kept(Len(queue) + 1, s)
    /\ \A i \in 1 .. Len(queue) :
          pc[queue[i]] = "rearming" => Kept(i, target[queue[i]])

BootLabels == {"boot", "restoring", "announce"}
RequestLabels == {"authorization", "enabling", "enable", "disable", "state", "list"}

\* While the enabled schedules are restored there are no requests, and those that
\* are yet to be registered stay enabled.
Restoring ==
    /\ ~ready => \A c \in Calls : pc[c] \notin RequestLabels
    /\ ready => \A c \in Calls : pc[c] \notin BootLabels
    /\ \A c, d \in Calls : pc[c] \in BootLabels /\ pc[d] \in BootLabels => c = d
    /\ ~ready => \A s \in todo : enabled[s]
    /\ \A c \in Calls : pc[c] = "restoring" => enabled[target[c]]

\* A callback knows its timer.
CallbackLabels == {"add", "touch", "notify"}
CallbackInv == \A c \in Calls : pc[c] \in CallbackLabels => timer[c] # NoTimer

TimerInv ==
    /\ TimerTypeOK /\ Queued /\ OneTimer /\ Restoring /\ CallbackInv
    /\ failures = 0 => JobsAreKept

-------------------------------------------------------------------------------
(* Timers                                                                    *)

\* Clearing the timer of s and setting another, or none, leaves each schedule with
\* the timer of its job.
LEMMA ClearedIsGone ==
    ASSUME TimerTypeOK, OneTimer, NEW s \in Schedules
    PROVE  \A a \in Cleared(s) : a[1] \in Schedules /\ a[1] # s /\ jobs[a[1]] = a[2]
<1> SUFFICES ASSUME NEW a \in Cleared(s)
             PROVE  a[1] \in Schedules /\ a[1] # s /\ jobs[a[1]] = a[2]
  OBVIOUS
<1>1. a \in armed /\ a # <<s, jobs[s]>> /\ a \in Schedules \X (Nat \ {NoTimer})
  BY DEF Cleared, TimerTypeOK
<1>2. a = <<a[1], a[2]>> /\ a[1] \in Schedules
  BY <1>1
<1>3. jobs[a[1]] = a[2]
  BY <1>1 DEF OneTimer
<1> QED
  BY <1>1, <1>2, <1>3

LEMMA Registering ==
    ASSUME TimerTypeOK, OneTimer, NEW c \in Calls, NEW s \in Schedules, Register(c, s)
    PROVE  /\ jobs' \in [Schedules -> Nat] /\ made' \in Nat
           /\ armed' \subseteq Schedules \X (Nat \ {NoTimer})
           /\ timer' \in [Calls -> Nat] /\ OneTimer'
           /\ \A d \in Calls : d # c => timer'[d] = timer[d]
           /\ \A r \in Schedules : r # s => jobs'[r] = jobs[r]
<1>1. made + 1 \in Nat \ {NoTimer} /\ made' = made + 1
  BY DEF TimerTypeOK, Register, NoTimer
<1>2. jobs' \in [Schedules -> Nat] /\ jobs' = [jobs EXCEPT ![s] = made + 1]
  BY <1>1 DEF TimerTypeOK, Register
<1>3. Cleared(s) \subseteq Schedules \X (Nat \ {NoTimer})
  BY DEF Cleared, TimerTypeOK
<1>4. armed' = Cleared(s) \cup {<<s, made + 1>>}
  BY DEF Register
<1>5. ASSUME NEW a \in armed' PROVE jobs'[a[1]] = a[2]
  <2>1. CASE a \in Cleared(s)
    BY <2>1, <1>2, ClearedIsGone DEF TimerTypeOK
  <2>2. CASE a = <<s, made + 1>>
    BY <2>2, <1>2 DEF TimerTypeOK
  <2> QED
    BY <1>4, <2>1, <2>2
<1>6. timer' \in [Calls -> Nat] /\ \A d \in Calls : d # c => timer'[d] = timer[d]
  BY <1>1 DEF TimerTypeOK, Register
<1>7. armed' \subseteq Schedules \X (Nat \ {NoTimer})
  BY <1>1, <1>3, <1>4
<1>8. \A r \in Schedules : r # s => jobs'[r] = jobs[r]
  BY <1>2 DEF TimerTypeOK
<1> QED
  BY <1>1, <1>2, <1>5, <1>6, <1>7, <1>8 DEF OneTimer

-------------------------------------------------------------------------------
(* The queue                                                                 *)

Popped(label) == IF label \in StoreLabels THEN 1 ELSE 0

\* A call that moves on leaves the head of the queue, if it waited, and is the last
\* of it, if it waits again; the others keep their order and labels.
LEMMA Moving ==
    ASSUME TimerTypeOK, Queued, NEW c \in Calls, NEW label, NEW then \in Labels,
           Resumes(c, label), Goto(c, label, then),
           NEW k, k = Popped(label), NEW m, m = Len(queue) - k
    PROVE  /\ pc' \in [Calls -> Labels] /\ queue' \in Seq(Calls) /\ Queued'
           /\ m \in Nat /\ pc[c] = label /\ pc'[c] = then
           /\ Len(queue') = m + Popped(then)
           /\ \A i \in 1 .. m : /\ i + k \in 1 .. Len(queue)
                                /\ queue'[i] = queue[i + k] /\ queue'[i] \in Calls \ {c}
                                /\ pc'[queue'[i]] = pc[queue[i + k]]
           /\ then \in StoreLabels => queue'[m + 1] = c
           /\ label \in StoreLabels => queue[1] = c /\ 1 \in 1 .. Len(queue)
<1> DEFINE rest == IF label \in StoreLabels THEN Tail(queue) ELSE queue
<1>1. /\ queue \in Seq(Calls) /\ Len(queue) \in Nat /\ pc[c] = label
      /\ pc' = [pc EXCEPT ![c] = then] /\ pc \in [Calls -> Labels]
      /\ queue' = IF then \in StoreLabels THEN Append(rest, c) ELSE rest
  BY DEF TimerTypeOK, Resumes, Goto
<1>2. label \in StoreLabels => queue # <<>> /\ Head(queue) = c
  BY DEF Resumes
<1>3. label \in StoreLabels => queue[1] = c /\ Len(queue) # 0
  BY <1>1, <1>2
<1>4. k \in {0, 1} /\ (k = 1 <=> label \in StoreLabels)
  BY DEF Popped
<1>5. m \in Nat
  BY <1>1, <1>3, <1>4
<1>6. /\ rest \in Seq(Calls) /\ Len(rest) = m
      /\ \A i \in 1 .. m : i + k \in 1 .. Len(queue) /\ rest[i] = queue[i + k]
  <2>1. CASE label \in StoreLabels
    BY <1>1, <1>2, <1>3, <1>4, <2>1
  <2>2. CASE label \notin StoreLabels
    BY <1>1, <1>4, <2>2
  <2> QED
    BY <2>1, <2>2
<1>7. ASSUME NEW i \in 1 .. m PROVE rest[i] \in Calls \ {c}
  <2>1. i + k \in 1 .. Len(queue) /\ rest[i] = queue[i + k] /\ rest[i] \in Calls
    BY <1>1, <1>6
  <2>2. CASE label \in StoreLabels
    BY <1>3, <1>4, <2>1, <2>2 DEF Queued
  <2>3. CASE label \notin StoreLabels
    BY <1>1, <2>1, <2>3 DEF Queued
  <2> QED
    BY <2>1, <2>2, <2>3
<1> HIDE DEF rest
<1>8. /\ queue' \in Seq(Calls) /\ Len(queue') = m + Popped(then)
      /\ \A i \in 1 .. m : queue'[i] = rest[i]
      /\ then \in StoreLabels => queue'[m + 1] = c
  <2>1. CASE then \in StoreLabels
    BY <1>1, <1>5, <1>6, <2>1 DEF Popped
  <2>2. CASE then \notin StoreLabels
    BY <1>1, <1>5, <1>6, <2>2 DEF Popped
  <2> QED
    BY <2>1, <2>2
<1>9. \A i \in 1 .. m : /\ i + k \in 1 .. Len(queue)
                        /\ queue'[i] = queue[i + k] /\ queue'[i] \in Calls \ {c}
                        /\ pc'[queue'[i]] = pc[queue[i + k]]
  BY <1>1, <1>6, <1>7, <1>8
<1>10. pc' \in [Calls -> Labels] /\ pc'[c] = then
  BY <1>1
<1>11. Len(queue') = m \/ (Len(queue') = m + 1 /\ then \in StoreLabels /\ queue'[m + 1] = c)
  BY <1>5, <1>8 DEF Popped
<1>12. ASSUME NEW i \in 1 .. Len(queue') PROVE pc'[queue'[i]] \in StoreLabels
  <2>1. CASE i \in 1 .. m
    BY <1>9, <2>1 DEF Queued
  <2>2. CASE i \notin 1 .. m
    BY <1>5, <1>10, <1>11, <2>2
  <2> QED
    BY <2>1, <2>2
<1>13. ASSUME NEW i \in 1 .. Len(queue'), NEW j \in 1 .. Len(queue'), queue'[i] = queue'[j]
       PROVE  i = j
  <2>1. CASE i \in 1 .. m /\ j \in 1 .. m
    <3>1. i + k = j + k
      BY <1>9, <1>13, <2>1 DEF Queued
    <3> QED
      BY <1>4, <1>5, <2>1, <3>1
  <2>2. CASE i \notin 1 .. m \/ j \notin 1 .. m
    BY <1>5, <1>9, <1>11, <1>13, <2>2
  <2> QED
    BY <2>1, <2>2
<1> QED
  BY SMTT(30), <1>1, <1>3, <1>5, <1>8, <1>9, <1>10, <1>12, <1>13 DEF Queued

\* What the step of a call may do to the schedules that are to be enabled: it turns
\* one off only if it was to, on if it was to; it makes a job only with a write to
\* come, removes that of a schedule it will disable, and a callback registers a
\* schedule that has a job.
Dutiful(c, label, then) ==
    /\ \A s \in Schedules :
          /\ label \in RegisteringLabels /\ target[c] = s => enabled'[s]
          /\ ~(label = "disable" /\ target[c] = s) => (enabled[s] => enabled'[s])
          /\ jobs'[s] # NoTimer =>
                \/ jobs[s] # NoTimer /\ ~(then = "disable" /\ target'[c] = s)
                \/ then \in RegisteringLabels /\ target'[c] = s
    /\ then = "rearming" => jobs[target'[c]] # NoTimer
    /\ target'[c] \in Schedules
    /\ \A d \in Calls : d # c => target'[d] = target[d]

\* Positions behind the first k of a queue, when these have left it.
LEMMA PositionsMoveUp ==
    ASSUME NEW k \in Nat, NEW m \in Nat, NEW i \in 1 .. m + 1,
           NEW j \in 1 .. (i + k) - 1, j > k
    PROVE  j - k \in 1 .. i - 1 /\ j - k \in 1 .. m /\ (j - k) + k = j
OBVIOUS

LEMMA DutyKept ==
    ASSUME TimerTypeOK, Queued, JobsAreKept, NEW c \in Calls, NEW label, NEW then \in Labels,
           Resumes(c, label), Goto(c, label, then), Dutiful(c, label, then)
    PROVE  JobsAreKept'
<1> PICK k : k = Popped(label)
  OBVIOUS
<1> PICK m : m = Len(queue) - k
  OBVIOUS
<1>1. /\ m \in Nat /\ pc[c] = label /\ pc'[c] = then
      /\ Len(queue') = m + Popped(then)
      /\ \A i \in 1 .. m : /\ i + k \in 1 .. Len(queue)
                           /\ queue'[i] = queue[i + k] /\ queue'[i] \in Calls \ {c}
                           /\ pc'[queue'[i]] = pc[queue[i + k]]
      /\ then \in StoreLabels => queue'[m + 1] = c
      /\ label \in StoreLabels => queue[1] = c /\ 1 \in 1 .. Len(queue)
  BY Moving
<1>2. k \in {0, 1} /\ (k = 1 <=> label \in StoreLabels) /\ Len(queue) = m + k
  BY DEF Popped, TimerTypeOK
<1>3. \A s, i : i \in 1 .. m =>
          (Sets(i, s)' <=> Sets(i + k, s)) /\ (Clears(i, s)' <=> Clears(i + k, s))
  BY <1>1 DEF Sets, Clears, Dutiful
<1>4. RegisteringLabels \subseteq StoreLabels /\ "disable" \in StoreLabels
      /\ "disable" \notin RegisteringLabels
  BY DEF RegisteringLabels, StoreLabels
<1>a. m \in Nat /\ k \in Nat /\ (k = 0 \/ k = 1)
  BY <1>1, <1>2
\* Those that stay in the queue find what they would have found before.
<1>5. ASSUME NEW s \in Schedules, NEW i \in 1 .. m + 1, Kept(i + k, s)
      PROVE  Kept(i, s)'
  <2>a. i \in Nat /\ 1 <= i /\ i <= m + 1
    BY <1>a
  <2>b. enabled[s] \/ \E j \in 1 .. (i + k) - 1 : Sets(j, s)
    BY <1>5 DEF Kept
  <2>c. \A q \in 1 .. (i + k) - 1 : Clears(q, s) => \E j \in q + 1 .. (i + k) - 1 : Sets(j, s)
    BY <1>5 DEF Kept
  <2>1. ASSUME NEW j \in 1 .. (i + k) - 1, Sets(j, s), j > k
        PROVE  j - k \in 1 .. i - 1 /\ Sets(j - k, s)'
    <3>1. j - k \in 1 .. i - 1 /\ j - k \in 1 .. m /\ (j - k) + k = j
      BY SMTT(30), <1>a, <2>1, PositionsMoveUp
    <3> QED
      BY <1>3, <2>1, <3>1
  <2>2. enabled'[s] \/ \E j \in 1 .. i - 1 : Sets(j, s)'
    <3>1. CASE k = 1 /\ Clears(1, s)
      <4>1. 1 \in 1 .. (i + k) - 1
        BY <1>1, <3>1
      <4>2. PICK j \in 1 + 1 .. (i + k) - 1 : Sets(j, s)
        BY <2>c, <3>1, <4>1
      <4>3. j \in 1 .. (i + k) - 1 /\ j > k
        BY <1>1, <3>1, <4>2
      <4> QED
        BY <2>1, <4>2, <4>3
    <3>2. CASE ~(k = 1 /\ Clears(1, s)) /\ enabled[s]
      <4>1. ~(label = "disable" /\ target[c] = s)
        BY <1>1, <1>2, <1>4, <3>2 DEF Clears
      <4> QED
        BY <3>2, <4>1 DEF Dutiful
    <3>3. ASSUME NEW j \in 1 .. (i + k) - 1, Sets(j, s)
          PROVE  enabled'[s] \/ \E q \in 1 .. i - 1 : Sets(q, s)'
      <4>1. CASE j > k
        BY <2>1, <3>3, <4>1
      <4>2. CASE ~(j > k)
        <5>1. k = 1 /\ j = 1
          BY <1>1, <1>2, <4>2
        <5>2. label \in RegisteringLabels /\ target[c] = s
          BY <1>1, <1>2, <3>3, <5>1 DEF Sets
        <5> QED
          BY <5>2 DEF Dutiful
      <4> QED
        BY <4>1, <4>2
    <3> QED
      BY <2>b, <3>1, <3>2, <3>3
  <2>3. ASSUME NEW q \in 1 .. i - 1, Clears(q, s)'
        PROVE  \E j \in q + 1 .. i - 1 : Sets(j, s)'
    <3>1. q \in 1 .. m /\ q + k \in 1 .. (i + k) - 1
      BY <1>1, <1>2
    <3>2. Clears(q + k, s)
      BY <1>3, <2>3, <3>1
    <3>3. PICK j \in (q + k) + 1 .. (i + k) - 1 : Sets(j, s)
      BY <2>c, <3>1, <3>2
    <3>4. j \in 1 .. (i + k) - 1 /\ j > k /\ j - k \in q + 1 .. i - 1
      <4>1. q \in Nat /\ j \in Nat /\ 1 <= q /\ (q + k) + 1 <= j /\ j <= (i + k) - 1
        BY <1>a, <2>a
      <4>2. CASE k = 0
        BY <2>a, <4>1, <4>2
      <4>3. CASE k = 1
        BY <2>a, <4>1, <4>3
      <4> QED
        BY <1>a, <4>2, <4>3
    <3> QED
      BY <2>1, <3>3, <3>4
  <2> QED
    BY <2>2, <2>3 DEF Kept
\* The schedules with a job.
<1>6. ASSUME NEW s \in Schedules, jobs'[s] # NoTimer PROVE Kept(Len(queue) + 1, s)'
  <2>1. CASE then \in RegisteringLabels /\ target'[c] = s
    <3>1. Len(queue') = m + 1 /\ Sets(m + 1, s)' /\ ~Clears(m + 1, s)'
      BY <1>1, <1>4, <2>1 DEF Popped, Sets, Clears
    <3>2. ASSUME NEW q \in 1 .. m + 1, Clears(q, s)'
          PROVE  m + 1 \in q + 1 .. m + 1
      BY <1>1, <3>1, <3>2
    <3> QED
      BY <1>1, <3>1, <3>2 DEF Kept
  <2>2. CASE jobs[s] # NoTimer /\ ~(then = "disable" /\ target'[c] = s)
    <3>1. Kept(m + 1, s)'
      <4>1. Kept((m + 1) + k, s) /\ m + 1 \in 1 .. m + 1
        <5>0. Len(queue) = m + k
          BY <1>2
        <5>1. (m + 1) + k = (m + k) + 1 /\ m + 1 \in 1 .. m + 1
          BY <1>a
        <5> QED
          BY <2>2, <5>0, <5>1 DEF JobsAreKept
      <4> QED
        BY <1>5, <4>1
    <3>2. CASE Len(queue') = m
      BY <3>1, <3>2
    <3>3. CASE Len(queue') = m + 1 /\ queue'[m + 1] = c
      <4>1. ~Clears(m + 1, s)'
        BY <1>1, <2>2, <3>3 DEF Clears
      <4>2. \A q \in 1 .. m + 1 : Clears(q, s)' => q \in 1 .. m
        BY <1>1, <4>1
      <4>3. \A q : \A j \in q + 1 .. m : j \in q + 1 .. m + 1
        BY <1>1
      <4>4. \A j \in 1 .. m : j \in 1 .. m + 1
        BY <1>1
      <4>5. (m + 1) - 1 = m /\ (m + 2) - 1 = m + 1
        BY <1>1
      <4>6. Kept(m + 2, s)'
        BY <3>1, <4>2, <4>3, <4>4, <4>5 DEF Kept
      <4> QED
        BY <1>a, <3>3, <4>6
    <3>4. Len(queue') = m \/ (Len(queue') = m + 1 /\ queue'[m + 1] = c)
      BY <1>1 DEF Popped
    <3> QED
      BY <3>2, <3>3, <3>4
  <2> QED
    BY <1>6, <2>1, <2>2 DEF Dutiful
\* The callbacks that wait to write.
<1>7. ASSUME NEW i \in 1 .. Len(queue'), pc'[queue'[i]] = "rearming"
      PROVE  Kept(i, target[queue[i]])'
  <2>1. CASE i \in 1 .. m
    <3>1. pc[queue[i + k]] = "rearming" /\ i + k \in 1 .. Len(queue)
          /\ target'[queue'[i]] = target[queue[i + k]]
      BY <1>1, <1>7, <2>1 DEF Dutiful
    <3>2. target[queue[i + k]] \in Schedules
      BY <1>1, <2>1 DEF TimerTypeOK
    <3>3. Kept(i + k, target[queue[i + k]])
      BY <3>1 DEF JobsAreKept
    <3>4. i \in 1 .. m + 1
      BY <1>1, <2>1
    <3>5. PICK s \in Schedules : s = target[queue[i + k]]
      BY <3>2
    <3>6. Kept(i, s)'
      BY <1>5, <3>3, <3>4, <3>5
    <3> QED
      BY <3>1, <3>5, <3>6 DEF Kept, Sets, Clears
  <2>2. CASE i = m + 1 /\ queue'[m + 1] = c /\ then = "rearming"
    <3>1. jobs[target'[c]] # NoTimer /\ target'[c] \in Schedules
      BY <2>2 DEF Dutiful
    <3>2. PICK s \in Schedules : s = target'[c]
      BY <3>1
    <3>3. Kept((m + 1) + k, s) /\ m + 1 \in 1 .. m + 1
      BY <1>1, <1>2, <3>1, <3>2 DEF JobsAreKept
    <3>4. Kept(i, s)'
      BY <1>5, <2>2, <3>3
    <3> QED
      BY <2>2, <3>2, <3>4 DEF Kept, Sets, Clears
  <2> QED
    BY <1>1, <1>7, <2>1, <2>2 DEF Popped
<1> QED
  BY <1>6, <1>7 DEF JobsAreKept

-------------------------------------------------------------------------------
(* Steps                                                                     *)

LEMMA LabelsListed ==
    Labels = {"idle", "boot", "announce", "state", "authorization", "add", "notify",
              "enabling", "rearming", "restoring", "enable", "disable", "list", "touch"}
  BY DEF Labels, StoreLabels

LEMMA BeginsIdle == \A c \in Calls : Begins(c) => Resumes(c, "idle")
  BY DEF Begins, Resumes, StoreLabels

\* What the step of a call that is not restoring has to leave true.
LEMMA RestoringKept ==
    ASSUME TimerInv, NEW c \in Calls, NEW label, NEW then,
           Resumes(c, label), Goto(c, label, then),
           label \notin BootLabels, then \notin BootLabels,
           then \in RequestLabels => ready,
           UNCHANGED <<ready, todo>>, target'[c] \in Schedules,
           \A d \in Calls : d # c => target'[d] = target[d],
           ~ready => \A s \in Schedules : enabled[s] => enabled'[s]
    PROVE  Restoring'
<1>1. /\ pc' = [pc EXCEPT ![c] = then] /\ pc[c] = label /\ pc \in [Calls -> Labels]
      /\ target \in [Calls -> Schedules] /\ todo \in SUBSET Schedules /\ Restoring
  BY DEF Goto, Resumes, TimerInv, TimerTypeOK
<1>2. pc'[c] = then /\ \A d \in Calls : d # c => pc'[d] = pc[d]
  BY <1>1
<1>3. ASSUME NEW d \in Calls, pc'[d] = "restoring" PROVE enabled'[target'[d]]
  <2>1. d # c /\ pc[d] = "restoring"
    BY <1>2, <1>3 DEF BootLabels
  <2>2. enabled[target[d]] /\ ~ready /\ target[d] \in Schedules
    BY <1>1, <2>1 DEF Restoring, BootLabels
  <2> QED
    BY <2>1, <2>2
<1> QED
  BY <1>1, <1>2, <1>3 DEF Restoring

\* The step of a call that does its duty keeps the invariant, if the rest is kept.
LEMMA StepKeeps ==
    ASSUME TimerInv, NEW c \in Calls, NEW label, NEW then \in Labels,
           Resumes(c, label), Goto(c, label, then), Dutiful(c, label, then),
           enabled' \in [Schedules -> BOOLEAN],
           jobs' \in [Schedules -> Nat], made' \in Nat,
           armed' \subseteq Schedules \X (Nat \ {NoTimer}),
           target' \in [Calls -> Schedules], timer' \in [Calls -> Nat],
           todo' \in SUBSET Schedules, ready' \in BOOLEAN, failures' = failures,
           OneTimer', Restoring',
           then \in CallbackLabels => timer'[c] # NoTimer,
           \A d \in Calls : d # c => timer'[d] = timer[d]
    PROVE  TimerInv'
<1>1. TimerTypeOK /\ Queued
  BY DEF TimerInv
<1>2. pc' \in [Calls -> Labels] /\ queue' \in Seq(Calls) /\ Queued'
  BY <1>1, Moving
<1>3. failures = 0 => JobsAreKept'
  BY <1>1, DutyKept DEF TimerInv
<1>4. CallbackInv'
  BY <1>1 DEF TimerInv, CallbackInv, TimerTypeOK, Goto
<1> QED
  BY <1>1, <1>2, <1>3, <1>4 DEF TimerInv, TimerTypeOK

\* The same for a step that leaves the timers alone and registers nothing.
LEMMA QuietStepKeeps ==
    ASSUME TimerInv, NEW c \in Calls, NEW label, NEW then \in Labels,
           Resumes(c, label), Goto(c, label, then),
           label \notin BootLabels, then \notin BootLabels \cup {"disable", "rearming"},
           then \in RequestLabels => ready, then \in CallbackLabels => label \in CallbackLabels,
           UNCHANGED <<timers, timer, ready, todo, failures>>,
           target' \in [Calls -> Schedules],
           \A d \in Calls : d # c => target'[d] = target[d],
           enabled' \in [Schedules -> BOOLEAN],
           \A s \in Schedules :
               /\ label \in RegisteringLabels /\ target[c] = s => enabled'[s]
               /\ ~(label = "disable" /\ target[c] = s) => (enabled[s] => enabled'[s])
    PROVE  TimerInv'
<1>1. TimerTypeOK /\ OneTimer
  BY DEF TimerInv
<1>2. label = "disable" => ready
  BY DEF TimerInv, Restoring, Resumes, RequestLabels
<1>3. target'[c] \in Schedules /\ (~ready => \A s \in Schedules : enabled[s] => enabled'[s])
  BY <1>2
<1>4. Restoring'
  BY <1>3, RestoringKept
<1>5. Dutiful(c, label, then)
  BY <1>3 DEF Dutiful, timers
<1>6. OneTimer'
  BY <1>1 DEF OneTimer, timers
<1>7. /\ jobs' \in [Schedules -> Nat] /\ made' \in Nat
      /\ armed' \subseteq Schedules \X (Nat \ {NoTimer})
      /\ timer' \in [Calls -> Nat] /\ todo' \in SUBSET Schedules /\ ready' \in BOOLEAN
      /\ failures' = failures
  BY <1>1 DEF TimerTypeOK, timers
<1>8. then \in CallbackLabels => timer'[c] # NoTimer
  BY DEF TimerInv, CallbackInv, Resumes
<1> QED
  BY <1>4, <1>5, <1>6, <1>7, <1>8, StepKeeps

\* Registering for a request, or for a callback whose schedule has a job.
LEMMA RegisterStepKeeps ==
    ASSUME TimerInv, NEW c \in Calls, NEW label \in Labels \ (StoreLabels \cup BootLabels),
           NEW then \in {"enabling", "rearming"},
           Resumes(c, label), Goto(c, label, then), Register(c, target[c]),
           then = "enabling" => ready, then = "rearming" => jobs[target[c]] # NoTimer,
           UNCHANGED <<enabled, target, ready, todo, failures>>
    PROVE  TimerInv'
<1>1. TimerTypeOK /\ OneTimer /\ target[c] \in Schedules
  BY DEF TimerInv, TimerTypeOK
<1>2. /\ jobs' \in [Schedules -> Nat] /\ made' \in Nat
      /\ armed' \subseteq Schedules \X (Nat \ {NoTimer})
      /\ timer' \in [Calls -> Nat] /\ OneTimer'
      /\ \A d \in Calls : d # c => timer'[d] = timer[d]
      /\ \A r \in Schedules : r # target[c] => jobs'[r] = jobs[r]
  BY <1>1, Registering
<1>3. /\ then \in Labels /\ then \notin BootLabels /\ then \in RegisteringLabels
      /\ label \notin RegisteringLabels /\ label # "disable" /\ label \notin BootLabels
      /\ then # "disable" /\ (then \in RequestLabels => ready) /\ then \notin CallbackLabels
  BY LabelsListed DEF CallbackLabels, BootLabels, RegisteringLabels, RequestLabels, StoreLabels
<1>4. Dutiful(c, label, then)
  BY <1>1, <1>2, <1>3 DEF Dutiful
<1>5. Restoring'
  BY <1>1, <1>3, RestoringKept
<1>6. /\ enabled' \in [Schedules -> BOOLEAN] /\ target' \in [Calls -> Schedules]
      /\ todo' \in SUBSET Schedules /\ ready' \in BOOLEAN /\ failures' = failures
  BY <1>1 DEF TimerTypeOK
<1> QED
  BY <1>2, <1>3, <1>4, <1>5, <1>6, StepKeeps

\* The next schedule is registered, or the window is to be told; remaining are
\* enabled, and so is the schedule of the call that has written it.
LEMMA RestoreNextKeeps ==
    ASSUME TimerInv, NEW c \in Calls, NEW label \in {"boot", "restoring"},
           NEW remaining \in SUBSET Schedules,
           Resumes(c, label), RestoreNext(c, label, remaining),
           enabled' \in [Schedules -> BOOLEAN],
           \A s \in remaining : enabled'[s],
           \A s \in Schedules : /\ label = "restoring" /\ target[c] = s => enabled'[s]
                                /\ enabled[s] => enabled'[s],
           UNCHANGED <<ready, failures>>
    PROVE  TimerInv'
<1>1. /\ TimerTypeOK /\ OneTimer /\ Restoring /\ pc[c] = label
      /\ pc \in [Calls -> Labels] /\ target \in [Calls -> Schedules]
      /\ label \in BootLabels /\ ~ready
  BY DEF TimerInv, TimerTypeOK, Resumes, Restoring, BootLabels
<1>2. \A d \in Calls : d # c => pc[d] \notin BootLabels
  BY <1>1 DEF Restoring
<1>3. label \in RegisteringLabels => label = "restoring"
  BY DEF RegisteringLabels
<1>4. CASE remaining = {}
  <2>1. Goto(c, label, "announce") /\ UNCHANGED <<timers, locals>>
    BY <1>4 DEF RestoreNext
  <2>2. "announce" \in Labels /\ "announce" \notin RegisteringLabels \cup CallbackLabels
    BY LabelsListed DEF RegisteringLabels, CallbackLabels
  <2>3. pc' = [pc EXCEPT ![c] = "announce"]
    BY <2>1 DEF Goto
  <2>4. Restoring'
    <3>1. \A d \in Calls : pc'[d] # "restoring"
      BY <1>1, <1>2, <2>3 DEF BootLabels
    <3>2. \A s \in todo' : enabled'[s]
      BY <1>1, <2>1 DEF locals, Restoring, TimerTypeOK
    <3> QED
      BY <1>1, <1>2, <2>3, <3>1, <3>2 DEF Restoring, BootLabels, RequestLabels
  <2>5. Dutiful(c, label, "announce")
    BY <1>1, <1>3, <2>1, <2>2 DEF Dutiful, timers, locals
  <2>6. OneTimer'
    BY <1>1, <2>1 DEF OneTimer, timers
  <2>7. /\ jobs' \in [Schedules -> Nat] /\ made' \in Nat
        /\ armed' \subseteq Schedules \X (Nat \ {NoTimer})
        /\ target' \in [Calls -> Schedules] /\ timer' \in [Calls -> Nat]
        /\ todo' \in SUBSET Schedules /\ ready' \in BOOLEAN
        /\ \A d \in Calls : d # c => timer'[d] = timer[d]
    BY <1>1, <2>1 DEF TimerTypeOK, timers, locals
  <2> QED
    BY <2>1, <2>2, <2>4, <2>5, <2>6, <2>7, StepKeeps
<1>5. ASSUME NEW s \in remaining, Register(c, s), target' = [target EXCEPT ![c] = s],
             todo' = remaining \ {s}, Goto(c, label, "restoring")
      PROVE  TimerInv'
  <2>1. /\ s \in Schedules /\ "restoring" \in Labels /\ "restoring" \in RegisteringLabels
        /\ "restoring" \notin CallbackLabels
    BY LabelsListed DEF RegisteringLabels, CallbackLabels
  <2>2. /\ jobs' \in [Schedules -> Nat] /\ made' \in Nat
        /\ armed' \subseteq Schedules \X (Nat \ {NoTimer})
        /\ timer' \in [Calls -> Nat] /\ OneTimer'
        /\ \A d \in Calls : d # c => timer'[d] = timer[d]
        /\ \A r \in Schedules : r # s => jobs'[r] = jobs[r]
    BY <1>1, <1>5, <2>1, Registering
  <2>3. /\ target' \in [Calls -> Schedules] /\ target'[c] = s
        /\ \A d \in Calls : d # c => target'[d] = target[d]
    BY <1>1, <1>5, <2>1
  <2>4. Dutiful(c, label, "restoring")
    BY <1>3, <2>1, <2>2, <2>3 DEF Dutiful
  <2>5. pc' = [pc EXCEPT ![c] = "restoring"]
    BY <1>5 DEF Goto
  <2>6. Restoring'
    <3>1. \A d \in Calls : pc'[d] = "restoring" => d = c
      BY <1>1, <1>2, <2>5 DEF BootLabels
    <3> QED
      BY <1>1, <1>2, <1>5, <2>3, <2>5, <3>1 DEF Restoring, BootLabels, RequestLabels
  <2>7. todo' \in SUBSET Schedules /\ ready' \in BOOLEAN
    BY <1>1, <1>5 DEF TimerTypeOK
  <2> QED
    BY <1>5, <2>1, <2>2, <2>3, <2>4, <2>6, <2>7, StepKeeps
<1> QED
  BY <1>4, <1>5 DEF RestoreNext

LEMMA InitHolds == Init => TimerInv
<1> SUFFICES ASSUME Init PROVE TimerInv
  OBVIOUS
<1>1. TimerTypeOK
  <2>1. enabled \in [Schedules -> BOOLEAN]
    BY DEF Init
  <2>2. pc \in [Calls -> Labels] /\ target \in [Calls -> Schedules]
    BY LabelsListed DEF Init
  <2>3. /\ jobs \in [Schedules -> Nat] /\ timer \in [Calls -> Nat] /\ made \in Nat
        /\ failures \in Nat /\ ready \in BOOLEAN
    BY DEF Init, NoTimer
  <2>4. queue \in Seq(Calls) /\ armed = {} /\ todo = {}
    BY DEF Init
  <2> QED
    BY <2>1, <2>2, <2>3, <2>4 DEF TimerTypeOK
<1>2. queue = <<>> /\ Len(queue) = 0 /\ jobs = [s \in Schedules |-> NoTimer]
  BY DEF Init
<1>3. Queued /\ JobsAreKept /\ CallbackInv
  BY <1>2 DEF Queued, JobsAreKept, Init, CallbackInv, CallbackLabels
<1>4. Restoring
  BY DEF Init, Restoring, BootLabels, RequestLabels
<1>5. OneTimer
  BY DEF Init, OneTimer
<1> QED
  BY <1>1, <1>3, <1>4, <1>5 DEF TimerInv

\* What onScheduled writes, and what the two handlers write after it.
LEMMA Enabling ==
    ASSUME TimerTypeOK, NEW c \in Calls, enabled' = [enabled EXCEPT ![target[c]] = TRUE]
    PROVE  /\ enabled' \in [Schedules -> BOOLEAN] /\ target[c] \in Schedules
           /\ enabled'[target[c]]
           /\ \A s \in Schedules : enabled[s] => enabled'[s]
           /\ \A s \in Schedules : s # target[c] => enabled'[s] = enabled[s]
<1>1. target[c] \in Schedules /\ enabled \in [Schedules -> BOOLEAN]
  BY DEF TimerTypeOK
<1> QED
  BY <1>1

LEMMA BootingKeeps ==
    ASSUME TimerInv, NEW c \in Calls, Boot(c) \/ Restored(c) \/ Announced(c)
    PROVE  TimerInv'
<1> USE DEF TimerInv
<1>1. CASE Boot(c)
  <2>1. {s \in Schedules : authorized /\ enabled[s]} \in SUBSET Schedules
    OBVIOUS
  <2>2. enabled' = enabled /\ failures' = failures /\ ready' = ready /\ Resumes(c, "boot")
        /\ RestoreNext(c, "boot", {s \in Schedules : authorized /\ enabled[s]})
    BY <1>1 DEF Boot, stored, counters
  <2>3. enabled' \in [Schedules -> BOOLEAN]
    BY <2>2 DEF TimerTypeOK
  <2> QED
    BY <2>1, <2>2, <2>3, RestoreNextKeeps
<1>2. CASE Restored(c)
  <2>1. /\ Resumes(c, "restoring") /\ RestoreNext(c, "restoring", todo)
        /\ enabled' = [enabled EXCEPT ![target[c]] = TRUE]
        /\ failures' = failures /\ ready' = ready /\ todo \in SUBSET Schedules
    BY <1>2 DEF Restored, Scheduled, counters, TimerTypeOK
  <2>2. /\ enabled' \in [Schedules -> BOOLEAN] /\ enabled'[target[c]]
        /\ \A s \in Schedules : enabled[s] => enabled'[s]
    BY <2>1, Enabling
  <2>3. \A s \in todo : enabled'[s]
    BY <2>1, <2>2 DEF Restoring, Resumes, BootLabels
  <2> QED
    BY <2>1, <2>2, <2>3, RestoreNextKeeps
<1>3. CASE Announced(c)
  <2>1. /\ Resumes(c, "announce") /\ Goto(c, "announce", "idle")
        /\ "idle" \in Labels /\ "idle" \notin CallbackLabels /\ ready' = TRUE
        /\ UNCHANGED <<enabled, jobs, armed, made, target, timer, todo, failures>>
    BY <1>3, LabelsListed DEF CallbackLabels, Announced, stored, timers, locals, counters
  <2>2. Dutiful(c, "announce", "idle")
    BY <2>1 DEF Dutiful, RegisteringLabels, TimerTypeOK
  <2>3. pc' = [pc EXCEPT ![c] = "idle"] /\ pc[c] = "announce" /\ pc \in [Calls -> Labels]
    BY <2>1 DEF Goto, Resumes, TimerTypeOK
  <2>4. \A d \in Calls : pc'[d] \notin BootLabels
    BY <2>3 DEF Restoring, BootLabels
  <2>5. Restoring'
    BY <2>1, <2>4 DEF Restoring, BootLabels
  <2>6. OneTimer'
    BY <2>1 DEF OneTimer
  <2>7. /\ enabled' \in [Schedules -> BOOLEAN] /\ jobs' \in [Schedules -> Nat]
        /\ made' \in Nat /\ armed' \subseteq Schedules \X (Nat \ {NoTimer})
        /\ target' \in [Calls -> Schedules] /\ timer' \in [Calls -> Nat]
        /\ todo' \in SUBSET Schedules /\ ready' \in BOOLEAN
        /\ \A d \in Calls : d # c => timer'[d] = timer[d]
    BY <2>1 DEF TimerTypeOK
  <2> HIDE DEF TimerInv
  <2> QED
    BY <2>1, <2>2, <2>5, <2>6, <2>7, StepKeeps
<1> QED
  BY <1>1, <1>2, <1>3

LEMMA RequestsKeep == \A c \in Calls : TimerInv /\ Requests(c) => TimerInv'
<1> SUFFICES ASSUME TimerInv, NEW c \in Calls, NEW s \in Schedules,
                    RequestEnable(c, s) \/ RequestDisable(c, s) \/ RequestState(c, s)
             PROVE  TimerInv'
  BY DEF Requests
<1>1. PICK label \in {"authorization", "disable", "state"} : Request(c, label, s)
  BY DEF RequestEnable, RequestDisable, RequestState
<1>2. /\ Resumes(c, "idle") /\ Goto(c, "idle", label) /\ label \in Labels
      /\ ready /\ target' = [target EXCEPT ![c] = s]
      /\ UNCHANGED <<enabled, timer, todo, ready, failures>>
  BY <1>1, BeginsIdle, LabelsListed DEF Request, stored
<1>3. /\ target' \in [Calls -> Schedules] /\ target'[c] = s
      /\ \A d \in Calls : d # c => target'[d] = target[d]
      /\ enabled' \in [Schedules -> BOOLEAN]
  BY <1>2 DEF TimerInv, TimerTypeOK
<1>4. /\ "idle" \notin BootLabels /\ label \notin BootLabels /\ "idle" \notin RegisteringLabels
      /\ label \notin CallbackLabels
  BY DEF BootLabels, RegisteringLabels, CallbackLabels
<1>5. CASE RequestEnable(c, s) \/ RequestState(c, s)
  <2>1. PICK l \in {"authorization", "state"} : Request(c, l, s) /\ UNCHANGED timers
    BY <1>5 DEF RequestEnable, RequestState
  <2>2. Goto(c, "idle", l) /\ l \in Labels
        /\ l \notin BootLabels \cup CallbackLabels \cup {"disable", "rearming"}
    BY <2>1, LabelsListed DEF Request, BootLabels, CallbackLabels
  <2> QED
    BY <1>2, <1>3, <1>4, <2>1, <2>2, QuietStepKeeps
<1>6. CASE RequestDisable(c, s)
  <2>1. /\ Goto(c, "idle", "disable") /\ "disable" \in Labels \ CallbackLabels
        /\ armed' = Cleared(s) /\ jobs' = [jobs EXCEPT ![s] = NoTimer] /\ made' = made
    BY <1>6, LabelsListed DEF RequestDisable, Request, CallbackLabels
  <2>2. TimerTypeOK /\ OneTimer
    BY DEF TimerInv
  <2>3. /\ jobs' \in [Schedules -> Nat] /\ made' \in Nat
        /\ armed' \subseteq Schedules \X (Nat \ {NoTimer})
    BY <2>1, <2>2 DEF TimerTypeOK, Cleared, NoTimer
  <2>4. OneTimer'
    <3>1. ASSUME NEW a \in armed' PROVE jobs'[a[1]] = a[2]
      BY <2>1, <2>2, ClearedIsGone DEF TimerTypeOK
    <3> QED
      BY <3>1 DEF OneTimer
  <2>5. Dutiful(c, "idle", "disable")
    BY <1>2, <1>3, <1>4, <2>1, <2>2 DEF Dutiful, TimerTypeOK
  <2>6. Restoring'
    BY <1>2, <1>3, <1>4, <2>1, RestoringKept DEF BootLabels
  <2>7. /\ timer' \in [Calls -> Nat] /\ todo' \in SUBSET Schedules /\ ready' \in BOOLEAN
        /\ failures' = failures
    BY <1>2, <2>2 DEF TimerTypeOK
  <2> QED
    BY <1>2, <1>3, <2>1, <2>3, <2>4, <2>5, <2>6, <2>7, StepKeeps
<1> QED
  BY <1>5, <1>6

LEMMA HandlersKeep ==
    ASSUME TimerInv, NEW c \in Calls,
           \/ EnableSchedule(c) \/ Registered(c) \/ Enable(c) \/ Disable(c)
           \/ PublishBootstrapState(c) \/ PublishSnapshot(c)
    PROVE  TimerInv'
<1>0. /\ TimerTypeOK /\ enabled \in [Schedules -> BOOLEAN] /\ target \in [Calls -> Schedules]
      /\ Labels \cap {"idle", "list", "enable"} = {"idle", "list", "enable"}
      /\ {"idle", "list", "enable"}
            \cap (BootLabels \cup CallbackLabels \cup {"disable", "rearming"}) = {}
      /\ {"authorization", "enabling", "enable", "disable", "state", "list"} \cap BootLabels = {}
  BY LabelsListed DEF TimerInv, TimerTypeOK, BootLabels, CallbackLabels
<1>1. pc[c] \in RequestLabels => ready
  BY DEF TimerInv, Restoring
<1>2. CASE EnableSchedule(c) /\ authorized
  <2>1. /\ Resumes(c, "authorization") /\ Goto(c, "authorization", "enabling")
        /\ Register(c, target[c]) /\ UNCHANGED <<enabled, target, ready, todo, failures>>
    BY <1>2 DEF EnableSchedule, stored, counters
  <2>2. "authorization" \in Labels \ (StoreLabels \cup BootLabels) /\ ready
    BY <1>1, <2>1, LabelsListed DEF StoreLabels, BootLabels, Resumes, RequestLabels
  <2> QED
    BY <2>1, <2>2, RegisterStepKeeps
<1>3. CASE EnableSchedule(c) /\ ~authorized
  <2>1. /\ Resumes(c, "authorization") /\ Goto(c, "authorization", "idle")
        /\ UNCHANGED <<enabled, timers, target, timer, ready, todo, failures>>
    BY <1>3 DEF EnableSchedule, stored, counters
  <2> QED
    BY <1>0, <2>1, QuietStepKeeps DEF RequestLabels, RegisteringLabels
<1>4. CASE Registered(c)
  <2>1. /\ Resumes(c, "enabling") /\ Goto(c, "enabling", "enable")
        /\ enabled' = [enabled EXCEPT ![target[c]] = TRUE]
        /\ UNCHANGED <<timers, target, timer, ready, todo, failures>>
    BY <1>4 DEF Registered, Scheduled, locals, counters
  <2>2. ready
    BY <1>1, <2>1 DEF Resumes, RequestLabels
  <2> QED
    BY <1>0, <2>1, <2>2, Enabling, QuietStepKeeps
<1>5. CASE Enable(c)
  <2>1. /\ Resumes(c, "enable") /\ Goto(c, "enable", "idle")
        /\ enabled' = [enabled EXCEPT ![target[c]] = TRUE]
        /\ UNCHANGED <<timers, target, timer, ready, todo, failures>>
    BY <1>5 DEF Enable, locals, counters
  <2> QED
    BY <1>0, <2>1, Enabling, QuietStepKeeps DEF RequestLabels
<1>6. CASE Disable(c)
  <2>1. /\ Resumes(c, "disable") /\ Goto(c, "disable", "idle")
        /\ enabled' = [enabled EXCEPT ![target[c]] = FALSE]
        /\ UNCHANGED <<timers, target, timer, ready, todo, failures>>
    BY <1>6 DEF Disable, locals, counters
  <2>2. "disable" \notin RegisteringLabels
    BY DEF RegisteringLabels
  <2>3. enabled' \in [Schedules -> BOOLEAN]
        /\ \A s \in Schedules : s # target[c] => enabled'[s] = enabled[s]
    BY <1>0, <2>1
  <2> QED
    BY <1>0, <2>1, <2>2, <2>3, QuietStepKeeps DEF RequestLabels
<1>7. CASE PublishBootstrapState(c)
  <2>1. /\ Resumes(c, "state") /\ Goto(c, "state", "list")
        /\ UNCHANGED <<enabled, timers, target, timer, ready, todo, failures>>
    BY <1>7 DEF PublishBootstrapState, stored, locals, counters
  <2>2. ready
    BY <1>1, <2>1 DEF Resumes, RequestLabels
  <2> QED
    BY <1>0, <2>1, <2>2, QuietStepKeeps DEF RegisteringLabels
<1>8. CASE PublishSnapshot(c)
  <2>1. /\ Resumes(c, "list") /\ Goto(c, "list", "idle")
        /\ UNCHANGED <<enabled, timers, target, timer, ready, todo, failures>>
    BY <1>8 DEF PublishSnapshot, stored, locals, counters
  <2> QED
    BY <1>0, <2>1, QuietStepKeeps DEF RequestLabels, RegisteringLabels
<1> QED
  BY <1>2, <1>3, <1>4, <1>5, <1>6, <1>7, <1>8

LEMMA CallbacksKeep ==
    ASSUME TimerInv, NEW c \in Calls, Added(c) \/ Touched(c) \/ Rearm(c) \/ Rearmed(c)
    PROVE  TimerInv'
<1>0. /\ TimerTypeOK /\ enabled \in [Schedules -> BOOLEAN] /\ target \in [Calls -> Schedules]
      /\ Labels \cap {"idle", "touch", "notify"} = {"idle", "touch", "notify"}
      /\ {"idle", "touch", "notify"}
            \cap (BootLabels \cup RequestLabels \cup {"disable", "rearming"}) = {}
      /\ {"add", "touch", "notify", "rearming"} \cap (BootLabels \cup {"disable"}) = {}
      /\ CallbackLabels = {"add", "touch", "notify"}
  BY LabelsListed DEF CallbackLabels, TimerInv, TimerTypeOK, BootLabels, RequestLabels
<1>1. CASE Added(c)
  <2>1. /\ Resumes(c, "add") /\ Goto(c, "add", "touch")
        /\ UNCHANGED <<enabled, timers, target, timer, ready, todo, failures>>
    BY <1>1 DEF Added, stored, locals, counters
  <2> QED
    BY <1>0, <2>1, QuietStepKeeps DEF RegisteringLabels
<1>2. CASE Touched(c)
  <2>1. /\ Resumes(c, "touch") /\ Goto(c, "touch", "notify")
        /\ UNCHANGED <<enabled, timers, target, timer, ready, todo, failures>>
    BY <1>2 DEF Touched, stored, locals, counters
  <2> QED
    BY <1>0, <2>1, QuietStepKeeps DEF RegisteringLabels
<1>3. CASE Rearm(c) /\ jobs[target[c]] = timer[c]
  <2>1. /\ Resumes(c, "notify") /\ Goto(c, "notify", "rearming")
        /\ Register(c, target[c]) /\ UNCHANGED <<enabled, target, ready, todo, failures>>
    BY <1>3 DEF Rearm, stored, counters
  <2>2. "notify" \in Labels \ (StoreLabels \cup BootLabels)
    BY LabelsListed DEF StoreLabels, BootLabels
  <2>3. jobs[target[c]] # NoTimer
    BY <1>3, <2>1 DEF TimerInv, CallbackInv, CallbackLabels, Resumes
  <2> QED
    BY <2>1, <2>2, <2>3, RegisterStepKeeps
<1>4. CASE Rearm(c) /\ jobs[target[c]] # timer[c]
  <2>1. /\ Resumes(c, "notify") /\ Goto(c, "notify", "idle")
        /\ UNCHANGED <<enabled, timers, target, timer, ready, todo, failures>>
    BY <1>4 DEF Rearm, stored, counters
  <2> QED
    BY <1>0, <2>1, QuietStepKeeps DEF RegisteringLabels
<1>5. CASE Rearmed(c)
  <2>1. /\ Resumes(c, "rearming") /\ Goto(c, "rearming", "idle")
        /\ enabled' = [enabled EXCEPT ![target[c]] = TRUE]
        /\ UNCHANGED <<timers, target, timer, ready, todo, failures>>
    BY <1>5 DEF Rearmed, Scheduled, locals, counters
  <2> QED
    BY <1>0, <2>1, Enabling, QuietStepKeeps
<1> QED
  BY <1>1, <1>2, <1>3, <1>4, <1>5

\* A timer that fires is not set any more, and its job keeps its name.
LEMMA FireKeeps == \A c \in Calls, s \in Schedules : TimerInv /\ Fire(c, s) => TimerInv'
<1> SUFFICES ASSUME TimerInv, NEW c \in Calls, NEW s \in Schedules, Fire(c, s)
             PROVE  TimerInv'
  OBVIOUS
<1>1. TimerTypeOK /\ OneTimer
  BY DEF TimerInv
<1>2. PICK t \in 1 .. made : /\ <<s, t>> \in armed /\ armed' = armed \ {<<s, t>>}
                             /\ timer' = [timer EXCEPT ![c] = t]
  BY DEF Fire
<1>3. t \in Nat /\ t # NoTimer
  BY <1>1 DEF TimerTypeOK, NoTimer
<1>4. /\ Resumes(c, "idle") /\ Goto(c, "idle", "add")
      /\ target' = [target EXCEPT ![c] = s]
      /\ UNCHANGED <<enabled, jobs, made, todo, ready, failures>>
  BY BeginsIdle DEF Fire, stored
<1>5. /\ target' \in [Calls -> Schedules] /\ target'[c] = s
      /\ \A d \in Calls : d # c => target'[d] = target[d] /\ timer'[d] = timer[d]
      /\ timer' \in [Calls -> Nat] /\ timer'[c] # NoTimer
      /\ armed' \subseteq Schedules \X (Nat \ {NoTimer})
  BY <1>1, <1>2, <1>3, <1>4 DEF TimerTypeOK
<1>6. /\ "add" \in Labels /\ "idle" \notin BootLabels \cup RegisteringLabels
      /\ "add" \notin BootLabels \cup RequestLabels
  BY LabelsListed DEF BootLabels, RegisteringLabels, RequestLabels
<1>7. OneTimer'
  BY <1>1, <1>2, <1>4 DEF OneTimer
<1>8. Dutiful(c, "idle", "add")
  BY <1>4, <1>5, <1>6 DEF Dutiful
<1>9. Restoring'
  BY <1>4, <1>5, <1>6, RestoringKept
<1>10. /\ enabled' \in [Schedules -> BOOLEAN] /\ jobs' \in [Schedules -> Nat]
       /\ made' \in Nat /\ todo' \in SUBSET Schedules /\ ready' \in BOOLEAN
       /\ failures' = failures
  BY <1>1, <1>4 DEF TimerTypeOK
<1> QED
  BY <1>4, <1>5, <1>6, <1>7, <1>8, <1>9, <1>10, StepKeeps

LEMMA FailKeeps == \A c \in Calls : TimerInv /\ Fail(c) => TimerInv'
<1> SUFFICES ASSUME TimerInv, NEW c \in Calls, Fail(c) PROVE TimerInv'
  OBVIOUS
<1>1. PICK label \in Labels : Resumes(c, label) /\ Goto(c, label, "idle")
  BY DEF Fail
<1>2. /\ TimerTypeOK /\ Queued /\ OneTimer /\ Restoring /\ CallbackInv /\ "idle" \in Labels
      /\ UNCHANGED <<enabled, jobs, armed, made, target, timer, ready>>
      /\ failures' = failures + 1 /\ todo' \in SUBSET todo
  BY LabelsListed DEF TimerInv, Fail, stored, timers
<1>3. pc' \in [Calls -> Labels] /\ queue' \in Seq(Calls) /\ Queued'
  BY <1>1, <1>2, Moving
<1>4. pc' = [pc EXCEPT ![c] = "idle"]
  BY <1>1 DEF Goto
<1>5. Restoring'
  BY <1>2, <1>3, <1>4 DEF Restoring, BootLabels, RequestLabels, TimerTypeOK
<1>6. CallbackInv'
  BY <1>2, <1>3, <1>4 DEF CallbackInv, CallbackLabels, TimerTypeOK
<1>7. failures' # 0 /\ failures' \in Nat
  BY <1>2 DEF TimerTypeOK
<1>8. OneTimer'
  BY <1>2 DEF OneTimer
<1>9. TimerTypeOK'
  BY <1>2, <1>3, <1>7 DEF TimerTypeOK
<1> QED
  BY <1>3, <1>5, <1>6, <1>7, <1>8, <1>9 DEF TimerInv

LEMMA RestartKeeps == \A c \in Calls : TimerInv /\ Restart(c) => TimerInv'
<1> SUFFICES ASSUME TimerInv, NEW c \in Calls, Restart(c) PROVE TimerInv'
  OBVIOUS
<1>1. /\ TimerTypeOK /\ jobs' = [s \in Schedules |-> NoTimer] /\ armed' = {}
      /\ queue' = <<>> /\ pc' = [d \in Calls |-> IF d = c THEN "boot" ELSE "idle"]
      /\ todo' = {} /\ ready' = FALSE
      /\ UNCHANGED <<enabled, made, target, timer, failures>>
  BY DEF TimerInv, Restart, stored
<1>2. pc' \in [Calls -> Labels] /\ queue' \in Seq(Calls) /\ Len(queue') = 0
      /\ jobs' \in [Schedules -> Nat]
  BY <1>1, LabelsListed DEF NoTimer
<1>3. TimerTypeOK'
  BY <1>1, <1>2 DEF TimerTypeOK
<1>4. Queued' /\ JobsAreKept'
  BY <1>1, <1>2 DEF Queued, JobsAreKept
<1>5. Restoring'
  BY <1>1 DEF Restoring, BootLabels, RequestLabels
<1>6. OneTimer' /\ CallbackInv'
  BY <1>1 DEF OneTimer, CallbackInv, CallbackLabels
<1> QED
  BY <1>3, <1>4, <1>5, <1>6 DEF TimerInv

LEMMA OthersKeep == TimerInv /\ (Authorize \/ ReceiveMessage \/ UNCHANGED vars) => TimerInv'
<1> SUFFICES ASSUME TimerInv, Authorize \/ ReceiveMessage \/ UNCHANGED vars
             PROVE  TimerInv'
  OBVIOUS
<1>1. UNCHANGED <<enabled, jobs, armed, made, queue, pc, target, timer, todo, ready, failures>>
  BY DEF Authorize, ReceiveMessage, vars, stored, timers, locals, counters
<1>2. TimerTypeOK' /\ Queued' /\ OneTimer' /\ Restoring' /\ CallbackInv'
  BY <1>1 DEF TimerInv, TimerTypeOK, Queued, OneTimer, Restoring, CallbackInv
<1>3. JobsAreKept => JobsAreKept'
  BY <1>1 DEF JobsAreKept, Kept, Sets, Clears
<1> QED
  BY <1>1, <1>2, <1>3 DEF TimerInv

-------------------------------------------------------------------------------

LEMMA TimerInductive == Spec => []TimerInv
<1>1. TimerInv /\ [Next]_vars => TimerInv'
  BY BootingKeeps, HandlersKeep, CallbacksKeep, RequestsKeep, FireKeeps, FailKeeps,
     RestartKeeps, OthersKeep DEF Next, Step
<1> QED
  BY <1>1, InitHolds, PTL DEF Spec

\* A schedule has at most one timer set, the one its job names, whatever fails.
THEOREM TimerIsUnique == Spec => []OneTimer
<1>1. TimerInv => OneTimer
  BY DEF TimerInv
<1> QED
  BY <1>1, TimerInductive, PTL

\* A timer is set only for a schedule that is enabled or about to be, unless a write
\* failed, restarts included.
THEOREM OnlyEnabledIsTimed == Spec => []TimerIsEnabled
<1>1. TimerInv => TimerIsEnabled
  <2> SUFFICES ASSUME TimerInv, failures = 0, NEW a \in armed, ~enabled[a[1]]
               PROVE  \E c \in Calls : pc[c] \in RegisteringLabels /\ target[c] = a[1]
    BY DEF TimerIsEnabled
  <2>1. a[1] \in Schedules /\ a[2] # NoTimer /\ jobs[a[1]] = a[2] /\ queue \in Seq(Calls)
    BY DEF TimerInv, TimerTypeOK, OneTimer
  <2>2. PICK s \in Schedules : s = a[1]
    BY <2>1
  <2>3. Kept(Len(queue) + 1, s)
    BY <2>1, <2>2 DEF TimerInv, JobsAreKept
  <2>4. PICK j \in 1 .. (Len(queue) + 1) - 1 : Sets(j, s)
    BY <2>2, <2>3 DEF Kept
  <2>5. j \in 1 .. Len(queue) /\ queue[j] \in Calls
    BY <2>1
  <2> QED
    BY <2>2, <2>4, <2>5 DEF Sets
<1> QED
  BY <1>1, TimerInductive, PTL

\* A schedule that was disabled is enabled only by a request: a callback that was on
\* its way has its schedule enabled when its turn comes, or does not register it.
THEOREM OnlyRequestsReenable == Spec => ReenabledOnRequest
<1> DEFINE Guarded ==
        failures = 0 => \A s \in Schedules : ~enabled[s] /\ enabled'[s] =>
            \E c \in Calls : pc[c] \in {"enabling", "enable"} /\ target[c] = s
<1>1. TimerInv /\ [Next]_vars => Guarded
  <2> SUFFICES ASSUME TimerInv, [Next]_vars, failures = 0,
                      NEW s \in Schedules, ~enabled[s], enabled'[s]
               PROVE  \E c \in Calls : pc[c] \in {"enabling", "enable"} /\ target[c] = s
    OBVIOUS
  <2>1. PICK c \in Calls : /\ Restored(c) \/ Registered(c) \/ Enable(c) \/ Disable(c)
                              \/ Rearmed(c)
    BY DEF Next, Step, Boot, Announced, EnableSchedule, PublishBootstrapState, PublishSnapshot,
           Added, Touched, Rearm, Requests, RequestEnable, RequestDisable, RequestState,
           Request, Fail, Restart, Fire, Authorize, ReceiveMessage, vars, stored
  <2>2. enabled \in [Schedules -> BOOLEAN] /\ target[c] \in Schedules
        /\ queue \in Seq(Calls) /\ JobsAreKept /\ Restoring
    BY DEF TimerInv, TimerTypeOK
  <2>3. CASE Registered(c) \/ Enable(c)
    BY <2>2, <2>3 DEF Registered, Scheduled, Enable, Resumes
  <2>4. CASE Disable(c)
    BY <2>2, <2>4 DEF Disable
  <2>5. CASE Restored(c)
    <3>1. enabled[target[c]]
      BY <2>2, <2>5 DEF Restored, Resumes, Restoring
    <3> QED
      BY <2>2, <2>5, <3>1 DEF Restored, Scheduled
  <2>6. CASE Rearmed(c)
    <3>1. pc[c] = "rearming" /\ queue # <<>> /\ c = Head(queue)
      BY <2>6 DEF Rearmed, Resumes, StoreLabels
    <3>2. 1 \in 1 .. Len(queue) /\ c = queue[1]
      BY <2>2, <3>1
    <3>3. Kept(1, target[c])
      BY <2>2, <3>1, <3>2 DEF JobsAreKept
    <3>4. enabled[target[c]]
      BY <3>3 DEF Kept
    <3> QED
      BY <2>2, <2>6, <3>4 DEF Rearmed, Scheduled
  <2> QED
    BY <2>1, <2>3, <2>4, <2>5, <2>6
<1> QED
  BY <1>1, TimerInductive, PTL DEF Spec, ReenabledOnRequest

-------------------------------------------------------------------------------
(* The stored time                                                           *)

Writers == RegisteringLabels \cup {"enable"}

\* The call at position i of the queue waits at one of the labels, about s; and the
\* timer it has to write is that of the job, or it writes something else.
At(i, s, labels) == pc[queue[i]] \in labels /\ target[queue[i]] = s
WritesJob(i, s, labels) == At(i, s, labels) /\ timer[queue[i]] = jobs[s]
WritesOther(i, s) ==
    At(i, s, {"disable"}) \/ (At(i, s, Writers) /\ timer[queue[i]] # jobs[s])

\* The timer of s is stored or will be: after everything else that is to be written
\* of s comes the write of its timer.  (enableSchedule of the channel has a second
\* write, which joins the queue when the first is done.)
JobIsWritten(s) ==
    /\ next[s] = jobs[s] \/ \E j \in 1 .. Len(queue) : WritesJob(j, s, Writers)
    /\ \A i \in 1 .. Len(queue) : WritesOther(i, s) =>
          \/ \E j \in i + 1 .. Len(queue) : WritesJob(j, s, Writers)
          \/ \E j \in 1 .. Len(queue) : WritesJob(j, s, {"enabling"})
    /\ \A i \in 1 .. Len(queue) :
          At(i, s, {"enabling"}) /\ timer[queue[i]] # jobs[s] =>
              \E j \in i + 1 .. Len(queue) : WritesJob(j, s, {"enabling"})

\* A callback that will register its schedule again has no request with a second write
\* behind it: it has waited for the store itself since its timer was set.
CallbackIsLast(c) ==
    timer[c] = jobs[target[c]] =>
        /\ pc[c] = "notify" =>
              \A j \in 1 .. Len(queue) : ~At(j, target[c], {"enabling"})
        /\ pc[c] = "touch" => \A i, j \in 1 .. Len(queue) :
              queue[i] = c /\ At(j, target[c], {"enabling"}) => j < i

NextInv ==
    /\ \A s \in Schedules : jobs[s] # NoTimer => JobIsWritten(s)
    /\ \A c \in Calls : CallbackIsLast(c)

\* Timers are numbered as they are made.
MadeInv == next \in [Schedules -> Nat] /\ \A c \in Calls : timer[c] <= made

\* What the step of a call may do to timers and the time that is stored of them.
Renews(c, label, then) ==
    /\ \A s \in Schedules : jobs'[s] # NoTimer =>
          \/ /\ jobs'[s] = jobs[s]
             /\ target'[c] = s => then \notin RegisteringLabels \cup {"disable"}
          \/ /\ jobs'[s] = made + 1 /\ timer'[c] = made + 1
             /\ target'[c] = s /\ then \in RegisteringLabels
             /\ then # "enabling" =>
                   \A j \in 1 .. Len(queue) : ~At(j, s, {"enabling"})
    /\ \A s \in Schedules :
          /\ target[c] = s /\ label \in Writers => next'[s] = timer[c]
          /\ ~(target[c] = s /\ label \in Writers \cup {"disable"}) => next'[s] = next[s]
    /\ then = "enable" <=> label = "enabling"
    /\ then = "notify" => label = "touch"
    /\ then \in {"enable", "notify"} => target'[c] = target[c] /\ timer'[c] = timer[c]
    /\ \A d \in Calls : d # c => target'[d] = target[d] /\ timer'[d] = timer[d]

LEMMA NextKept ==
    ASSUME TimerInv, NextInv, MadeInv, NEW c \in Calls, NEW label, NEW then \in Labels,
           Resumes(c, label), Goto(c, label, then), Renews(c, label, then)
    PROVE  NextInv'
<1> PICK k : k = Popped(label)
  OBVIOUS
<1> PICK m : m = Len(queue) - k
  OBVIOUS
<1>1. /\ m \in Nat /\ pc[c] = label /\ pc'[c] = then
      /\ Len(queue') = m + Popped(then)
      /\ \A i \in 1 .. m : /\ i + k \in 1 .. Len(queue)
                           /\ queue'[i] = queue[i + k] /\ queue'[i] \in Calls \ {c}
                           /\ pc'[queue'[i]] = pc[queue[i + k]]
      /\ then \in StoreLabels => queue'[m + 1] = c
      /\ label \in StoreLabels => queue[1] = c /\ 1 \in 1 .. Len(queue)
  BY Moving DEF TimerInv
<1>2. /\ k \in {0, 1} /\ (k = 1 <=> label \in StoreLabels) /\ Len(queue) = m + k
      /\ TimerTypeOK /\ Queued /\ CallbackInv
  BY DEF Popped, TimerTypeOK, TimerInv
<1>3. /\ Writers \cup {"disable", "touch"} \subseteq StoreLabels
      /\ "enabling" \in RegisteringLabels /\ RegisteringLabels \subseteq Writers
      /\ "enable" \in Writers \ RegisteringLabels /\ "disable" \notin Writers
      /\ "notify" \notin StoreLabels
  BY DEF RegisteringLabels, StoreLabels, Writers
\* Who stays in the queue writes what it would have written.
<1>4. ASSUME NEW i \in 1 .. m
      PROVE  /\ \A s, labels : At(i, s, labels)' <=> At(i + k, s, labels)
             /\ timer'[queue'[i]] = timer[queue[i + k]]
  BY <1>1 DEF At, Renews
\* Who is new in it is c.
<1>5. ASSUME NEW i \in 1 .. Len(queue'), i \notin 1 .. m
      PROVE  /\ i = m + 1 /\ Len(queue') = m + 1 /\ then \in StoreLabels /\ queue'[i] = c
             /\ \A s, labels : At(i, s, labels)' <=> (then \in labels /\ target'[c] = s)
  <2>1. Len(queue') = m + 1 /\ then \in StoreLabels
    <3>1. Len(queue') # m
      BY <1>5
    <3> QED
      BY <1>1, <3>1 DEF Popped
  <2>2. i = m + 1
    BY <1>1, <1>5, <2>1
  <2>3. queue'[i] = c
    BY <1>1, <2>1, <2>2
  <2> QED
    BY <1>1, <2>1, <2>2, <2>3 DEF At
<1>6. \A i \in 1 .. m : i \in 1 .. Len(queue')
  BY <1>1 DEF Popped
<1>7. ASSUME NEW j \in 1 .. Len(queue), ~(k = 1 /\ j = 1)
      PROVE  j - k \in 1 .. m /\ (j - k) + k = j
  BY SMTT(30), <1>1, <1>2, <1>7
<1>8. ASSUME NEW s \in Schedules, jobs'[s] # NoTimer PROVE JobIsWritten(s)'
  <2>1. CASE /\ jobs'[s] = made + 1 /\ timer'[c] = made + 1
             /\ target'[c] = s /\ then \in RegisteringLabels
             /\ then # "enabling" =>
                   \A j \in 1 .. Len(queue) : ~At(j, s, {"enabling"})
    <3>1. Len(queue') = m + 1 /\ m + 1 \in 1 .. Len(queue') /\ m + 1 \notin 1 .. m
      BY <1>1, <1>3, <2>1 DEF Popped
    <3>2. /\ WritesJob(m + 1, s, Writers)' /\ ~WritesOther(m + 1, s)'
          /\ then = "enabling" => WritesJob(m + 1, s, {"enabling"})'
          /\ timer'[queue'[m + 1]] = jobs'[s]
      BY <1>3, <1>5, <2>1, <3>1 DEF WritesJob, WritesOther
    <3>3. \A i \in 1 .. Len(queue') :
             (i \in 1 .. m /\ m + 1 \in i + 1 .. Len(queue')) \/ i = m + 1
      BY <1>1, <3>1
    <3>4. \A i \in 1 .. Len(queue') :
             At(i, s, {"enabling"})' /\ timer'[queue'[i]] # jobs'[s] => then = "enabling"
      BY <1>1, <1>4, <2>1, <3>2, <3>3
    <3> QED
      BY <3>1, <3>2, <3>3, <3>4 DEF JobIsWritten
  <2>2. CASE /\ jobs'[s] = jobs[s]
             /\ target'[c] = s => then \notin RegisteringLabels \cup {"disable"}
    <3>1. JobIsWritten(s)
      BY <1>8, <2>2 DEF NextInv
    <3>2. \A i \in 1 .. m :
             /\ \A labels : WritesJob(i, s, labels)' <=> WritesJob(i + k, s, labels)
             /\ WritesOther(i, s)' <=> WritesOther(i + k, s)
      BY <1>4, <2>2 DEF WritesJob, WritesOther
    <3>3. ASSUME NEW i \in 1 .. Len(queue'),
                 At(i, s, {"enabling"})' /\ timer'[queue'[i]] # jobs'[s]
          PROVE  \E j \in i + 1 .. Len(queue') : WritesJob(j, s, {"enabling"})'
      <4>1. i \in 1 .. m
        BY <1>3, <1>5, <2>2, <3>3
      <4>2. i + k \in 1 .. Len(queue) /\ At(i + k, s, {"enabling"})
            /\ timer[queue[i + k]] # jobs[s]
        BY <1>1, <1>4, <2>2, <3>3, <4>1
      <4>3. PICK j \in (i + k) + 1 .. Len(queue) : WritesJob(j, s, {"enabling"})
        BY <3>1, <4>2 DEF JobIsWritten
      <4>4. j \in 1 .. Len(queue) /\ ~(k = 1 /\ j = 1)
        BY <1>2, <4>1, <4>3
      <4>5. j - k \in i + 1 .. Len(queue')
        <5>1. j - k \in 1 .. m
          BY <1>7, <4>4
        <5>2. j - k > i
          BY <1>1, <1>2, <4>1, <4>3
        <5> QED
          BY <1>1, <1>6, <4>1, <5>1, <5>2
      <4> QED
        BY <1>7, <3>2, <4>3, <4>4, <4>5
    <3>4. CASE label = "enabling" /\ target[c] = s /\ timer[c] = jobs[s]
      <4>1. then = "enable" /\ target'[c] = s /\ timer'[c] = jobs'[s]
        BY <2>2, <3>4 DEF Renews
      <4>2. Len(queue') = m + 1 /\ m + 1 \in 1 .. Len(queue') /\ m + 1 \notin 1 .. m
        BY <1>1, <1>3, <4>1 DEF Popped
      <4>3. WritesJob(m + 1, s, Writers)' /\ ~WritesOther(m + 1, s)'
        BY <1>3, <1>5, <4>1, <4>2 DEF WritesJob, WritesOther
      <4>4. \A i \in 1 .. Len(queue') : m + 1 \in i + 1 .. Len(queue') \/ i = m + 1
        BY <1>1, <4>2
      <4> QED
        BY <3>3, <4>2, <4>3, <4>4 DEF JobIsWritten
    <3>5. CASE label = "enabling" /\ target[c] = s /\ timer[c] # jobs[s]
      <4>1. k = 1 /\ 1 \in 1 .. Len(queue) /\ queue[1] = c
        BY <1>1, <1>2, <1>3, <3>5
      <4>2. At(1, s, {"enabling"}) /\ timer[queue[1]] # jobs[s]
        BY <1>1, <3>5, <4>1 DEF At
      <4>3. PICK j \in 1 + 1 .. Len(queue) : WritesJob(j, s, {"enabling"})
        BY <3>1, <4>1, <4>2 DEF JobIsWritten
      <4>4. j \in 1 .. Len(queue) /\ ~(k = 1 /\ j = 1)
        BY <1>2, <4>3
      <4>5. WritesJob(j - k, s, {"enabling"})' /\ j - k \in 1 .. Len(queue')
        BY <1>6, <1>7, <3>2, <4>3, <4>4
      <4>6. WritesJob(j - k, s, Writers)'
        BY <1>3, <4>5 DEF WritesJob, At
      <4> QED
        BY <3>3, <4>5, <4>6 DEF JobIsWritten
    <3>6. CASE ~(label = "enabling" /\ target[c] = s)
      <4>1. ASSUME NEW i \in 1 .. Len(queue'), At(i, s, Writers \cup {"disable"})'
            PROVE  i \in 1 .. m
        <5> SUFFICES ASSUME i \notin 1 .. m PROVE FALSE
          OBVIOUS
        <5>1. then \in Writers \cup {"disable"} /\ target'[c] = s
          BY <1>5, <4>1
        <5>2. then = "enable"
          BY <2>2, <5>1 DEF Writers
        <5> QED
          BY <3>6, <5>1, <5>2 DEF Renews
      <4>2. ASSUME NEW j \in 1 .. Len(queue), WritesJob(j, s, {"enabling"})
            PROVE  \E q \in 1 .. Len(queue') : WritesJob(q, s, {"enabling"})'
        <5>1. ~(k = 1 /\ j = 1)
          BY <1>1, <1>2, <3>6, <4>2 DEF WritesJob, At
        <5> QED
          BY <1>6, <1>7, <3>2, <4>2, <5>1
      <4>3. ASSUME NEW i \in 1 .. Len(queue'), WritesOther(i, s)'
            PROVE  \/ \E j \in i + 1 .. Len(queue') : WritesJob(j, s, Writers)'
                   \/ \E j \in 1 .. Len(queue') : WritesJob(j, s, {"enabling"})'
        <5>1. i \in 1 .. m
          BY <4>1, <4>3 DEF WritesOther, At
        <5>2. WritesOther(i + k, s) /\ i + k \in 1 .. Len(queue)
          BY <1>1, <3>2, <4>3, <5>1
        <5>3. \/ \E j \in (i + k) + 1 .. Len(queue) : WritesJob(j, s, Writers)
              \/ \E j \in 1 .. Len(queue) : WritesJob(j, s, {"enabling"})
          BY <3>1, <5>2 DEF JobIsWritten
        <5>4. ASSUME NEW j \in (i + k) + 1 .. Len(queue), WritesJob(j, s, Writers)
              PROVE  \E q \in i + 1 .. Len(queue') : WritesJob(q, s, Writers)'
          <6>1. j \in 1 .. Len(queue) /\ ~(k = 1 /\ j = 1)
            BY <1>2, <5>1
          <6>2. j - k \in 1 .. m /\ j - k > i
            BY <1>1, <1>2, <1>7, <5>1, <6>1
          <6>3. j - k \in i + 1 .. Len(queue')
            BY <1>1, <1>6, <5>1, <6>2
          <6> QED
            BY <1>7, <3>2, <5>4, <6>1, <6>2, <6>3
        <5> QED
          BY <4>2, <5>3, <5>4
      <4>4. next'[s] = jobs'[s] \/ \E j \in 1 .. Len(queue') : WritesJob(j, s, Writers)'
        <5>1. ASSUME NEW j \in 1 .. Len(queue), WritesJob(j, s, Writers), ~(k = 1 /\ j = 1)
              PROVE  \E q \in 1 .. Len(queue') : WritesJob(q, s, Writers)'
          BY <1>6, <1>7, <3>2, <5>1
        <5>2. CASE k = 1 /\ WritesOther(1, s)
          <6>1. 1 \in 1 .. Len(queue)
            BY <1>1, <1>2, <5>2
          <6>2. \/ \E j \in 1 + 1 .. Len(queue) : WritesJob(j, s, Writers)
                \/ \E j \in 1 .. Len(queue) : WritesJob(j, s, {"enabling"})
            BY <3>1, <5>2, <6>1 DEF JobIsWritten
          <6>3. ASSUME NEW j \in 1 + 1 .. Len(queue), WritesJob(j, s, Writers)
                PROVE  \E q \in 1 .. Len(queue') : WritesJob(q, s, Writers)'
            <7>1. j \in 1 .. Len(queue) /\ j # 1
              BY <1>1, <1>2
            <7> QED
              BY <5>1, <6>3, <7>1
          <6>4. \A q : WritesJob(q, s, {"enabling"})' => WritesJob(q, s, Writers)'
            BY <1>3 DEF WritesJob, At
          <6> QED
            BY <4>2, <6>2, <6>3, <6>4
        <5>3. CASE target[c] = s /\ label \in Writers /\ timer[c] = jobs[s]
          BY <2>2, <5>3 DEF Renews
        <5>4. CASE target[c] = s /\ label \in Writers \cup {"disable"}
                   /\ ~(label \in Writers /\ timer[c] = jobs[s])
          <6>1. k = 1 /\ queue[1] = c
            BY <1>1, <1>2, <1>3, <5>4
          <6>2. WritesOther(1, s)
            BY <1>1, <5>4, <6>1 DEF WritesOther, At
          <6> QED
            BY <5>2, <6>1, <6>2
        <5>5. CASE ~(target[c] = s /\ label \in Writers \cup {"disable"})
          <6>1. next'[s] = next[s]
            BY <5>5 DEF Renews
          <6>2. ~(k = 1 /\ WritesJob(1, s, Writers))
            BY <1>1, <1>2, <5>5 DEF WritesJob, At
          <6> QED
            BY <2>2, <3>1, <5>1, <6>1, <6>2 DEF JobIsWritten
        <5> QED
          BY <5>3, <5>4, <5>5
      <4> QED
        BY <3>3, <4>3, <4>4 DEF JobIsWritten
    <3> QED
      BY <3>4, <3>5, <3>6
  <2> QED
    BY <1>8, <2>1, <2>2 DEF Renews
<1>9. ASSUME NEW d \in Calls, timer'[d] = jobs'[target'[d]], pc'[d] \in {"notify", "touch"}
      PROVE  CallbackIsLast(d)'
  <2>1. /\ pc' = [pc EXCEPT ![c] = then] /\ pc \in [Calls -> Labels]
        /\ target \in [Calls -> Schedules] /\ made \in Nat /\ queue \in Seq(Calls)
    BY <1>2 DEF Goto, TimerTypeOK
  <2>2. CASE d = c /\ then = "touch"
    <3>1. ASSUME NEW i \in 1 .. Len(queue'), NEW j \in 1 .. Len(queue'),
                 queue'[i] = c, At(j, target[d], {"enabling"})'
          PROVE  j < i
      <4>1. i = m + 1
        BY <1>1, <1>5, <3>1
      <4>2. j \in 1 .. m
        BY <1>5, <2>2, <3>1
      <4> QED
        BY <1>1, <4>1, <4>2
    <3> QED
      BY <1>1, <2>2, <3>1 DEF CallbackIsLast
  <2>3. CASE d # c \/ then = "notify"
    <3>1. /\ timer'[d] = timer[d] /\ target'[d] = target[d]
          /\ pc[d] = IF d = c THEN "touch" ELSE pc'[d]
          /\ d = c => pc'[d] = "notify"
      BY <1>1, <1>9, <2>1, <2>3 DEF Renews
    <3>2. timer[d] # NoTimer
      BY <1>2, <1>9, <3>1 DEF CallbackInv, CallbackLabels
    <3> PICK s \in Schedules : s = target[d]
      BY <2>1
    <3>3. timer[d] = jobs'[s] /\ jobs'[s] # made + 1
      <4>1. timer[d] = jobs'[s]
        BY <1>9, <3>1
      <4>2. timer[d] \in Nat /\ timer[d] <= made
        BY <1>2 DEF MadeInv, TimerTypeOK
      <4> QED
        BY <2>1, <4>1, <4>2
    <3>4. jobs'[s] = jobs[s] /\ (target'[c] = s => then # "enabling")
      BY <1>3, <3>2, <3>3 DEF Renews
    <3>5. CallbackIsLast(d) /\ timer[d] = jobs[target[d]]
      BY <3>3, <3>4 DEF NextInv
    <3>6. ASSUME NEW j \in 1 .. Len(queue'), At(j, s, {"enabling"})'
          PROVE  j \in 1 .. m /\ j + k \in 1 .. Len(queue) /\ At(j + k, s, {"enabling"})
      <4>1. j \in 1 .. m
        BY <1>5, <3>4, <3>6
      <4> QED
        BY <1>1, <1>4, <3>6, <4>1
    <3>7. CASE d = c
      <4>1. 1 \in 1 .. Len(queue) /\ queue[1] = c /\ pc[c] = "touch"
        BY <1>1, <1>3, <3>1, <3>7
      <4>2. \A j \in 1 .. Len(queue) : At(j, s, {"enabling"}) => j < 1
        BY <3>5, <3>7, <4>1 DEF CallbackIsLast
      <4>3. \A j \in 1 .. Len(queue') : ~At(j, s, {"enabling"})'
        BY <3>6, <4>2
      <4> QED
        BY <3>1, <3>7, <4>3 DEF CallbackIsLast
    <3>8. CASE d # c /\ pc'[d] = "notify"
      <4>1. \A j \in 1 .. Len(queue') : ~At(j, s, {"enabling"})'
        BY <3>1, <3>5, <3>6, <3>8 DEF CallbackIsLast
      <4> QED
        BY <3>1, <3>8, <4>1 DEF CallbackIsLast
    <3>9. CASE d # c /\ pc'[d] = "touch"
      <4>1. ASSUME NEW i \in 1 .. Len(queue'), NEW j \in 1 .. Len(queue'),
                   queue'[i] = d, At(j, s, {"enabling"})'
            PROVE  j < i
        <5>1. i \in 1 .. m
          BY <1>5, <3>9, <4>1
        <5>2. i + k \in 1 .. Len(queue) /\ queue[i + k] = d
          BY <1>1, <4>1, <5>1
        <5>3. j + k < i + k
          BY <3>1, <3>5, <3>6, <3>9, <4>1, <5>2 DEF CallbackIsLast
        <5> QED
          BY <1>2, <3>6, <4>1, <5>1, <5>3
      <4> QED
        BY <3>1, <3>9, <4>1 DEF CallbackIsLast
    <3> QED
      BY <1>9, <3>7, <3>8, <3>9
  <2> QED
    BY <1>1, <1>9, <2>2, <2>3
<1> QED
  <2>1. \A d \in Calls : CallbackIsLast(d)'
    BY <1>9 DEF CallbackIsLast
  <2> QED
    BY <1>8, <2>1 DEF NextInv

\* What a step writes of the stored times: the timer of its call, or nothing.
Stores(c, label) ==
    \A s \in Schedules :
        /\ target[c] = s /\ label \in Writers => next'[s] = timer[c]
        /\ ~(target[c] = s /\ label \in Writers \cup {"disable"}) => next'[s] = next[s]

LEMMA StoresItsTimer ==
    ASSUME TimerTypeOK, MadeInv, NEW c \in Calls, NEW label,
           \/ label \in Writers /\ next' = [next EXCEPT ![target[c]] = timer[c]]
           \/ label = "disable" /\ next' = [next EXCEPT ![target[c]] = NoTimer]
           \/ label \notin Writers \cup {"disable"} /\ next' = next
    PROVE  Stores(c, label) /\ next' \in [Schedules -> Nat]
<1>1. /\ next \in [Schedules -> Nat] /\ target[c] \in Schedules /\ timer[c] \in Nat
      /\ NoTimer \in Nat /\ "disable" \notin Writers
  BY DEF TimerTypeOK, MadeInv, NoTimer, Writers, RegisteringLabels
<1> QED
  BY <1>1 DEF Stores

\* A step that leaves the timers alone and is not about to write, unless it is the
\* second write of a handler.
LEMMA QuietRenews ==
    ASSUME TimerTypeOK, MadeInv, NEW c \in Calls, NEW label, NEW then,
           Stores(c, label), next' \in [Schedules -> Nat],
           UNCHANGED <<timers, timer>>, then \notin RegisteringLabels \cup {"disable"},
           then = "enable" <=> label = "enabling", then = "notify" => label = "touch",
           then \in {"enable", "notify"} => target'[c] = target[c],
           \A d \in Calls : d # c => target'[d] = target[d]
    PROVE  Renews(c, label, then) /\ MadeInv'
<1>1. MadeInv'
  BY DEF MadeInv, timers
<1> QED
  BY <1>1 DEF Stores, Renews, timers

\* A step that registers a schedule for its call.
LEMMA RegisterRenews ==
    ASSUME TimerTypeOK, MadeInv, NEW c \in Calls, NEW label, NEW s \in Schedules,
           NEW then \in RegisteringLabels,
           Stores(c, label), next' \in [Schedules -> Nat],
           Register(c, s), target'[c] = s, label # "enabling",
           \A d \in Calls : d # c => target'[d] = target[d],
           then # "enabling" => \A j \in 1 .. Len(queue) : ~At(j, s, {"enabling"})
    PROVE  Renews(c, label, then) /\ MadeInv'
<1>1. /\ jobs \in [Schedules -> Nat] /\ timer \in [Calls -> Nat] /\ made \in Nat
      /\ jobs' = [jobs EXCEPT ![s] = made + 1] /\ made' = made + 1
      /\ timer' = [timer EXCEPT ![c] = made + 1]
  BY DEF TimerTypeOK, Register
<1>2. /\ timer'[c] = made + 1 /\ jobs'[s] = made + 1
      /\ \A d \in Calls : d # c => timer'[d] = timer[d]
      /\ \A r \in Schedules : r # s => jobs'[r] = jobs[r]
  BY <1>1
<1>3. then \notin {"enable", "notify"}
  BY DEF RegisteringLabels
<1>4. ASSUME NEW d \in Calls PROVE timer'[d] <= made'
  <2>1. timer[d] \in Nat /\ timer[d] <= made
    BY <1>1 DEF MadeInv
  <2> QED
    BY <1>1, <1>2, <2>1
<1>5. Renews(c, label, then)
  BY <1>2, <1>3 DEF Stores, Renews
<1> QED
  BY <1>4, <1>5 DEF MadeInv

\* While the schedules are restored no request has a write behind it.
LEMMA RestoringIsAlone ==
    ASSUME TimerInv, NEW c \in Calls, pc[c] \in BootLabels
    PROVE  \A j \in 1 .. Len(queue), s \in Schedules : ~At(j, s, {"enabling"})
<1>1. queue \in Seq(Calls) /\ ~ready
  BY DEF TimerInv, TimerTypeOK, Restoring
<1>2. \A d \in Calls : pc[d] # "enabling"
  BY <1>1 DEF TimerInv, Restoring, RequestLabels
<1> QED
  BY <1>1, <1>2 DEF At

\* The step keeps what is said of the stored times.
Renewed == MadeInv' /\ (NextInv => NextInv')

LEMMA RenewingKeeps ==
    ASSUME TimerInv, MadeInv, NEW c \in Calls, NEW label, NEW then \in Labels,
           Resumes(c, label), Goto(c, label, then),
           NextInv => Renews(c, label, then), MadeInv'
    PROVE  Renewed
  BY NextKept DEF Renewed

LEMMA RestoreNextRenews ==
    ASSUME TimerInv, MadeInv, NEW c \in Calls, NEW label \in {"boot", "restoring"},
           NEW remaining \in SUBSET Schedules,
           Resumes(c, label), RestoreNext(c, label, remaining),
           Stores(c, label), next' \in [Schedules -> Nat]
    PROVE  Renewed
<1>1. /\ TimerTypeOK /\ pc[c] \in BootLabels /\ "announce" \in Labels /\ "restoring" \in Labels
      /\ label # "enabling" /\ "announce" \notin RegisteringLabels \cup {"disable"}
      /\ "restoring" \in RegisteringLabels
  BY LabelsListed DEF TimerInv, Resumes, BootLabels, RegisteringLabels
<1>2. CASE remaining = {}
  <2>1. Goto(c, label, "announce") /\ UNCHANGED <<timers, timer, target>>
    BY <1>2 DEF RestoreNext, locals
  <2>2. Renews(c, label, "announce") /\ MadeInv'
    BY <1>1, <2>1, QuietRenews
  <2> QED
    BY <1>1, <2>1, <2>2, RenewingKeeps
<1>3. ASSUME NEW s \in remaining, Register(c, s), target' = [target EXCEPT ![c] = s],
             Goto(c, label, "restoring")
      PROVE  Renewed
  <2>1. /\ s \in Schedules /\ target'[c] = s
        /\ \A d \in Calls : d # c => target'[d] = target[d]
    BY <1>1, <1>3 DEF TimerTypeOK
  <2>2. \A j \in 1 .. Len(queue) : ~At(j, s, {"enabling"})
    BY <1>1, <2>1, RestoringIsAlone
  <2>3. Renews(c, label, "restoring") /\ MadeInv'
    BY <1>1, <1>3, <2>1, <2>2, RegisterRenews
  <2> QED
    BY <1>1, <1>3, <2>3, RenewingKeeps
<1> QED
  BY <1>2, <1>3 DEF RestoreNext

LEMMA BootingRenews ==
    ASSUME TimerInv, MadeInv, NEW c \in Calls, Boot(c) \/ Restored(c) \/ Announced(c)
    PROVE  Renewed
<1>1. /\ TimerTypeOK /\ {"boot", "announce"} \cap (Writers \cup {"disable"}) = {}
      /\ "restoring" \in Writers /\ "idle" \in Labels
      /\ "idle" \notin RegisteringLabels \cup {"disable"}
  BY LabelsListed DEF TimerInv, Writers, RegisteringLabels
<1>2. CASE Boot(c)
  <2>1. /\ {s \in Schedules : authorized /\ enabled[s]} \in SUBSET Schedules
        /\ next' = next /\ Resumes(c, "boot")
        /\ RestoreNext(c, "boot", {s \in Schedules : authorized /\ enabled[s]})
    BY <1>2 DEF Boot, stored
  <2>2. Stores(c, "boot") /\ next' \in [Schedules -> Nat]
    BY <1>1, <2>1, StoresItsTimer
  <2> QED
    BY <2>1, <2>2, RestoreNextRenews
<1>3. CASE Restored(c)
  <2>1. /\ Resumes(c, "restoring") /\ RestoreNext(c, "restoring", todo)
        /\ next' = [next EXCEPT ![target[c]] = timer[c]] /\ todo \in SUBSET Schedules
    BY <1>1, <1>3 DEF Restored, Scheduled, TimerTypeOK
  <2>2. Stores(c, "restoring") /\ next' \in [Schedules -> Nat]
    BY <1>1, <2>1, StoresItsTimer
  <2> QED
    BY <2>1, <2>2, RestoreNextRenews
<1>4. CASE Announced(c)
  <2>1. /\ Resumes(c, "announce") /\ Goto(c, "announce", "idle")
        /\ next' = next /\ UNCHANGED <<timers, timer, target>>
    BY <1>4 DEF Announced, stored, locals
  <2>2. Stores(c, "announce") /\ next' \in [Schedules -> Nat]
    BY <1>1, <2>1, StoresItsTimer
  <2>3. Renews(c, "announce", "idle") /\ MadeInv'
    BY <1>1, <2>1, <2>2, QuietRenews
  <2> QED
    BY <1>1, <2>1, <2>3, RenewingKeeps
<1> QED
  BY <1>2, <1>3, <1>4

LEMMA HandlersRenew ==
    ASSUME TimerInv, MadeInv, NEW c \in Calls,
           \/ EnableSchedule(c) \/ Registered(c) \/ Enable(c) \/ Disable(c)
           \/ PublishBootstrapState(c) \/ PublishSnapshot(c)
    PROVE  Renewed
<1>1. /\ TimerTypeOK /\ {"authorization", "state", "list"} \cap (Writers \cup {"disable"}) = {}
      /\ {"enabling", "enable"} \subseteq Writers
      /\ {"idle", "list", "enable", "enabling"} \subseteq Labels
      /\ {"idle", "list", "enable"} \cap (RegisteringLabels \cup {"disable"}) = {}
      /\ "enabling" \in RegisteringLabels /\ target[c] \in Schedules
  BY LabelsListed DEF TimerInv, TimerTypeOK, Writers, RegisteringLabels
<1>2. CASE EnableSchedule(c)
  <2>1. /\ Resumes(c, "authorization") /\ next' = next /\ target' = target
        /\ \/ Register(c, target[c]) /\ Goto(c, "authorization", "enabling")
           \/ Goto(c, "authorization", "idle") /\ UNCHANGED <<timers, timer>>
    BY <1>2 DEF EnableSchedule, stored
  <2>2. Stores(c, "authorization") /\ next' \in [Schedules -> Nat]
    BY <1>1, <2>1, StoresItsTimer
  <2>3. CASE Register(c, target[c]) /\ Goto(c, "authorization", "enabling")
    <3>1. Renews(c, "authorization", "enabling") /\ MadeInv'
      BY <1>1, <2>1, <2>2, <2>3, RegisterRenews
    <3> QED
      BY <1>1, <2>1, <2>3, <3>1, RenewingKeeps
  <2>4. CASE Goto(c, "authorization", "idle") /\ UNCHANGED <<timers, timer>>
    <3>1. Renews(c, "authorization", "idle") /\ MadeInv'
      BY <1>1, <2>1, <2>2, <2>4, QuietRenews
    <3> QED
      BY <1>1, <2>1, <2>4, <3>1, RenewingKeeps
  <2> QED
    BY <2>1, <2>3, <2>4
<1>3. CASE Registered(c)
  <2>1. /\ Resumes(c, "enabling") /\ Goto(c, "enabling", "enable")
        /\ next' = [next EXCEPT ![target[c]] = timer[c]]
        /\ UNCHANGED <<timers, timer, target>>
    BY <1>3 DEF Registered, Scheduled, locals
  <2>2. Stores(c, "enabling") /\ next' \in [Schedules -> Nat]
    BY <1>1, <2>1, StoresItsTimer
  <2>3. Renews(c, "enabling", "enable") /\ MadeInv'
    BY <1>1, <2>1, <2>2, QuietRenews
  <2> QED
    BY <1>1, <2>1, <2>3, RenewingKeeps
<1>4. CASE Enable(c)
  <2>1. /\ Resumes(c, "enable") /\ Goto(c, "enable", "idle")
        /\ next' = [next EXCEPT ![target[c]] = timer[c]]
        /\ UNCHANGED <<timers, timer, target>>
    BY <1>4 DEF Enable, locals
  <2>2. Stores(c, "enable") /\ next' \in [Schedules -> Nat]
    BY <1>1, <2>1, StoresItsTimer
  <2>3. Renews(c, "enable", "idle") /\ MadeInv'
    BY <1>1, <2>1, <2>2, QuietRenews
  <2> QED
    BY <1>1, <2>1, <2>3, RenewingKeeps
<1>5. CASE Disable(c)
  <2>1. /\ Resumes(c, "disable") /\ Goto(c, "disable", "idle")
        /\ next' = [next EXCEPT ![target[c]] = NoTimer]
        /\ UNCHANGED <<timers, timer, target>>
    BY <1>5 DEF Disable, locals
  <2>2. Stores(c, "disable") /\ next' \in [Schedules -> Nat]
    BY <1>1, <2>1, StoresItsTimer
  <2>3. Renews(c, "disable", "idle") /\ MadeInv'
    BY <1>1, <2>1, <2>2, QuietRenews
  <2> QED
    BY <1>1, <2>1, <2>3, RenewingKeeps
<1>6. CASE PublishBootstrapState(c)
  <2>1. /\ Resumes(c, "state") /\ Goto(c, "state", "list")
        /\ next' = next /\ UNCHANGED <<timers, timer, target>>
    BY <1>6 DEF PublishBootstrapState, stored, locals
  <2>2. Stores(c, "state") /\ next' \in [Schedules -> Nat]
    BY <1>1, <2>1, StoresItsTimer
  <2>3. Renews(c, "state", "list") /\ MadeInv'
    BY <1>1, <2>1, <2>2, QuietRenews
  <2> QED
    BY <1>1, <2>1, <2>3, RenewingKeeps
<1>7. CASE PublishSnapshot(c)
  <2>1. /\ Resumes(c, "list") /\ Goto(c, "list", "idle")
        /\ next' = next /\ UNCHANGED <<timers, timer, target>>
    BY <1>7 DEF PublishSnapshot, stored, locals
  <2>2. Stores(c, "list") /\ next' \in [Schedules -> Nat]
    BY <1>1, <2>1, StoresItsTimer
  <2>3. Renews(c, "list", "idle") /\ MadeInv'
    BY <1>1, <2>1, <2>2, QuietRenews
  <2> QED
    BY <1>1, <2>1, <2>3, RenewingKeeps
<1> QED
  BY <1>2, <1>3, <1>4, <1>5, <1>6, <1>7

LEMMA CallbacksRenew ==
    ASSUME TimerInv, MadeInv, NEW c \in Calls, Added(c) \/ Touched(c) \/ Rearm(c) \/ Rearmed(c)
    PROVE  Renewed
<1>1. /\ TimerTypeOK /\ {"add", "touch", "notify"} \cap (Writers \cup {"disable"}) = {}
      /\ "rearming" \in Writers \cap RegisteringLabels
      /\ {"idle", "touch", "notify", "rearming"} \subseteq Labels
      /\ {"idle", "touch", "notify"} \cap (RegisteringLabels \cup {"disable"}) = {}
      /\ target[c] \in Schedules
  BY LabelsListed DEF TimerInv, TimerTypeOK, Writers, RegisteringLabels
<1>2. CASE Added(c)
  <2>1. /\ Resumes(c, "add") /\ Goto(c, "add", "touch")
        /\ next' = next /\ UNCHANGED <<timers, timer, target>>
    BY <1>2 DEF Added, stored, locals
  <2>2. Stores(c, "add") /\ next' \in [Schedules -> Nat]
    BY <1>1, <2>1, StoresItsTimer
  <2>3. Renews(c, "add", "touch") /\ MadeInv'
    BY <1>1, <2>1, <2>2, QuietRenews
  <2> QED
    BY <1>1, <2>1, <2>3, RenewingKeeps
<1>3. CASE Touched(c)
  <2>1. /\ Resumes(c, "touch") /\ Goto(c, "touch", "notify")
        /\ next' = next /\ UNCHANGED <<timers, timer, target>>
    BY <1>3 DEF Touched, stored, locals
  <2>2. Stores(c, "touch") /\ next' \in [Schedules -> Nat]
    BY <1>1, <2>1, StoresItsTimer
  <2>3. Renews(c, "touch", "notify") /\ MadeInv'
    BY <1>1, <2>1, <2>2, QuietRenews
  <2> QED
    BY <1>1, <2>1, <2>3, RenewingKeeps
\* The timer is still that of the job, so no request has registered the schedule since.
<1>4. CASE Rearm(c)
  <2>1. /\ Resumes(c, "notify") /\ next' = next /\ target' = target
        /\ \/ /\ Register(c, target[c]) /\ Goto(c, "notify", "rearming")
              /\ jobs[target[c]] = timer[c]
           \/ Goto(c, "notify", "idle") /\ UNCHANGED <<timers, timer>>
    BY <1>4 DEF Rearm, stored
  <2>2. Stores(c, "notify") /\ next' \in [Schedules -> Nat]
    BY <1>1, <2>1, StoresItsTimer
  <2>3. CASE /\ Register(c, target[c]) /\ Goto(c, "notify", "rearming")
             /\ jobs[target[c]] = timer[c]
    <3>1. NextInv => \A j \in 1 .. Len(queue) : ~At(j, target[c], {"enabling"})
      BY <2>1, <2>3 DEF NextInv, CallbackIsLast, Resumes
    <3>2. NextInv => Renews(c, "notify", "rearming")
      BY <1>1, <2>1, <2>2, <2>3, <3>1, RegisterRenews
    <3>3. MadeInv'
      <4>1. /\ made \in Nat /\ timer \in [Calls -> Nat] /\ made' = made + 1
            /\ timer' = [timer EXCEPT ![c] = made + 1]
        BY <1>1, <2>3 DEF TimerTypeOK, Register
      <4>2. ASSUME NEW d \in Calls PROVE timer'[d] <= made'
        <5>1. timer[d] \in Nat /\ timer[d] <= made
          BY <4>1 DEF MadeInv
        <5> QED
          BY <4>1, <5>1
      <4> QED
        BY <2>2, <4>2 DEF MadeInv
    <3> QED
      BY <1>1, <2>1, <2>3, <3>2, <3>3, RenewingKeeps
  <2>4. CASE Goto(c, "notify", "idle") /\ UNCHANGED <<timers, timer>>
    <3>1. Renews(c, "notify", "idle") /\ MadeInv'
      BY <1>1, <2>1, <2>2, <2>4, QuietRenews
    <3> QED
      BY <1>1, <2>1, <2>4, <3>1, RenewingKeeps
  <2> QED
    BY <2>1, <2>3, <2>4
<1>5. CASE Rearmed(c)
  <2>1. /\ Resumes(c, "rearming") /\ Goto(c, "rearming", "idle")
        /\ next' = [next EXCEPT ![target[c]] = timer[c]]
        /\ UNCHANGED <<timers, timer, target>>
    BY <1>5 DEF Rearmed, Scheduled, locals
  <2>2. Stores(c, "rearming") /\ next' \in [Schedules -> Nat]
    BY <1>1, <2>1, StoresItsTimer
  <2>3. Renews(c, "rearming", "idle") /\ MadeInv'
    BY <1>1, <2>1, <2>2, QuietRenews
  <2> QED
    BY <1>1, <2>1, <2>3, RenewingKeeps
<1> QED
  BY <1>2, <1>3, <1>4, <1>5

LEMMA RequestsRenew == \A c \in Calls : TimerInv /\ MadeInv /\ Requests(c) => Renewed
<1> SUFFICES ASSUME TimerInv, MadeInv, NEW c \in Calls, NEW s \in Schedules,
                    RequestEnable(c, s) \/ RequestDisable(c, s) \/ RequestState(c, s)
             PROVE  Renewed
  BY DEF Requests
<1>1. PICK label \in {"authorization", "disable", "state"} :
         /\ Request(c, label, s)
         /\ \/ label # "disable" /\ UNCHANGED timers
            \/ label = "disable" /\ jobs' = [jobs EXCEPT ![s] = NoTimer] /\ made' = made
  BY DEF RequestEnable, RequestDisable, RequestState
<1>2. /\ Resumes(c, "idle") /\ Goto(c, "idle", label) /\ label \in Labels
      /\ target' = [target EXCEPT ![c] = s] /\ next' = next /\ timer' = timer
  BY <1>1, BeginsIdle, LabelsListed DEF Request, stored
<1>3. /\ TimerTypeOK /\ target'[c] = s /\ \A d \in Calls : d # c => target'[d] = target[d]
      /\ "idle" \notin Writers \cup {"disable"} /\ label \notin RegisteringLabels
  BY <1>2 DEF TimerInv, TimerTypeOK, Writers, RegisteringLabels
<1>4. Stores(c, "idle") /\ next' \in [Schedules -> Nat]
  BY <1>2, <1>3, StoresItsTimer
<1>5. Renews(c, "idle", label) /\ MadeInv'
  <2>1. CASE label # "disable"
    BY <1>1, <1>2, <1>3, <1>4, <2>1, QuietRenews
  <2>2. CASE label = "disable"
    <3>1. jobs' = [jobs EXCEPT ![s] = NoTimer] /\ jobs \in [Schedules -> Nat] /\ made' = made
      BY <1>1, <1>3, <2>2 DEF TimerTypeOK
    <3>2. \A r \in Schedules : jobs'[r] # NoTimer => r # s /\ jobs'[r] = jobs[r]
      BY <3>1
    <3>3. MadeInv'
      BY <1>2, <1>4, <3>1 DEF MadeInv
    <3> QED
      BY <1>2, <1>3, <1>4, <2>2, <3>2, <3>3 DEF Renews, Stores
  <2> QED
    BY <2>1, <2>2
<1> QED
  BY <1>2, <1>5, RenewingKeeps

LEMMA FireRenews ==
    \A c \in Calls, s \in Schedules : TimerInv /\ MadeInv /\ Fire(c, s) => Renewed
<1> SUFFICES ASSUME TimerInv, MadeInv, NEW c \in Calls, NEW s \in Schedules, Fire(c, s)
             PROVE  Renewed
  OBVIOUS
<1>1. PICK t \in 1 .. made : timer' = [timer EXCEPT ![c] = t]
  BY DEF Fire
<1>2. /\ Resumes(c, "idle") /\ Goto(c, "idle", "add") /\ "add" \in Labels
      /\ target' = [target EXCEPT ![c] = s] /\ next' = next /\ jobs' = jobs /\ made' = made
  BY BeginsIdle, LabelsListed DEF Fire, stored
<1>3. /\ TimerTypeOK /\ \A d \in Calls : d # c => target'[d] = target[d] /\ timer'[d] = timer[d]
      /\ "idle" \notin Writers \cup {"disable"} /\ "add" \notin RegisteringLabels
  BY <1>1, <1>2 DEF TimerInv, TimerTypeOK, Writers, RegisteringLabels
<1>4. Stores(c, "idle") /\ next' \in [Schedules -> Nat]
  BY <1>2, <1>3, StoresItsTimer
<1>5. MadeInv'
  <2>1. \A d \in Calls : timer'[d] <= made
    BY <1>1, <1>3 DEF MadeInv, TimerTypeOK
  <2> QED
    BY <1>2, <1>4, <2>1 DEF MadeInv
<1>6. Renews(c, "idle", "add")
  BY <1>2, <1>3, <1>4 DEF Renews, Stores
<1> QED
  BY <1>2, <1>5, <1>6, RenewingKeeps

\* Without a job there is nothing to store.
LEMMA RestartRenews == \A c \in Calls : TimerInv /\ MadeInv /\ Restart(c) => Renewed
<1> SUFFICES ASSUME TimerInv, MadeInv, NEW c \in Calls, Restart(c) PROVE Renewed
  OBVIOUS
<1>1. /\ jobs' = [s \in Schedules |-> NoTimer]
      /\ pc' = [d \in Calls |-> IF d = c THEN "boot" ELSE "idle"]
      /\ UNCHANGED <<next, made, timer>>
  BY DEF Restart, stored
<1>2. MadeInv'
  BY <1>1 DEF MadeInv
<1>3. \A d \in Calls : pc'[d] \notin {"notify", "touch"}
  BY <1>1
<1>4. \A d \in Calls : CallbackIsLast(d)'
  BY <1>3 DEF CallbackIsLast
<1> QED
  BY <1>1, <1>2, <1>4 DEF Renewed, NextInv

LEMMA OthersRenew == MadeInv /\ (Authorize \/ ReceiveMessage \/ UNCHANGED vars) => Renewed
<1> SUFFICES ASSUME MadeInv, Authorize \/ ReceiveMessage \/ UNCHANGED vars PROVE Renewed
  OBVIOUS
<1>1. UNCHANGED <<next, jobs, made, queue, pc, target, timer>>
  BY DEF Authorize, ReceiveMessage, vars, stored, timers, locals
<1> QED
  BY <1>1 DEF Renewed, MadeInv, NextInv, CallbackIsLast, JobIsWritten, WritesOther, WritesJob, At

LEMMA FailStores == \A c \in Calls : TimerInv /\ MadeInv /\ Fail(c) => MadeInv' /\ failures' # 0
<1> SUFFICES ASSUME TimerInv, MadeInv, NEW c \in Calls, Fail(c) PROVE MadeInv' /\ failures' # 0
  OBVIOUS
<1>1. UNCHANGED <<next, made, timer>> /\ failures' = failures + 1 /\ failures \in Nat
  BY DEF Fail, stored, timers, TimerInv, TimerTypeOK
<1> QED
  BY <1>1 DEF MadeInv

-------------------------------------------------------------------------------

StoredInv == MadeInv /\ (failures = 0 => NextInv)

LEMMA StoredInitially == Init => StoredInv
<1> SUFFICES ASSUME Init PROVE StoredInv
  OBVIOUS
<1>1. MadeInv
  BY DEF Init, MadeInv, NoTimer
<1>2. \A s \in Schedules : jobs[s] = NoTimer
  BY DEF Init
<1>3. \A c \in Calls : pc[c] \notin {"notify", "touch"}
  BY DEF Init
<1> QED
  BY <1>1, <1>2, <1>3 DEF StoredInv, NextInv, CallbackIsLast

LEMMA StoredInductive == Spec => []StoredInv
<1>1. TimerInv /\ StoredInv /\ [Next]_vars => StoredInv'
  <2> SUFFICES ASSUME TimerInv, StoredInv, [Next]_vars PROVE StoredInv'
    OBVIOUS
  <2>0. MadeInv
    BY DEF StoredInv
  <2>1. ASSUME NEW c \in Calls, Fail(c) PROVE StoredInv'
    BY <2>0, <2>1, FailStores DEF StoredInv
  <2>2. ASSUME NEW c \in Calls,
               Step(c) \/ Requests(c) \/ Restart(c) \/ \E s \in Schedules : Fire(c, s)
        PROVE  Renewed /\ failures' = failures
    <3>1. failures' = failures
      BY <2>2 DEF Step, Boot, Restored, Announced, EnableSchedule, Registered, Enable,
             Disable, PublishBootstrapState, PublishSnapshot, Added, Touched, Rearm,
             Rearmed, Requests, RequestEnable, RequestDisable, RequestState, Request,
             Restart, Fire, counters
    <3>2. Renewed
      BY <2>0, <2>2, BootingRenews, HandlersRenew, CallbacksRenew, RequestsRenew,
         RestartRenews, FireRenews DEF Step
    <3> QED
      BY <3>1, <3>2
  <2>3. CASE Authorize \/ ReceiveMessage \/ UNCHANGED vars
    <3>1. failures' = failures
      BY <2>3 DEF Authorize, ReceiveMessage, vars, counters
    <3>2. Renewed
      BY <2>0, <2>3, OthersRenew
    <3> QED
      BY <3>1, <3>2 DEF StoredInv, Renewed
  <2> QED
    BY <2>1, <2>2, <2>3 DEF Next, StoredInv, Renewed
<1> QED
  BY <1>1, StoredInitially, TimerInductive, PTL DEF Spec

\* When nothing is under way, the stored time of the next trigger is that of the timer
\* that is set, unless a write failed, restarts included.
THEOREM ArmedTimeIsStored == Spec => []NextIsArmed
<1>1. TimerInv /\ StoredInv => NextIsArmed
  <2> SUFFICES ASSUME TimerInv, StoredInv, AtRest, failures = 0, NEW a \in armed
               PROVE  next[a[1]] = a[2]
    BY DEF NextIsArmed
  <2>1. a[1] \in Schedules /\ a[2] # NoTimer /\ jobs[a[1]] = a[2] /\ queue \in Seq(Calls)
    BY DEF TimerInv, TimerTypeOK, OneTimer
  <2>2. \A j \in 1 .. Len(queue) : FALSE
    <3> SUFFICES ASSUME NEW j \in 1 .. Len(queue) PROVE FALSE
      OBVIOUS
    <3>1. queue[j] \in Calls /\ pc[queue[j]] \in StoreLabels
      BY <2>1 DEF TimerInv, Queued
    <3> QED
      BY <3>1 DEF AtRest, StoreLabels
  <2>3. JobIsWritten(a[1])
    BY <2>1 DEF StoredInv, NextInv
  <2> QED
    BY <2>1, <2>2, <2>3 DEF JobIsWritten
<1> QED
  BY <1>1, TimerInductive, StoredInductive, PTL

-------------------------------------------------------------------------------
(* What the window shows                                                     *)

BootstrapStates == [type : {"BOOTSTRAP_STATE"}, authorized : BOOLEAN]
Authorizations == [type : {"AUTOMATION_AUTHORIZED"}]
Changes == [type : {"SCHEDULE_ENABLED", "SCHEDULE_DISABLED"}, schedule : Schedules]
Snapshots == [type : {"SCHEDULE_STATE_SNAPSHOT"}, schedules : [Schedules -> BOOLEAN]]
Messages == BootstrapStates \cup Authorizations \cup Changes \cup Snapshots

WindowTypeOK ==
    /\ authorized \in BOOLEAN /\ inbox \in Seq(Messages) /\ restarts \in Nat
    /\ host \in [online : BOOLEAN, authorized : BOOLEAN]
    /\ window \in [Schedules -> {"unknown", "enabled", "disabled"}]

\* What a message says of the authorization, and of schedule s.
Grants(m) == m.type = "AUTOMATION_AUTHORIZED" \/ (m.type = "BOOTSTRAP_STATE" /\ m.authorized)
Refuses(m) == m.type = "BOOTSTRAP_STATE" /\ ~m.authorized
Tells(m, s) ==
    \/ m.type \in {"SCHEDULE_ENABLED", "SCHEDULE_DISABLED"} /\ m.schedule = s
    \/ m.type = "SCHEDULE_STATE_SNAPSHOT"
Says(m, s) ==
    IF m.type = "SCHEDULE_STATE_SNAPSHOT" THEN m.schedules[s] ELSE m.type = "SCHEDULE_ENABLED"

\* A message that refuses what is granted by now is followed by one that grants it.
HostInv ==
    /\ ~authorized => ~host.authorized /\ \A i \in 1 .. Len(inbox) : ~Grants(inbox[i])
    /\ authorized /\ host.online /\ ~host.authorized =>
          \E i \in 1 .. Len(inbox) : Grants(inbox[i])
    /\ authorized => \A i \in 1 .. Len(inbox) : Refuses(inbox[i]) =>
          \E j \in i + 1 .. Len(inbox) : Grants(inbox[j])

\* The last message that tells of s says what is stored, or there is none and the
\* window shows it; unless a handler is between its write and its message.
WillTell(s) == \E c \in Calls : pc[c] = "enable" /\ target[c] = s
IsTold(s) ==
    \E i \in 1 .. Len(inbox) :
        /\ Tells(inbox[i], s) /\ Says(inbox[i], s) = enabled[s]
        /\ \A j \in i + 1 .. Len(inbox) : ~Tells(inbox[j], s)
IsShown(s) ==
    /\ \A i \in 1 .. Len(inbox) : ~Tells(inbox[i], s)
    /\ window[s] # "unknown" => (window[s] = "enabled" <=> enabled[s])
Agrees(s) == WillTell(s) \/ IsTold(s) \/ IsShown(s)

ChannelInv ==
    /\ WindowTypeOK /\ HostInv
    /\ failures = 0 /\ restarts = 0 => \A s \in Schedules : Agrees(s)

LEMMA Sending ==
    ASSUME WindowTypeOK, NEW m \in Messages, inbox' = Append(inbox, m)
    PROVE  /\ inbox' \in Seq(Messages) /\ Len(inbox) \in Nat /\ Len(inbox') = Len(inbox) + 1
           /\ \A i \in 1 .. Len(inbox) : inbox'[i] = inbox[i]
           /\ inbox'[Len(inbox) + 1] = m
  BY DEF WindowTypeOK

LEMMA Receiving ==
    ASSUME WindowTypeOK, inbox # <<>>, inbox' = Tail(inbox)
    PROVE  /\ inbox' \in Seq(Messages) /\ Len(inbox) \in Nat \ {0}
           /\ Len(inbox') = Len(inbox) - 1 /\ Head(inbox) = inbox[1]
           /\ 1 \in 1 .. Len(inbox) /\ inbox[1] \in Messages
           /\ \A i \in 1 .. Len(inbox') : inbox'[i] = inbox[i + 1]
  BY DEF WindowTypeOK

\* A message may grant what is granted only, and refuse what is not.
LEMMA SendingKeepsHost ==
    ASSUME WindowTypeOK, HostInv, NEW m \in Messages, inbox' = Append(inbox, m),
           host' = host, authorized' = authorized \/ (authorized' = TRUE /\ Grants(m)),
           Grants(m) => authorized', Refuses(m) => ~authorized'
    PROVE  HostInv'
<1> PICK n : n = Len(inbox)
  OBVIOUS
<1>1. /\ n \in Nat /\ Len(inbox') = n + 1 /\ Len(inbox) = n
      /\ \A i \in 1 .. n : inbox'[i] = inbox[i] /\ i \in 1 .. n + 1
      /\ inbox'[n + 1] = m /\ n + 1 \in 1 .. n + 1
  BY Sending
<1>2. \A i \in 1 .. n + 1 : i \in 1 .. n \/ i = n + 1
  BY <1>1
<1>3. ~authorized' => ~host'.authorized /\ \A i \in 1 .. Len(inbox') : ~Grants(inbox'[i])
  BY <1>1, <1>2 DEF HostInv
<1>4. authorized' /\ host'.online /\ ~host'.authorized =>
         \E i \in 1 .. Len(inbox') : Grants(inbox'[i])
  BY <1>1 DEF HostInv
<1>5. ASSUME authorized', NEW i \in 1 .. Len(inbox'), Refuses(inbox'[i])
      PROVE  \E j \in i + 1 .. Len(inbox') : Grants(inbox'[j])
  <2>1. i \in 1 .. n
    BY <1>1, <1>2, <1>5
  <2>2. CASE authorized
    <3>1. PICK j \in i + 1 .. n : Grants(inbox[j])
      BY <1>1, <1>5, <2>1, <2>2 DEF HostInv
    <3>2. j \in 1 .. n /\ j \in i + 1 .. n + 1
      BY <1>1, <2>1
    <3> QED
      BY <1>1, <3>1, <3>2
  <2>3. CASE Grants(m)
    <3>1. n + 1 \in i + 1 .. n + 1
      BY <1>1, <2>1
    <3> QED
      BY <1>1, <2>3, <3>1
  <2> QED
    BY <1>5, <2>2, <2>3
<1> QED
  BY <1>3, <1>4, <1>5 DEF HostInv

LEMMA QuietKeepsHost == HostInv /\ UNCHANGED <<authorized, inbox, host>> => HostInv'
  BY DEF HostInv

\* Nothing new of s is stored or told.
LEMMA SilenceKeeps ==
    ASSUME WindowTypeOK, NEW s \in Schedules, Agrees(s), WillTell(s) => WillTell(s)',
           enabled'[s] = enabled[s], window'[s] = window[s],
           \/ inbox' = inbox
           \/ \E m \in Messages : ~Tells(m, s) /\ inbox' = Append(inbox, m)
    PROVE  Agrees(s)'
<1>1. CASE inbox' = inbox
  BY <1>1 DEF Agrees, IsTold, IsShown
<1>2. ASSUME NEW m \in Messages, ~Tells(m, s), inbox' = Append(inbox, m) PROVE Agrees(s)'
  <2> PICK n : n = Len(inbox)
    OBVIOUS
  <2>1. /\ n \in Nat /\ Len(inbox') = n + 1 /\ Len(inbox) = n
        /\ \A i \in 1 .. n : inbox'[i] = inbox[i] /\ i \in 1 .. n + 1
        /\ inbox'[n + 1] = m
    BY <1>2, Sending
  <2>2. \A i \in 1 .. n + 1 : i \in 1 .. n \/ i = n + 1
    BY <2>1
  <2>3. CASE IsShown(s)
    BY <1>2, <2>1, <2>2, <2>3 DEF Agrees, IsShown
  <2>4. CASE IsTold(s)
    <3>1. PICK i \in 1 .. n : /\ Tells(inbox[i], s) /\ Says(inbox[i], s) = enabled[s]
                              /\ \A j \in i + 1 .. n : ~Tells(inbox[j], s)
      BY <2>1, <2>4 DEF IsTold
    <3>2. \A j \in i + 1 .. n + 1 : (j \in i + 1 .. n /\ j \in 1 .. n) \/ j = n + 1
      BY <2>1
    <3>3. \A j \in i + 1 .. n + 1 : ~Tells(inbox'[j], s)
      BY <1>2, <2>1, <3>1, <3>2
    <3>4. /\ i \in 1 .. Len(inbox') /\ Tells(inbox'[i], s)
          /\ Says(inbox'[i], s) = enabled'[s]
      BY <2>1, <3>1
    <3>5. IsTold(s)'
      BY <2>1, <3>3, <3>4 DEF IsTold
    <3> QED
      BY <3>5 DEF Agrees
  <2> QED
    BY <2>3, <2>4 DEF Agrees
<1> QED
  BY <1>1, <1>2

\* The window is told what is stored of s.
LEMMA TellingAgrees ==
    ASSUME WindowTypeOK, NEW s \in Schedules, NEW m \in Messages, inbox' = Append(inbox, m),
           Tells(m, s), Says(m, s) = enabled'[s]
    PROVE  Agrees(s)'
<1> PICK n : n = Len(inbox)
  OBVIOUS
<1>1. n \in Nat /\ Len(inbox') = n + 1 /\ inbox'[n + 1] = m
  BY Sending
<1>2. n + 1 \in 1 .. n + 1 /\ \A j : j \notin (n + 1) + 1 .. n + 1
  BY <1>1
<1>3. IsTold(s)'
  BY <1>1, <1>2 DEF IsTold
<1> QED
  BY <1>3 DEF Agrees

LEMMA MessageKinds ==
    ASSUME NEW m \in Messages
    PROVE  /\ m.type \in {"BOOTSTRAP_STATE", "AUTOMATION_AUTHORIZED", "SCHEDULE_ENABLED",
                          "SCHEDULE_DISABLED", "SCHEDULE_STATE_SNAPSHOT"}
           /\ m.type = "BOOTSTRAP_STATE" => m.authorized \in BOOLEAN
           /\ m.type \in {"SCHEDULE_ENABLED", "SCHEDULE_DISABLED"} => m.schedule \in Schedules
           /\ m.type = "SCHEDULE_STATE_SNAPSHOT" => m.schedules \in [Schedules -> BOOLEAN]
  BY DEF Messages, BootstrapStates, Authorizations, Changes, Snapshots

\* The window has applied what it was told of s.
LEMMA AppliedShows ==
    ASSUME WindowTypeOK, NEW m \in Messages
    PROVE  /\ Applied(m) \in [Schedules -> {"unknown", "enabled", "disabled"}]
           /\ \A s \in Schedules : ~Tells(m, s) => Applied(m)[s] = window[s]
           /\ \A s \in Schedules : Tells(m, s) /\ Applied(m)[s] # "unknown" =>
                 (Applied(m)[s] = "enabled" <=> Says(m, s))
<1>1. window \in [Schedules -> {"unknown", "enabled", "disabled"}]
  BY DEF WindowTypeOK
<1>2. CASE m.type \in {"SCHEDULE_ENABLED", "SCHEDULE_DISABLED"}
  <2>1. m.schedule \in Schedules /\ m.type # "SCHEDULE_STATE_SNAPSHOT"
    BY <1>2, MessageKinds
  <2> DEFINE shown == CASE window[m.schedule] = "unknown" -> window[m.schedule]
                        [] m.type = "SCHEDULE_ENABLED" -> "enabled"
                        [] OTHER -> "disabled"
  <2>2. Applied(m) = [window EXCEPT ![m.schedule] = shown]
    BY <1>2 DEF Applied
  <2>3. /\ shown \in {"unknown", "enabled", "disabled"}
        /\ shown # "unknown" => (shown = "enabled" <=> m.type = "SCHEDULE_ENABLED")
    BY <1>1, <1>2, <2>1
  <2> HIDE DEF shown
  <2> QED
    BY <1>1, <1>2, <2>1, <2>2, <2>3 DEF Tells, Says
<1>3. CASE m.type = "SCHEDULE_STATE_SNAPSHOT"
  <2>1. Applied(m) = [s \in Schedules |-> IF m.schedules[s] THEN "enabled" ELSE "disabled"]
    BY <1>3 DEF Applied
  <2> QED
    BY <1>3, <2>1 DEF Tells, Says
<1>4. CASE m.type \in {"BOOTSTRAP_STATE", "AUTOMATION_AUTHORIZED"}
  <2>1. Applied(m) = window
    BY <1>4 DEF Applied
  <2> QED
    BY <1>1, <1>4, <2>1 DEF Tells
<1> QED
  BY <1>2, <1>3, <1>4, MessageKinds

LEMMA ReceivingKeepsHost == WindowTypeOK /\ HostInv /\ ReceiveMessage => HostInv' /\ WindowTypeOK'
<1> SUFFICES ASSUME WindowTypeOK, HostInv, ReceiveMessage PROVE HostInv' /\ WindowTypeOK'
  OBVIOUS
<1> PICK n : n = Len(inbox)
  OBVIOUS
<1> PICK m : m = inbox[1]
  OBVIOUS
<1>1. /\ inbox' \in Seq(Messages) /\ n \in Nat \ {0} /\ Len(inbox') = n - 1 /\ Len(inbox) = n
      /\ Head(inbox) = m /\ 1 \in 1 .. n /\ m \in Messages
      /\ \A i \in 1 .. n - 1 : inbox'[i] = inbox[i + 1]
  BY Receiving DEF ReceiveMessage
<1>2. /\ authorized' = authorized /\ window' = Applied(m) /\ restarts' = restarts
      /\ host' = CASE m.type = "BOOTSTRAP_STATE" -> [online |-> TRUE, authorized |-> m.authorized]
                   [] m.type = "AUTOMATION_AUTHORIZED" -> [host EXCEPT !.authorized = TRUE]
                   [] OTHER -> host
  BY <1>1 DEF ReceiveMessage, stored, counters
<1>3. host \in [online : BOOLEAN, authorized : BOOLEAN] /\ authorized \in BOOLEAN
      /\ restarts \in Nat
  BY DEF WindowTypeOK
<1>4. /\ host' \in [online : BOOLEAN, authorized : BOOLEAN]
      /\ Grants(m) => host'.authorized
      /\ host'.authorized => Grants(m) \/ host.authorized
      /\ ~Grants(m) /\ ~Refuses(m) => host' = host
  BY <1>1, <1>2, <1>3, MessageKinds DEF Grants, Refuses
<1>5. WindowTypeOK'
  BY <1>1, <1>2, <1>3, <1>4, AppliedShows DEF WindowTypeOK
<1>6. ASSUME NEW i \in 1 .. n - 1 PROVE i + 1 \in 1 .. n /\ inbox'[i] = inbox[i + 1]
  BY <1>1
<1>7. ASSUME NEW j \in 1 .. n, j # 1
      PROVE  j - 1 \in 1 .. n - 1 /\ inbox'[j - 1] = inbox[j]
  <2>1. j - 1 \in 1 .. n - 1 /\ (j - 1) + 1 = j
    BY <1>1, <1>7
  <2> QED
    BY <1>1, <2>1
<1>8. CASE ~authorized
  <2>1. ~host.authorized /\ \A i \in 1 .. n : ~Grants(inbox[i])
    BY <1>1, <1>8 DEF HostInv
  <2>2. ~host'.authorized
    BY <1>1, <1>4, <2>1
  <2>3. \A i \in 1 .. n - 1 : ~Grants(inbox'[i])
    BY <1>6, <2>1
  <2> QED
    BY <1>1, <1>2, <1>5, <1>8, <2>2, <2>3 DEF HostInv
<1>9. CASE authorized
  <2>1. ASSUME host'.online, ~host'.authorized PROVE \E i \in 1 .. n - 1 : Grants(inbox'[i])
    <3>1. ~Grants(m)
      BY <1>4, <2>1
    <3>2. CASE Refuses(m)
      <4>1. PICK j \in 1 + 1 .. n : Grants(inbox[j])
        BY <1>1, <1>9, <3>2 DEF HostInv
      <4>2. j \in 1 .. n /\ j # 1
        BY <1>1
      <4> QED
        BY <1>7, <4>1, <4>2
    <3>3. CASE ~Refuses(m)
      <4>1. host' = host
        BY <1>4, <3>1, <3>3
      <4>2. PICK j \in 1 .. n : Grants(inbox[j])
        BY <1>1, <1>9, <2>1, <4>1 DEF HostInv
      <4> QED
        BY <1>7, <3>1, <4>2
    <3> QED
      BY <3>2, <3>3
  <2>2. ASSUME NEW i \in 1 .. n - 1, Refuses(inbox'[i])
        PROVE  \E j \in i + 1 .. n - 1 : Grants(inbox'[j])
    <3>1. i + 1 \in 1 .. n /\ Refuses(inbox[i + 1])
      BY <1>6, <2>2
    <3>2. PICK j \in (i + 1) + 1 .. n : Grants(inbox[j])
      BY <1>1, <1>9, <3>1 DEF HostInv
    <3>3. j \in 1 .. n /\ j # 1 /\ j - 1 \in i + 1 .. n - 1
      BY <1>1
    <3> QED
      BY <1>7, <3>2, <3>3
  <2> QED
    BY <1>1, <1>2, <1>5, <1>9, <2>1, <2>2 DEF HostInv
<1> QED
  BY <1>8, <1>9

LEMMA ReceivingAgrees ==
    ASSUME WindowTypeOK, ReceiveMessage, NEW s \in Schedules, Agrees(s)
    PROVE  Agrees(s)'
<1> PICK n : n = Len(inbox)
  OBVIOUS
<1> PICK m : m = inbox[1]
  OBVIOUS
<1>1. /\ n \in Nat \ {0} /\ Len(inbox') = n - 1 /\ Len(inbox) = n
      /\ Head(inbox) = m /\ 1 \in 1 .. n /\ m \in Messages
      /\ \A i \in 1 .. n - 1 : inbox'[i] = inbox[i + 1]
  BY Receiving DEF ReceiveMessage
<1>2. window' = Applied(m) /\ UNCHANGED <<enabled, pc, target>>
  BY <1>1 DEF ReceiveMessage, stored, locals
<1>3. \A i \in 1 .. n - 1 : i + 1 \in 1 .. n /\ inbox'[i] = inbox[i + 1]
  BY <1>1
<1>4. CASE WillTell(s)
  BY <1>2, <1>4 DEF WillTell, Agrees
<1>5. CASE IsShown(s)
  <2>1. ~Tells(m, s) /\ \A i \in 1 .. n - 1 : ~Tells(inbox'[i], s)
    BY <1>1, <1>3, <1>5 DEF IsShown
  <2>2. window'[s] = window[s]
    BY <1>1, <1>2, <2>1, AppliedShows
  <2> QED
    BY <1>1, <1>2, <1>5, <2>1, <2>2 DEF IsShown, Agrees
<1>6. CASE IsTold(s)
  <2>1. PICK i \in 1 .. n : /\ Tells(inbox[i], s) /\ Says(inbox[i], s) = enabled[s]
                            /\ \A j \in i + 1 .. n : ~Tells(inbox[j], s)
    BY <1>1, <1>6 DEF IsTold
  <2>2. CASE i = 1
    <3>1. ASSUME NEW j \in 1 .. n - 1 PROVE ~Tells(inbox'[j], s)
      <4>1. j + 1 \in i + 1 .. n
        BY <1>1, <2>2
      <4> QED
        BY <1>3, <2>1, <4>1
    <3>2. window'[s] # "unknown" => (window'[s] = "enabled" <=> enabled'[s])
      BY <1>1, <1>2, <2>1, <2>2, AppliedShows
    <3> QED
      BY <1>1, <3>1, <3>2 DEF IsShown, Agrees
  <2>3. CASE i # 1
    <3>1. PICK q \in 1 .. n - 1 : i = q + 1
      <4>1. i - 1 \in 1 .. n - 1 /\ i = (i - 1) + 1
        BY <1>1, <2>3
      <4> QED
        BY <4>1
    <3>2. ASSUME NEW j \in q + 1 .. n - 1 PROVE ~Tells(inbox'[j], s)
      <4>1. j + 1 \in i + 1 .. n /\ j \in 1 .. n - 1
        BY <1>1, <3>1
      <4> QED
        BY <1>3, <2>1, <4>1
    <3>3. Tells(inbox'[q], s) /\ Says(inbox'[q], s) = enabled'[s]
      BY <1>2, <1>3, <2>1, <3>1
    <3> QED
      BY <1>1, <3>2, <3>3 DEF IsTold, Agrees
  <2> QED
    BY <2>2, <2>3
<1> QED
  BY <1>4, <1>5, <1>6 DEF Agrees

\* A step that stores nothing new, and says nothing of a schedule; what it says of the
\* authorization, if anything, is what is stored.
Mild(m) ==
    /\ m \in Messages /\ \A s \in Schedules : ~Tells(m, s)
    /\ Grants(m) => authorized
    /\ Refuses(m) => ~authorized

LEMMA MildKeeps ==
    ASSUME TimerInv, ChannelInv, NEW c \in Calls, NEW label, NEW then,
           Resumes(c, label), label # "enable", Goto(c, label, then),
           enabled' = enabled, UNCHANGED <<authorized, failures, restarts>>,
           UNCHANGED channel \/ \E m : Mild(m) /\ Send(m),
           \A d \in Calls : d # c => target'[d] = target[d]
    PROVE  ChannelInv'
<1>1. /\ WindowTypeOK /\ HostInv /\ pc[c] = label /\ pc \in [Calls -> Labels]
      /\ pc' = [pc EXCEPT ![c] = then] /\ UNCHANGED <<window, host>>
  BY DEF ChannelInv, TimerInv, TimerTypeOK, Resumes, Goto, Send, channel
<1>2. \A s \in Schedules : WillTell(s) => WillTell(s)'
  BY <1>1 DEF WillTell
<1>3. CASE inbox' = inbox
  <2>1. WindowTypeOK' /\ HostInv'
    BY <1>1, <1>3, QuietKeepsHost DEF WindowTypeOK
  <2>2. \A s \in Schedules : Agrees(s) => Agrees(s)'
    BY <1>1, <1>2, <1>3, SilenceKeeps
  <2> QED
    BY <2>1, <2>2 DEF ChannelInv
<1>4. ASSUME NEW m, Mild(m), Send(m) PROVE ChannelInv'
  <2>1. m \in Messages /\ inbox' = Append(inbox, m) /\ \A s \in Schedules : ~Tells(m, s)
    BY <1>4 DEF Mild, Send
  <2>2. inbox' \in Seq(Messages)
    BY <1>1, <2>1, Sending
  <2>3. WindowTypeOK'
    BY <1>1, <2>2 DEF WindowTypeOK
  <2>4. HostInv'
    BY <1>1, <1>4, <2>1, SendingKeepsHost DEF Mild
  <2>5. \A s \in Schedules : Agrees(s) => Agrees(s)'
    BY <1>1, <1>2, <2>1, SilenceKeeps
  <2> QED
    BY <2>3, <2>4, <2>5 DEF ChannelInv
<1> QED
  BY <1>3, <1>4 DEF channel

\* A step that stores what is stored of every schedule but that of its call; which it
\* tells of, or will.
LEMMA WritingKeeps ==
    ASSUME TimerInv, ChannelInv, NEW c \in Calls, NEW label, NEW then,
           Resumes(c, label), Goto(c, label, then),
           UNCHANGED <<authorized, target, window, host, failures, restarts>>,
           \A s \in Schedules : s # target[c] => enabled'[s] = enabled[s],
           \/ inbox' = inbox /\ then = "enable"
           \/ \E m \in Changes : /\ m.schedule = target[c] /\ inbox' = Append(inbox, m)
                                 /\ Says(m, target[c]) = enabled'[target[c]]
    PROVE  ChannelInv'
<1>1. /\ WindowTypeOK /\ HostInv /\ pc \in [Calls -> Labels] /\ target[c] \in Schedules
      /\ pc' = [pc EXCEPT ![c] = then]
  BY DEF ChannelInv, TimerInv, TimerTypeOK, Goto
<1>2. ASSUME NEW s \in Schedules, s # target[c], WillTell(s) PROVE WillTell(s)'
  BY <1>1, <1>2 DEF WillTell
<1>3. CASE inbox' = inbox /\ then = "enable"
  <2>1. WindowTypeOK' /\ HostInv'
    BY <1>1, <1>3, QuietKeepsHost DEF WindowTypeOK
  <2>2. \A s \in Schedules : s # target[c] => (Agrees(s) => Agrees(s)')
    BY <1>1, <1>2, <1>3, SilenceKeeps
  <2>3. \A s \in Schedules : s = target[c] => Agrees(s)'
    BY <1>1, <1>3 DEF Agrees, WillTell
  <2> QED
    BY <2>1, <2>2, <2>3 DEF ChannelInv
<1>4. ASSUME NEW m \in Changes, m.schedule = target[c],
             Says(m, target[c]) = enabled'[target[c]], inbox' = Append(inbox, m)
      PROVE  ChannelInv'
  <2>1. /\ m \in Messages /\ m.type \in {"SCHEDULE_ENABLED", "SCHEDULE_DISABLED"}
        /\ ~Grants(m) /\ ~Refuses(m)
        /\ \A s \in Schedules : Tells(m, s) <=> s = target[c]
    BY <1>4 DEF Messages, Changes, Grants, Refuses, Tells
  <2>2. inbox' \in Seq(Messages)
    BY <1>1, <1>4, <2>1, Sending
  <2>3. WindowTypeOK'
    BY <1>1, <2>2 DEF WindowTypeOK
  <2>4. HostInv'
    BY <1>1, <1>4, <2>1, SendingKeepsHost
  <2>5. ASSUME NEW s \in Schedules, s = target[c] PROVE Agrees(s)'
    BY <1>1, <1>4, <2>1, <2>5, TellingAgrees
  <2>6. ASSUME NEW s \in Schedules, s # target[c], Agrees(s) PROVE Agrees(s)'
    BY <1>1, <1>2, <1>4, <2>1, <2>6, SilenceKeeps
  <2> QED
    BY <2>3, <2>4, <2>5, <2>6 DEF ChannelInv
<1> QED
  BY <1>3, <1>4

\* onScheduled of the restoring and of a callback enables what is enabled.
LEMMA ScheduledAgain ==
    ASSUME TimerInv, failures = 0, NEW c \in Calls, Restored(c) \/ Rearmed(c)
    PROVE  enabled' = enabled
<1>1. /\ enabled \in [Schedules -> BOOLEAN] /\ target[c] \in Schedules /\ queue \in Seq(Calls)
      /\ JobsAreKept /\ Restoring /\ enabled' = [enabled EXCEPT ![target[c]] = TRUE]
  BY DEF TimerInv, TimerTypeOK, Restored, Rearmed, Scheduled
<1>2. enabled[target[c]]
  <2>1. CASE Restored(c)
    BY <1>1, <2>1 DEF Restored, Resumes, Restoring
  <2>2. CASE Rearmed(c)
    <3>1. pc[c] = "rearming" /\ queue # <<>> /\ c = Head(queue)
      BY <2>2 DEF Rearmed, Resumes, StoreLabels
    <3>2. 1 \in 1 .. Len(queue) /\ c = queue[1]
      BY <1>1, <3>1
    <3>3. Kept(1, target[c])
      BY <1>1, <3>1, <3>2 DEF JobsAreKept
    <3> QED
      BY <3>3 DEF Kept
  <2> QED
    BY <2>1, <2>2
<1> QED
  BY <1>1, <1>2

\* A failed write of the schedules leaves what is known of the authorization.
LEMMA OnlyHostKept ==
    ASSUME WindowTypeOK, HostInv, failures' # 0 \/ restarts' # 0, restarts' \in Nat,
           UNCHANGED <<authorized, inbox, window, host>>
    PROVE  ChannelInv'
<1>1. WindowTypeOK' /\ HostInv'
  BY QuietKeepsHost DEF WindowTypeOK
<1> QED
  BY <1>1 DEF ChannelInv

LEMMA BootingAgrees ==
    ASSUME TimerInv, ChannelInv, NEW c \in Calls,
           Boot(c) \/ Restored(c) \/ Rearmed(c) \/ Announced(c)
    PROVE  ChannelInv'
<1>1. TimerTypeOK /\ WindowTypeOK /\ HostInv
  BY DEF TimerInv, ChannelInv
<1>2. ASSUME NEW label, NEW remaining, RestoreNext(c, label, remaining), enabled' = enabled,
             label # "enable", Resumes(c, label),
             UNCHANGED <<authorized, failures, restarts, channel>>
      PROVE  ChannelInv'
  <2>1. CASE Goto(c, label, "announce") /\ UNCHANGED target
    BY <1>2, <2>1, MildKeeps
  <2>2. ASSUME NEW s, target' = [target EXCEPT ![c] = s], Goto(c, label, "restoring")
        PROVE  ChannelInv'
    <3>1. \A d \in Calls : d # c => target'[d] = target[d]
      BY <1>1, <2>2 DEF TimerTypeOK
    <3> QED
      BY <1>2, <2>2, <3>1, MildKeeps
  <2> QED
    BY <1>2, <2>1, <2>2 DEF RestoreNext, locals
<1>3. CASE Boot(c)
  <2>1. /\ Resumes(c, "boot") /\ UNCHANGED <<enabled, authorized, failures, restarts, channel>>
        /\ RestoreNext(c, "boot", {s \in Schedules : authorized /\ enabled[s]})
    BY <1>3 DEF Boot, stored, counters
  <2> QED
    BY <1>2, <2>1
<1>4. CASE Restored(c) \/ Rearmed(c)
  <2>1. UNCHANGED <<authorized, failures, restarts, channel>>
    BY <1>4 DEF Restored, Rearmed, Scheduled, counters
  <2>2. CASE failures # 0
    BY <1>1, <2>1, <2>2, OnlyHostKept DEF WindowTypeOK, channel
  <2>3. CASE failures = 0 /\ Restored(c)
    <3>1. Resumes(c, "restoring") /\ RestoreNext(c, "restoring", todo) /\ enabled' = enabled
      BY <2>3, ScheduledAgain DEF Restored
    <3> QED
      BY <1>2, <2>1, <3>1
  <2>4. CASE failures = 0 /\ Rearmed(c)
    <3>1. /\ Resumes(c, "rearming") /\ Goto(c, "rearming", "idle") /\ enabled' = enabled
          /\ target' = target
      BY <2>4, ScheduledAgain DEF Rearmed, locals
    <3> QED
      BY <2>1, <3>1, MildKeeps
  <2> QED
    BY <1>1, <1>4, <2>2, <2>3, <2>4
<1>5. CASE Announced(c)
  <2>1. /\ Resumes(c, "announce") /\ Goto(c, "announce", "idle") /\ Send(BootstrapState)
        /\ UNCHANGED <<enabled, authorized, failures, restarts, target>>
    BY <1>5 DEF Announced, stored, locals, counters
  <2>2. Mild(BootstrapState)
    BY <1>1 DEF BootstrapState, Mild, Messages, BootstrapStates, WindowTypeOK, Tells, Grants,
               Refuses
  <2> QED
    BY <2>1, <2>2, MildKeeps
<1> QED
  BY <1>3, <1>4, <1>5

LEMMA HandlersAgree ==
    ASSUME TimerInv, ChannelInv, NEW c \in Calls,
           \/ EnableSchedule(c) \/ Registered(c) \/ Enable(c) \/ Disable(c)
           \/ PublishBootstrapState(c) \/ PublishSnapshot(c)
    PROVE  ChannelInv'
<1>1. /\ TimerTypeOK /\ WindowTypeOK /\ HostInv /\ enabled \in [Schedules -> BOOLEAN]
      /\ target[c] \in Schedules
  BY DEF TimerInv, TimerTypeOK, ChannelInv
<1>2. CASE EnableSchedule(c)
  <2>1. /\ Resumes(c, "authorization")
        /\ Goto(c, "authorization", "enabling") \/ Goto(c, "authorization", "idle")
        /\ UNCHANGED <<enabled, authorized, failures, restarts, target, channel>>
    BY <1>2 DEF EnableSchedule, stored, counters
  <2> QED
    BY <2>1, MildKeeps
<1>3. CASE Registered(c)
  <2>1. /\ Resumes(c, "enabling") /\ Goto(c, "enabling", "enable")
        /\ enabled' = [enabled EXCEPT ![target[c]] = TRUE]
        /\ UNCHANGED <<authorized, failures, restarts, target, inbox, window, host>>
    BY <1>3 DEF Registered, Scheduled, locals, counters, channel
  <2>2. \A s \in Schedules : s # target[c] => enabled'[s] = enabled[s]
    BY <1>1, <2>1
  <2> QED
    BY <2>1, <2>2, WritingKeeps
<1>4. CASE Enable(c)
  <2> DEFINE m == [type |-> "SCHEDULE_ENABLED", schedule |-> target[c]]
  <2>1. /\ Resumes(c, "enable") /\ Goto(c, "enable", "idle")
        /\ enabled' = [enabled EXCEPT ![target[c]] = TRUE]
        /\ UNCHANGED <<authorized, failures, restarts, target, window, host>>
        /\ inbox' = Append(inbox, m)
    BY <1>4 DEF Enable, Send, locals, counters
  <2>2. /\ \A s \in Schedules : s # target[c] => enabled'[s] = enabled[s]
        /\ enabled'[target[c]] = TRUE
    BY <1>1, <2>1
  <2>3. m \in Changes /\ m.schedule = target[c] /\ Says(m, target[c]) = TRUE
    BY <1>1 DEF Changes, Says
  <2> HIDE DEF m
  <2> QED
    BY <2>1, <2>2, <2>3, WritingKeeps
<1>5. CASE Disable(c)
  <2> DEFINE m == [type |-> "SCHEDULE_DISABLED", schedule |-> target[c]]
  <2>1. /\ Resumes(c, "disable") /\ Goto(c, "disable", "idle")
        /\ enabled' = [enabled EXCEPT ![target[c]] = FALSE]
        /\ UNCHANGED <<authorized, failures, restarts, target, window, host>>
        /\ inbox' = Append(inbox, m)
    BY <1>5 DEF Disable, Send, locals, counters
  <2>2. /\ \A s \in Schedules : s # target[c] => enabled'[s] = enabled[s]
        /\ enabled'[target[c]] = FALSE
    BY <1>1, <2>1
  <2>3. m \in Changes /\ m.schedule = target[c] /\ Says(m, target[c]) = FALSE
    BY <1>1 DEF Changes, Says
  <2> HIDE DEF m
  <2> QED
    BY <2>1, <2>2, <2>3, WritingKeeps
<1>6. CASE PublishBootstrapState(c)
  <2>1. /\ Resumes(c, "state") /\ Goto(c, "state", "list") /\ Send(BootstrapState)
        /\ UNCHANGED <<enabled, authorized, failures, restarts, target>>
    BY <1>6 DEF PublishBootstrapState, stored, locals, counters
  <2>2. Mild(BootstrapState)
    BY <1>1 DEF BootstrapState, Mild, Messages, BootstrapStates, WindowTypeOK, Tells, Grants,
               Refuses
  <2> QED
    BY <2>1, <2>2, MildKeeps
<1>7. CASE PublishSnapshot(c)
  <2> DEFINE m == [type |-> "SCHEDULE_STATE_SNAPSHOT", schedules |-> enabled]
  <2>1. /\ UNCHANGED <<enabled, authorized, failures, restarts, window, host>>
        /\ inbox' = Append(inbox, m)
    BY <1>7 DEF PublishSnapshot, Send, stored, counters
  <2>2. /\ m \in Messages /\ ~Grants(m) /\ ~Refuses(m)
        /\ \A s \in Schedules : Tells(m, s) /\ Says(m, s) = enabled[s]
    BY <1>1 DEF Messages, Snapshots, Grants, Refuses, Tells, Says
  <2> HIDE DEF m
  <2>3. inbox' \in Seq(Messages)
    BY <1>1, <2>1, <2>2, Sending
  <2>4. WindowTypeOK'
    BY <1>1, <2>1, <2>3 DEF WindowTypeOK
  <2>5. HostInv'
    BY <1>1, <2>1, <2>2, SendingKeepsHost
  <2>6. \A s \in Schedules : Agrees(s)'
    BY <1>1, <2>1, <2>2, TellingAgrees
  <2> QED
    BY <2>4, <2>5, <2>6 DEF ChannelInv
<1> QED
  BY <1>2, <1>3, <1>4, <1>5, <1>6, <1>7

LEMMA CallbacksAgree ==
    ASSUME TimerInv, ChannelInv, NEW c \in Calls,
           \/ Added(c) \/ Touched(c) \/ Rearm(c) \/ Requests(c)
           \/ \E s \in Schedules : Fire(c, s)
    PROVE  ChannelInv'
<1>1. PICK label \in {"add", "touch", "notify", "idle"},
           then \in {"touch", "notify", "rearming", "idle", "add", "authorization",
                     "disable", "state"} :
         /\ Resumes(c, label) /\ Goto(c, label, then)
         /\ target' = target \/ \E s \in Schedules : target' = [target EXCEPT ![c] = s]
         /\ UNCHANGED <<enabled, authorized, failures, restarts, channel>>
  <2>1. CASE Added(c)
    BY <2>1 DEF Added, stored, locals, counters
  <2>2. CASE Touched(c)
    BY <2>2 DEF Touched, stored, locals, counters
  <2>3. CASE Rearm(c)
    BY <2>3 DEF Rearm, stored, counters
  <2>4. CASE Requests(c)
    BY <2>4, BeginsIdle DEF Requests, RequestEnable, RequestDisable, RequestState, Request, stored
  <2>5. CASE \E s \in Schedules : Fire(c, s)
    BY <2>5, BeginsIdle DEF Fire, stored
  <2> QED
    BY <2>1, <2>2, <2>3, <2>4, <2>5
<1>2. \A d \in Calls : d # c => target'[d] = target[d]
  BY <1>1 DEF TimerInv, TimerTypeOK
<1> QED
  BY <1>1, <1>2, MildKeeps

LEMMA FaultsAgree ==
    ASSUME TimerInv, ChannelInv, NEW c \in Calls, Fail(c) \/ Restart(c)
    PROVE  ChannelInv'
<1>1. /\ WindowTypeOK /\ HostInv /\ failures \in Nat /\ restarts \in Nat
      /\ UNCHANGED <<authorized, inbox, window, host>>
      /\ \/ failures' = failures + 1 /\ restarts' = restarts
         \/ failures' = failures /\ restarts' = restarts + 1
  BY DEF TimerInv, TimerTypeOK, ChannelInv, WindowTypeOK, Fail, Restart, channel, stored
<1> QED
  BY <1>1, OnlyHostKept

LEMMA OthersAgree ==
    ASSUME ChannelInv, Authorize \/ ReceiveMessage \/ UNCHANGED vars
    PROVE  ChannelInv'
<1>1. WindowTypeOK /\ HostInv
  BY DEF ChannelInv
<1>2. CASE Authorize
  <2> DEFINE m == [type |-> "AUTOMATION_AUTHORIZED"]
  <2>1. /\ authorized' = TRUE /\ inbox' = Append(inbox, m)
        /\ UNCHANGED <<enabled, pc, target, failures, restarts, window, host>>
    BY <1>2 DEF Authorize, Send, locals
  <2>2. /\ m \in Messages /\ Grants(m) /\ ~Refuses(m) /\ \A s \in Schedules : ~Tells(m, s)
    BY DEF Messages, Authorizations, Grants, Refuses, Tells
  <2> HIDE DEF m
  <2>3. inbox' \in Seq(Messages)
    BY <1>1, <2>1, <2>2, Sending
  <2>4. WindowTypeOK'
    BY <1>1, <2>1, <2>3 DEF WindowTypeOK
  <2>5. HostInv'
    BY <1>1, <2>1, <2>2, SendingKeepsHost
  <2>6. \A s \in Schedules : WillTell(s) => WillTell(s)'
    BY <2>1 DEF WillTell
  <2>7. \A s \in Schedules : Agrees(s) => Agrees(s)'
    BY <1>1, <2>1, <2>2, <2>6, SilenceKeeps
  <2> QED
    BY <2>1, <2>4, <2>5, <2>7 DEF ChannelInv
<1>3. CASE ReceiveMessage
  <2>1. WindowTypeOK' /\ HostInv'
    BY <1>1, <1>3, ReceivingKeepsHost
  <2>2. \A s \in Schedules : Agrees(s) => Agrees(s)'
    BY <1>1, <1>3, ReceivingAgrees
  <2>3. failures' = failures /\ restarts' = restarts
    BY <1>3 DEF ReceiveMessage, counters
  <2> QED
    BY <2>1, <2>2, <2>3 DEF ChannelInv
<1>4. CASE UNCHANGED vars
  BY <1>4 DEF vars, stored, locals, channel, counters, ChannelInv, WindowTypeOK, HostInv, Agrees,
             WillTell, IsTold, IsShown
<1> QED
  BY <1>2, <1>3, <1>4

LEMMA WindowInitially == Init => ChannelInv
<1> SUFFICES ASSUME Init PROVE ChannelInv
  OBVIOUS
<1>1. WindowTypeOK /\ Len(inbox) = 0 /\ \A s \in Schedules : window[s] = "unknown"
  BY DEF Init, WindowTypeOK
<1>2. HostInv
  BY <1>1 DEF Init, HostInv
<1> QED
  BY <1>1, <1>2 DEF ChannelInv, Agrees, IsShown

LEMMA ChannelInductive == Spec => []ChannelInv
<1>1. TimerInv /\ ChannelInv /\ [Next]_vars => ChannelInv'
  BY BootingAgrees, HandlersAgree, CallbacksAgree, FaultsAgree, OthersAgree DEF Next, Step
<1> QED
  BY <1>1, WindowInitially, TimerInductive, PTL DEF Spec

\* When nothing is under way, the window that was told of the subprocess shows the
\* authorization that is stored, and of the schedules what is stored of them.
THEOREM WindowShowsTheStores == Spec => []WindowAgrees
<1>1. ChannelInv => WindowAgrees
  <2> SUFFICES ASSUME ChannelInv, AtRest, failures = 0
               PROVE  /\ host.online => host.authorized = authorized
                      /\ restarts = 0 => \A s \in Schedules :
                            window[s] # "unknown" => (window[s] = "enabled" <=> enabled[s])
    BY DEF WindowAgrees
  <2>1. /\ Len(inbox) = 0 /\ host \in [online : BOOLEAN, authorized : BOOLEAN]
        /\ authorized \in BOOLEAN /\ HostInv /\ \A c \in Calls : pc[c] # "enable"
    BY DEF ChannelInv, WindowTypeOK, AtRest
  <2>2. host.online => host.authorized = authorized
    BY <2>1 DEF HostInv
  <2>3. ASSUME restarts = 0, NEW s \in Schedules, window[s] # "unknown"
        PROVE  window[s] = "enabled" <=> enabled[s]
    BY <2>1, <2>3 DEF ChannelInv, Agrees, WillTell, IsTold, IsShown
  <2> QED
    BY <2>2, <2>3
<1> QED
  BY <1>1, ChannelInductive, PTL

-------------------------------------------------------------------------------
(* The times at which timers fire: for every period that fits a timeout, every *)
(* latency and any number of rounds                                            *)

\* The period of the schedule is a delay that setTimeout keeps.
Fits == Period <= MaxTimeout

\* How far round c may deviate from its nominal time, by its timer.
Slack(c) == c * (2 * Latency - 1)

DueType == [nominal : Int, at : Int, round : Nat]
JobType == [ nominal : Int, fireAt : Int, by : Int, round : Nat,
             state : {"none", "armed", "fired"} ]

\* The strengthening of DriftIsBounded: a timer deviates from its nominal time by
\* what the rounds before it have accumulated, and while its callback is under way
\* the clock has gone on by no more than the latencies of timer and callback.
DriftInv ==
    /\ now \in Int /\ job \in JobType /\ due \in Seq(DueType)
    /\ job.state # "none" => now <= job.by
    /\ job.state = "armed" =>
        /\ job.by = job.fireAt + Latency
        /\ -job.round <= job.fireAt - job.nominal
        /\ job.fireAt - job.nominal <= Slack(job.round)
    /\ job.state = "fired" =>
        /\ -job.round <= now - job.nominal
        /\ job.by - job.nominal <= 2 * Latency + Slack(job.round)
    /\ DriftIsBounded

\* A match is found within one period after the time it is looked for.
LEMMA MatchIsNear ==
    ASSUME NEW t \in Int
    PROVE  NextMatch(t) \in Int /\ t < NextMatch(t) /\ NextMatch(t) <= t + Period
<1>1. Period \in Nat /\ Period > 0 BY TriggerClockAssumption
<1> DEFINE q == t \div Period
           r == t % Period
<1>2. q \in Int /\ r \in 0 .. Period - 1 /\ t = Period * q + r BY <1>1
<1>3. NextMatch(t) = Period * q + Period BY <1>1, <1>2 DEF NextMatch
<1> QED BY <1>1, <1>2, <1>3

\* The slack grows by the latencies of one round, less the second that is skipped.
LEMMA SlackGrows ==
    ASSUME NEW c \in Nat
    PROVE  Slack(c) \in Int /\ Slack(c + 1) = Slack(c) + 2 * Latency - 1 /\ Slack(0) = 0
<1>1. Latency \in Int BY TriggerClockAssumption
<1> DEFINE k == 2 * Latency - 1
<1>2. k \in Int BY <1>1
<1>3. c * k \in Int /\ (c + 1) * k = c * k + k /\ 0 * k = 0 BY <1>2
<1> QED BY <1>1, <1>3 DEF Slack

\* A registered job fires when its delay is over, and the delay is not negative.
LEMMA SetJob ==
    ASSUME Fits, now \in Int, NEW d \in Int, NEW c \in Nat, Set(d, c)
    PROVE  /\ job' \in JobType /\ job'.state = "armed" /\ job'.round = c
           /\ job'.by = job'.fireAt + Latency /\ now <= job'.fireAt
           /\ job'.fireAt - job'.nominal = now - d
<1>1. Latency \in Nat /\ MaxTimeout \in Nat /\ Period \in Nat BY TriggerClockAssumption
<1>2. NextMatch(d) \in Int /\ d < NextMatch(d) /\ NextMatch(d) <= d + Period
  BY MatchIsNear
<1>3. Timeout(NextMatch(d) - d) = NextMatch(d) - d BY <1>1, <1>2 DEF Fits, Timeout
<1> QED BY <1>1, <1>2, <1>3 DEF Set, JobType

\* No job is registered at first.
LEMMA DriftInit == ClockInit => DriftInv
<1> SUFFICES ASSUME ClockInit PROVE DriftInv OBVIOUS
<1>1. now \in Int BY TriggerClockAssumption DEF ClockInit
<1>2. job \in JobType /\ job.state = "none" BY DEF ClockInit, NoJob, JobType
<1>3. due \in Seq(DueType) /\ DriftIsBounded BY DEF ClockInit, DriftIsBounded
<1> QED BY <1>1, <1>2, <1>3 DEF DriftInv

\* Every step preserves the bounds on the job and on what was due.
LEMMA DriftNext == Fits /\ DriftInv /\ [ClockNext]_clockVars => DriftInv'
<1> SUFFICES ASSUME Fits, DriftInv, [ClockNext]_clockVars PROVE DriftInv' OBVIOUS
<1>0. Latency \in Nat BY TriggerClockAssumption
<1>1. CASE RegisterOutside
  <2>1. Set(now, 0) /\ UNCHANGED <<now, due>> /\ now \in Int BY <1>1 DEF RegisterOutside, DriftInv
  <2>2. /\ job' \in JobType /\ job'.state = "armed" /\ job'.round = 0
        /\ job'.by = job'.fireAt + Latency /\ now <= job'.fireAt
        /\ job'.fireAt - job'.nominal = 0
    BY <2>1, SetJob
  <2>3. Slack(0) = 0 BY SlackGrows
  <2>4. DriftIsBounded' BY <2>1 DEF DriftInv, DriftIsBounded
  <2> QED BY <1>0, <2>1, <2>2, <2>3, <2>4 DEF DriftInv, JobType
<1>2. CASE Unregister
  BY <1>2 DEF Unregister, DriftInv, DriftIsBounded, NoJob, JobType
<1>3. CASE TimerFires
  <2> DEFINE d == [nominal |-> job.nominal, at |-> now, round |-> job.round]
  <2>1. /\ job.state = "armed" /\ now >= job.fireAt /\ UNCHANGED now
        /\ job' = [job EXCEPT !.state = "fired", !.by = now + Latency]
        /\ due' = Append(due, d)
    BY <1>3 DEF TimerFires
  <2>2. d \in DueType /\ job' \in JobType
    <3>1. now \in Int /\ job \in JobType BY DEF DriftInv
    <3>2. d \in DueType BY <3>1 DEF DueType, JobType
    <3>3. now + Latency \in Int BY <1>0, <3>1
    <3>4. job' \in JobType BY <2>1, <3>1, <3>3 DEF JobType
    <3> QED BY <3>2, <3>4
  <2>3. Slack(job.round) \in Int BY SlackGrows DEF DriftInv, JobType
  <2>4. /\ -job.round <= now - job.nominal
        /\ now - job.nominal <= Latency + Slack(job.round)
    BY <1>0, <2>1, <2>3 DEF DriftInv, JobType
  <2>5. DriftIsBounded'
    <3> SUFFICES ASSUME NEW i \in DOMAIN due'
                 PROVE  /\ due'[i].at - due'[i].nominal >= -due'[i].round
                        /\ due'[i].at - due'[i].nominal
                             <= Latency + due'[i].round * (2 * Latency - 1)
      BY DEF DriftIsBounded
    <3>1. due \in Seq(DueType) BY DEF DriftInv
    <3>2. CASE i = Len(due) + 1
      <4>1. due'[i] = d BY <2>1, <2>2, <3>1, <3>2
      <4> QED BY <1>0, <4>1, <2>2, <2>4 DEF Slack, DueType
    <3>3. CASE i # Len(due) + 1
      <4>1. i \in DOMAIN due /\ due'[i] = due[i] BY <2>1, <2>2, <3>1, <3>3
      <4> QED BY <4>1 DEF DriftInv, DriftIsBounded
    <3> QED BY <3>2, <3>3
  <2>6. /\ job'.state = "fired" /\ job'.by = now + Latency /\ job'.round = job.round
        /\ job'.nominal = job.nominal
    BY <2>1 DEF DriftInv, JobType
  <2>7. due' \in Seq(DueType) BY <2>1, <2>2 DEF DriftInv
  <2> QED BY SMTT(30), <1>0, <2>1, <2>2, <2>3, <2>4, <2>5, <2>6, <2>7 DEF DriftInv, JobType
<1>4. CASE RegisterNext
  <2>1. /\ job.state = "fired" /\ Set(job.nominal + 1, job.round + 1)
        /\ UNCHANGED <<now, due>>
    BY <1>4 DEF RegisterNext
  <2>2. job.nominal + 1 \in Int /\ job.round + 1 \in Nat /\ now \in Int
    BY DEF DriftInv, JobType
  <2>3. /\ job' \in JobType /\ job'.state = "armed" /\ job'.round = job.round + 1
        /\ job'.by = job'.fireAt + Latency /\ now <= job'.fireAt
        /\ job'.fireAt - job'.nominal = now - (job.nominal + 1)
    BY <2>1, <2>2, SetJob
  <2>4. /\ Slack(job.round) \in Int
        /\ Slack(job.round + 1) = Slack(job.round) + 2 * Latency - 1
    BY SlackGrows DEF DriftInv, JobType
  <2>5. /\ -job.round <= now - job.nominal /\ now <= job.by
        /\ job.by - job.nominal <= 2 * Latency + Slack(job.round)
    BY <2>1 DEF DriftInv
  <2>6. /\ -job'.round <= job'.fireAt - job'.nominal
        /\ job'.fireAt - job'.nominal <= Slack(job'.round)
    <3> DEFINE n == job.nominal
               s == Slack(job.round)
    <3>1. /\ n \in Int /\ job.by \in Int /\ job.round \in Nat /\ s \in Int
          /\ now \in Int /\ Latency \in Int
      BY <1>0, <2>2, <2>4 DEF DriftInv, JobType
    <3>2. -job.round <= now - n /\ now <= job.by /\ job.by - n <= 2 * Latency + s
      BY <2>5
    <3> HIDE DEF n, s
    <3>3. -(job.round + 1) <= now - (n + 1) /\ now - (n + 1) <= s + 2 * Latency - 1
      BY <3>1, <3>2
    <3> QED BY <2>3, <2>4, <3>3 DEF n, s
  <2>7. DriftIsBounded' BY <2>1 DEF DriftInv, DriftIsBounded
  <2>8. now' \in Int /\ due' \in Seq(DueType) /\ now' = now
    <3>1. now' = now /\ due' = due BY <2>1
    <3> QED BY <2>3, <3>1 DEF DriftInv
  <2>9. job'.by \in Int /\ now <= job'.by
    <3>1. now \in Int /\ Latency \in Nat BY <1>0 DEF DriftInv
    <3> QED BY <2>3, <3>1 DEF JobType
  <2> QED BY <2>1, <2>3, <2>6, <2>7, <2>8, <2>9 DEF DriftInv
<1>5. CASE Tick
  <2>1. /\ now' = now + 1 /\ UNCHANGED <<job, due>>
        /\ job.state # "none" => now < job.by
    BY <1>5 DEF Tick
  <2>2. DriftIsBounded' BY <2>1 DEF DriftInv, DriftIsBounded
  <2> QED BY <2>1, <2>2 DEF DriftInv, JobType
<1>6. CASE UNCHANGED clockVars
  BY <1>6 DEF clockVars, DriftInv, DriftIsBounded
<1> QED BY <1>1, <1>2, <1>3, <1>4, <1>5, <1>6 DEF ClockNext

\* When the period fits a timeout, a schedule drifts with its rounds only: at most
\* a second early for each, and late by at most the latencies of timers and
\* callbacks (ScheduleTimerService.register, which counts from nominal + 1000 ms).
THEOREM DriftBounded == Fits /\ ClockSpec => []DriftIsBounded
<1>1. Fits /\ DriftInv /\ [ClockNext]_clockVars => DriftInv' BY DriftNext
<1>2. DriftInv => DriftIsBounded BY DEF DriftInv
<1>3. Fits => Fits' BY DEF Fits
<1> QED BY <1>1, <1>2, <1>3, DriftInit, PTL DEF ClockSpec

\* A schedule is due at its time in the first round: not before it and no later than
\* its callback is delayed.
FirstOnTime ==
    \A i \in DOMAIN due : due[i].round = 0 =>
        due[i].at - due[i].nominal \in 0 .. Latency

\* When the period fits a timeout, a schedule that was enabled or restored is due at
\* its time: round 0 has not drifted (the registration from outside counts from now).
THEOREM FirstRoundOnTime == Fits /\ ClockSpec => []FirstOnTime
<1>1. DriftInv => FirstOnTime
  <2> SUFFICES ASSUME DriftInv, NEW i \in DOMAIN due, due[i].round = 0
               PROVE  due[i].at - due[i].nominal \in 0 .. Latency
    BY DEF FirstOnTime
  <2>1. Latency \in Nat /\ Slack(0) = 0 BY TriggerClockAssumption, SlackGrows
  <2>2. due[i] \in DueType BY DEF DriftInv
  <2>3. /\ due[i].at - due[i].nominal >= 0
        /\ due[i].at - due[i].nominal <= Latency
    BY <2>1, <2>2 DEF DriftInv, DriftIsBounded, Slack, DueType
  <2> QED BY <2>1, <2>2, <2>3 DEF DueType
<1>2. Fits /\ DriftInv /\ [ClockNext]_clockVars => DriftInv' BY DriftNext
<1>3. Fits => Fits' BY DEF Fits
<1> QED BY <1>1, <1>2, <1>3, DriftInit, PTL DEF ClockSpec

-------------------------------------------------------------------------------
(* The next match                                                            *)

\* The schedule does not match in every second.
Pauses == Period > 1

Match(t) == \E q \in Int : t = q * Period

\* A search begins after the one before, and finds a match.
LEMMA NextIsMatch == ASSUME NEW t \in Int PROVE Match(NextMatch(t))
<1>1. Period \in Nat /\ Period > 0 BY TriggerClockAssumption
<1>2. t \div Period + 1 \in Int BY <1>1
<1> QED BY <1>2 DEF Match, NextMatch

\* Counted from a second after a match, the next one is found, and none after it.
LEMMA NextAfterMatch ==
    ASSUME Pauses, NEW t \in Int, Match(t) PROVE NextMatch(t + 1) = t + Period
<1>1. Period \in Nat /\ Period > 1 BY TriggerClockAssumption DEF Pauses
<1>2. PICK q \in Int : t = q * Period BY DEF Match
<1> DEFINE d == (t + 1) \div Period
           r == (t + 1) % Period
<1>3. d \in Int /\ r \in 0 .. Period - 1 /\ t + 1 = Period * d + r BY <1>1
<1> HIDE DEF d, r
<1>4. d = q
  <2>1. CASE d > q
    <3>1. PICK k \in Nat : d = q + 1 + k BY <1>3, <2>1
    <3>2. Period * d = q * Period + Period + Period * k /\ Period * k >= 0
      BY <1>1, <3>1
    <3> QED BY <1>1, <1>2, <1>3, <3>2
  <2>2. CASE d < q
    <3>1. PICK k \in Nat : q = d + 1 + k BY <1>3, <2>2
    <3>2. q * Period = Period * d + Period + Period * k
      <4>1. q * Period = Period * (d + 1 + k) BY <1>1, <1>3, <3>1
      <4>2. Period * (d + 1 + k) = Period * d + Period + Period * k BY <1>1, <1>3, <3>1
      <4> QED BY <4>1, <4>2
    <3>3. Period * k >= 0 BY <1>1, <3>1
    <3> QED BY <1>1, <1>2, <1>3, <3>2, <3>3
  <2> QED BY <1>3, <2>1, <2>2
<1>5. NextMatch(t + 1) = (d + 1) * Period BY DEF NextMatch, d
<1>6. (q + 1) * Period = q * Period + Period BY <1>1
<1> QED BY <1>2, <1>4, <1>5, <1>6

\* The strengthening of NoneIsSkipped: nominal times are matches, the callback that
\* is under way is of the last time that was due, and a later round waits for the
\* match after it.
SkipInv ==
    /\ now \in Int /\ job \in JobType /\ due \in Seq(DueType)
    /\ job.state # "none" => Match(job.nominal)
    /\ job.state = "fired" =>
        /\ due # <<>> /\ due[Len(due)].round = job.round
        /\ due[Len(due)].nominal = job.nominal
    /\ job.state = "armed" /\ job.round # 0 =>
        /\ due # <<>> /\ due[Len(due)].round + 1 = job.round
        /\ due[Len(due)].nominal + Period = job.nominal
    /\ NoneIsSkipped

\* A job is registered for the next match, whatever becomes of its delay.
LEMMA SetMatch ==
    ASSUME now \in Int, NEW d \in Int, NEW c \in Nat, Set(d, c)
    PROVE  /\ job' \in JobType /\ job'.state = "armed" /\ job'.round = c
           /\ job'.nominal = NextMatch(d) /\ Match(job'.nominal)
<1>1. Latency \in Nat /\ MaxTimeout \in Nat BY TriggerClockAssumption
<1>2. NextMatch(d) \in Int /\ Match(NextMatch(d)) BY MatchIsNear, NextIsMatch
<1>3. Timeout(NextMatch(d) - d) \in Int BY <1>1, <1>2 DEF Timeout
<1> QED BY <1>1, <1>2, <1>3 DEF Set, JobType

LEMMA SkipInit == ClockInit => SkipInv
<1> SUFFICES ASSUME ClockInit PROVE SkipInv OBVIOUS
<1>1. now \in Int BY TriggerClockAssumption DEF ClockInit
<1>2. job \in JobType /\ job.state = "none" BY DEF ClockInit, NoJob, JobType
<1>3. due \in Seq(DueType) /\ NoneIsSkipped BY DEF ClockInit, NoneIsSkipped
<1> QED BY <1>1, <1>2, <1>3 DEF SkipInv

LEMMA SkipNext == Pauses /\ SkipInv /\ [ClockNext]_clockVars => SkipInv'
<1> SUFFICES ASSUME Pauses, SkipInv, [ClockNext]_clockVars PROVE SkipInv' OBVIOUS
<1>1. CASE RegisterOutside
  <2>1. Set(now, 0) /\ UNCHANGED <<now, due>> /\ now \in Int
    BY <1>1 DEF RegisterOutside, SkipInv
  <2>2. job' \in JobType /\ job'.state = "armed" /\ job'.round = 0 /\ Match(job'.nominal)
    BY <2>1, SetMatch
  <2>3. NoneIsSkipped' BY <2>1 DEF SkipInv, NoneIsSkipped
  <2> QED BY <2>1, <2>2, <2>3 DEF SkipInv
<1>2. CASE Unregister
  BY SMTT(30), <1>2 DEF Unregister, SkipInv, NoneIsSkipped, NoJob, JobType
<1>3. CASE TimerFires
  <2> DEFINE d == [nominal |-> job.nominal, at |-> now, round |-> job.round]
  <2>1. /\ job.state = "armed" /\ UNCHANGED now
        /\ job' = [job EXCEPT !.state = "fired", !.by = now + Latency]
        /\ due' = Append(due, d)
    BY <1>3 DEF TimerFires
  <2>2. now \in Int /\ job \in JobType /\ due \in Seq(DueType) BY DEF SkipInv
  <2>3. d \in DueType BY <2>2 DEF DueType, JobType
  <2>4. now + Latency \in Int BY <2>2, TriggerClockAssumption
  <2>5. /\ job' \in JobType /\ job'.state = "fired" /\ job'.round = job.round
        /\ job'.nominal = job.nominal
    BY <2>1, <2>2, <2>4 DEF JobType
  <2>6. /\ due' \in Seq(DueType) /\ Len(due') = Len(due) + 1
        /\ due'[Len(due')] = d
        /\ \A i \in 1 .. Len(due) : due'[i] = due[i]
    BY <2>1, <2>2, <2>3
  <2>7. NoneIsSkipped'
    <3> SUFFICES ASSUME NEW i \in 1 .. Len(due') - 1,
                        due'[i + 1].round = due'[i].round + 1
                 PROVE  due'[i + 1].nominal = due'[i].nominal + Period
      BY DEF NoneIsSkipped
    <3>1. i \in 1 .. Len(due) /\ due'[i] = due[i] /\ due[i].round \in Nat
      <4>1. Len(due) \in Nat /\ Len(due') = Len(due) + 1 BY <2>2, <2>6
      <4>2. i \in 1 .. Len(due) BY <4>1
      <4>3. due[i] \in DueType BY <2>2, <4>2
      <4> QED BY <2>6, <4>2, <4>3 DEF DueType
    <3>2. CASE i = Len(due)
      <4>1. due'[i + 1] = d BY <2>6, <3>2
      <4>2. job.round = due[i].round + 1 /\ job.round # 0 BY <3>1, <4>1
      <4> QED BY <2>1, <3>1, <3>2, <4>1, <4>2 DEF SkipInv
    <3>3. CASE i # Len(due)
      <4>1. i \in 1 .. Len(due) - 1 /\ i + 1 \in 1 .. Len(due) BY <2>2, <3>1, <3>3
      <4> QED BY <2>6, <3>1, <4>1 DEF SkipInv, NoneIsSkipped
    <3> QED BY <3>2, <3>3
  <2>8. now' \in Int BY <2>1, <2>2
  <2>9. Match(job'.nominal) BY <2>1, <2>5 DEF SkipInv
  <2> QED BY <2>2, <2>5, <2>6, <2>7, <2>8, <2>9 DEF SkipInv
<1>4. CASE RegisterNext
  <2>1. /\ job.state = "fired" /\ Set(job.nominal + 1, job.round + 1)
        /\ UNCHANGED <<now, due>>
    BY <1>4 DEF RegisterNext
  <2>2. job.nominal \in Int /\ job.round \in Nat /\ now \in Int
    BY DEF SkipInv, JobType
  <2>3. job.nominal + 1 \in Int /\ job.round + 1 \in Nat BY <2>2
  <2>4. /\ job' \in JobType /\ job'.state = "armed" /\ job'.round = job.round + 1
        /\ job'.nominal = NextMatch(job.nominal + 1) /\ Match(job'.nominal)
    BY <2>1, <2>2, <2>3, SetMatch
  <2>5. job'.nominal = job.nominal + Period
    BY <2>1, <2>2, <2>4, NextAfterMatch DEF SkipInv
  <2>6. NoneIsSkipped' BY <2>1 DEF SkipInv, NoneIsSkipped
  <2>7. now' \in Int /\ due' \in Seq(DueType) BY <2>1 DEF SkipInv
  <2>8. /\ due' # <<>> /\ due'[Len(due')].round + 1 = job'.round
        /\ due'[Len(due')].nominal + Period = job'.nominal
    BY <2>1, <2>4, <2>5 DEF SkipInv
  <2> QED BY <2>4, <2>6, <2>7, <2>8 DEF SkipInv
<1>5. CASE Tick
  <2>1. now' = now + 1 /\ UNCHANGED <<job, due>> BY <1>5 DEF Tick
  <2>2. NoneIsSkipped' BY <2>1 DEF SkipInv, NoneIsSkipped
  <2> QED BY <2>1, <2>2 DEF SkipInv
<1>6. CASE UNCHANGED clockVars
  BY <1>6 DEF clockVars, SkipInv, NoneIsSkipped
<1> QED BY <1>1, <1>2, <1>3, <1>4, <1>5, <1>6 DEF ClockNext

\* When the schedule does not match in every second, no match is left out from one
\* round to the next, however late timers and callbacks were, and also if the delay
\* did not fit a timeout (the callback of ScheduleTimerService.register counts from one
\* second after the nominal time, never from the clock).
THEOREM EveryMatchIsDue == Pauses /\ ClockSpec => []NoneIsSkipped
<1>1. Pauses /\ SkipInv /\ [ClockNext]_clockVars => SkipInv' BY SkipNext
<1>2. SkipInv => NoneIsSkipped BY DEF SkipInv
<1>3. Pauses => Pauses' BY DEF Pauses
<1> QED BY <1>1, <1>2, <1>3, SkipInit, PTL DEF ClockSpec
===============================================================================
