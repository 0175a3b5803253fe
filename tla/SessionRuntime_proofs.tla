------------------------- MODULE SessionRuntime_proofs -------------------------
(***************************************************************************)
(* Proofs about conversations, for any sessions, messages, pieces of a     *)
(* reply and failures: the end of a run is the last the window hears of    *)
(* it, an old list is about to be published, a run that is stored as       *)
(* running goes on, no message is lost, and what is stored of a run is     *)
(* what was published last.                                                *)
(*                                                                         *)
(* The argument is about the order in which the store is asked.  A run is  *)
(* stopped by cancelRun or failRun, which first clear its timers, then     *)
(* wait for the store behind the callbacks that are under way, and tell    *)
(* the window afterwards: nothing of the run is left behind them.  A user  *)
(* who waits for the end of a run before the next message asks the store   *)
(* behind all that is still to be stored of the run before.                *)
(***************************************************************************)
EXTENDS SessionRuntime, TLAPS

-------------------------------------------------------------------------------
(* The inductive invariant                                                   *)

AllThreads == Threads \cup Creates
Stops == {"cancel", "fail"}
Kinds == {"send", "cancel", "fail"} \cup Tasks

Names == {"RUN_STARTED", "STEP_STARTED", "ASSISTANT_DELTA", "STEP_FINISHED",
          "ASSISTANT_DONE", "RUN_CANCELLED", "RUN_FAILED"}
Ends == {"RUN_CANCELLED", "RUN_FAILED"}

SessionStatuses == {"missing", "idle", "running", "completed", "cancelled", "failed"}
Session == [messages : Seq({"user", "assistant"} \X Runs), run : 0 .. MaxRuns,
            status : SessionStatuses,
            steps : SUBSET [run : Runs, status : {"running", "success"}]]

TypeInv ==
    /\ home \in [Runs -> Sessions]
    /\ store \in [Sessions -> Session]
    /\ copy \in [Runs -> Session]
    /\ at \in [AllThreads -> 0 .. 5]
    /\ queue \in Seq(AllThreads)
    /\ timer \in [Runs -> 0 .. Chunks + 4]
    /\ active \in SUBSET Runs /\ cancelled \in SUBSET Runs
    /\ events \in [Runs -> Seq(Names)]
    /\ known \in SUBSET Sessions

\* A thread at its await n waits for the store.
AtStore(t, n) == n \in 1 .. Len(Awaits(t)) /\ Awaits(t)[n] \in StoreOps

\* The queue holds the threads that wait for the store, each once, and no callback
\* that has still to publish behind a stop of its run that has.
InOrder(q, now) ==
    /\ \A t \in AllThreads : AtStore(t, now[t]) <=> \E i \in 1 .. Len(q) : q[i] = t
    /\ \A i, j \in 1 .. Len(q) : q[i] = q[j] => i = j
    /\ \A i, j \in 1 .. Len(q) :
          /\ i < j
          /\ q[i][1] \in Stops /\ now[q[i]] = 1
          /\ q[j][1] \in Tasks /\ now[q[j]] = 1
          => q[i][2] # q[j][2]

\* The awaits of the threads when t is not under way.
Without(t) == [at EXCEPT ![t] = 0]

Ended(r) == \E i \in 1 .. Len(events[r]) : events[r][i] \in Ends

\* No further callback of r begins.
Quiet(r) == r \in cancelled \/ timer[r] = Chunks + 4

\* Before its timers are set a run has nothing under way but its request.
NotStarted(r) ==
    /\ r \notin active
    /\ \A k \in Tasks \cup Stops : at[<<k, r>>] = 0
    /\ \A i \in 1 .. Len(events[r]) : events[r][i] = "RUN_STARTED"

\* Afterwards its request is over for good, and it is active until it is quiet.
Started(r) ==
    /\ copy[r] # NoSession /\ at[<<"send", r>>] = 0
    /\ r \in active \/ Quiet(r)

\* A callback has begun at its time and not before.
CallbackInv(r) ==
    /\ at[<<"chunk", r>>] = 0
    /\ at[<<"step", r>>] # 0 => timer[r] > 1
    /\ at[<<"finish", r>>] # 0 => timer[r] > Chunks + 2
    /\ at[<<"done", r>>] # 0 => timer[r] > Chunks + 3

RequestInv(r) ==
    /\ r \in active => at[<<"cancel", r>>] = 0
    /\ at[<<"send", r>>] # 0 => home[r] \in known
    /\ at[<<"send", r>>] > 1 => copy[r] # NoSession

\* A run that is being stopped, or was, is quiet, and after the end was published
\* no callback of it waits to publish.
StopInv(r) ==
    /\ at[<<"cancel", r>>] = 1 \/ at[<<"fail", r>>] = 1 \/ Ended(r) => Quiet(r)
    /\ Ended(r) => \A k \in Tasks : at[<<k, r>>] # 1

\* No stop of r has still to publish.
NoStop(r) == \A k \in Stops : at[<<k, r>>] # 1

\* EndIsLast, of one run.
EndOrder(r) ==
    \A i, j \in 1 .. Len(events[r]) : i < j /\ events[r][i] \in Ends => events[r][j] \in Ends

RunInv(r) ==
    /\ timer[r] = 0 => NotStarted(r)
    /\ timer[r] # 0 => Started(r)
    /\ CallbackInv(r) /\ RequestInv(r) /\ StopInv(r) /\ EndOrder(r)

KnownInv == \A s \in known : store[s].status # "missing"

SessionInv ==
    /\ TypeInv /\ InOrder(queue, at) /\ KnownInv
    /\ \A r \in Runs : RunInv(r)

-------------------------------------------------------------------------------
(* Threads and their awaits                                                  *)

\* Every thread is one of these.
LEMMA ThreadKinds ==
    ASSUME NEW t \in AllThreads
    PROVE  \/ t \in Creates /\ t[1] = "create" /\ t[2] \in Sessions
           \/ /\ t \in Threads /\ t \notin Creates /\ t = <<t[1], t[2]>> /\ t[2] \in Runs
              /\ t[1] \in Kinds
BY DEF AllThreads, Threads, Creates, Tasks, Kinds

\* A thread of a run is a thread.
LEMMA ThreadOfRun ==
    ASSUME NEW r \in Runs, NEW k \in Kinds
    PROVE  /\ <<k, r>> \in AllThreads /\ <<k, r>> \in Threads /\ <<k, r>> \notin Creates
           /\ <<k, r>>[1] = k /\ <<k, r>>[2] = r
BY DEF AllThreads, Threads, Creates, Tasks, Kinds

LEMMA ThreadOfSession ==
    ASSUME NEW s \in Sessions
    PROVE  /\ <<"create", s>> \in AllThreads /\ <<"create", s>> \in Creates
           /\ <<"create", s>>[1] = "create" /\ <<"create", s>>[2] = s
BY DEF AllThreads, Creates

\* Where a thread of each kind waits for the store, and where it publishes.
LEMMA AwaitsCreate ==
    ASSUME NEW t, t[1] = "create"
    PROVE  /\ Len(Awaits(t)) = 4
           /\ Awaits(t)[1] = "upsert" /\ Awaits(t)[2] = "event"
           /\ Awaits(t)[3] = "list" /\ Awaits(t)[4] = "snapshot"
BY DEF Awaits
LEMMA AwaitsSend ==
    ASSUME NEW t, t[1] = "send"
    PROVE  /\ Len(Awaits(t)) = 5
           /\ Awaits(t)[1] = "get" /\ Awaits(t)[2] = "upsert" /\ Awaits(t)[3] = "list"
           /\ Awaits(t)[4] = "snapshot" /\ Awaits(t)[5] = "event"
BY DEF Awaits
LEMMA AwaitsStep ==
    ASSUME NEW t, t[1] \in {"step", "finish"}
    PROVE  /\ Len(Awaits(t)) = 2 /\ Awaits(t)[1] = "patch" /\ Awaits(t)[2] = "event"
BY DEF Awaits
LEMMA AwaitsChunk ==
    ASSUME NEW t, t[1] = "chunk"
    PROVE  Len(Awaits(t)) = 1 /\ Awaits(t)[1] = "event"
BY DEF Awaits
LEMMA AwaitsEnd ==
    ASSUME NEW t, t[1] \in {"done", "cancel", "fail"}
    PROVE  /\ Len(Awaits(t)) = 4
           /\ Awaits(t)[1] = "patch" /\ Awaits(t)[2] = "event"
           /\ Awaits(t)[3] = "list" /\ Awaits(t)[4] = "snapshot"
BY DEF Awaits

\* No thread waits for the store at its last await.
LEMMA LastIsNoStoreOp ==
    ASSUME NEW t \in AllThreads
    PROVE  /\ Len(Awaits(t)) \in 1 .. 5
           /\ Awaits(t)[Len(Awaits(t))] \notin StoreOps
           /\ \A i \in 1 .. Len(Awaits(t)) :
                 Awaits(t)[i] \in StoreOps \/ Awaits(t)[i] \in {"event", "snapshot"}
<1> USE DEF StoreOps
<1>1. CASE t[1] = "create"
  BY <1>1, AwaitsCreate
<1>2. CASE t[1] = "send"
  BY <1>2, AwaitsSend
<1>3. CASE t[1] \in {"step", "finish"}
  BY <1>3, AwaitsStep
<1>4. CASE t[1] = "chunk"
  BY <1>4, AwaitsChunk
<1>5. CASE t[1] \in {"done", "cancel", "fail"}
  BY <1>5, AwaitsEnd
<1> QED BY <1>1, <1>2, <1>3, <1>4, <1>5, ThreadKinds DEF Kinds, Tasks

\* Two sequences one after the other.
LEMMA Concatenated ==
    ASSUME NEW S, NEW a \in Seq(S), NEW b \in Seq(S)
    PROVE  /\ a \o b \in Seq(S) /\ Len(a \o b) = Len(a) + Len(b)
           /\ \A i \in 1 .. Len(a) : (a \o b)[i] = a[i]
           /\ \A i \in 1 .. Len(b) : (a \o b)[Len(a) + i] = b[i]
OBVIOUS

\* The callbacks of a run.
LEMMA TimersListed ==
    /\ DOMAIN Timers = 1 .. Chunks + 3
    /\ Timers[1] = "step" /\ Timers[Chunks + 2] = "finish" /\ Timers[Chunks + 3] = "done"
    /\ \A i \in 2 .. Chunks + 1 : Timers[i] = "chunk"
<1> DEFINE a == <<"step">>
           b == [i \in 1 .. Chunks |-> "chunk"]
           c == <<"finish", "done">>
           d == a \o b
           S == {"step", "chunk", "finish", "done"}
<1>1. Chunks \in Nat /\ Chunks > 0 BY SessionRuntimeAssumption
<1>2. a \in Seq(S) /\ Len(a) = 1 /\ a[1] = "step" OBVIOUS
<1>3. b \in Seq(S) /\ Len(b) = Chunks /\ \A i \in 1 .. Chunks : b[i] = "chunk" BY <1>1
<1>4. c \in Seq(S) /\ Len(c) = 2 /\ c[1] = "finish" /\ c[2] = "done" OBVIOUS
<1> HIDE DEF a, b, c, S
<1>5. /\ d \in Seq(S) /\ Len(d) = Chunks + 1 /\ d[1] = "step"
      /\ \A i \in 1 .. Chunks : d[1 + i] = "chunk"
  BY <1>1, <1>2, <1>3, Concatenated
<1> HIDE DEF d
<1>6. /\ d \o c \in Seq(S) /\ Len(d \o c) = Len(d) + Len(c)
      /\ \A i \in 1 .. Len(d) : (d \o c)[i] = d[i]
      /\ \A i \in 1 .. Len(c) : (d \o c)[Len(d) + i] = c[i]
  <2>1. d \in Seq(S) BY <1>5
  <2>2. c \in Seq(S) BY <1>4
  <2> QED BY <2>1, <2>2, Concatenated
<1>7. Timers = d \o c BY DEF Timers, d, a, b, c
<1>8. Len(Timers) = Chunks + 3 /\ DOMAIN Timers = 1 .. Chunks + 3
  BY <1>1, <1>4, <1>5, <1>6, <1>7
<1>9. Timers[1] = "step" BY <1>1, <1>5, <1>6, <1>7
<1>10. Timers[Len(d) + 1] = "finish" /\ Timers[Len(d) + 2] = "done" BY <1>4, <1>6, <1>7
<1>11. Len(d) + 1 = Chunks + 2 /\ Len(d) + 2 = Chunks + 3 BY <1>1, <1>5
<1>12. ASSUME NEW i \in 2 .. Chunks + 1 PROVE Timers[i] = "chunk"
  <2>1. i - 1 \in 1 .. Chunks /\ 1 + (i - 1) = i /\ i \in 1 .. Len(d) BY <1>1, <1>5
  <2>2. d[1 + (i - 1)] = "chunk" BY <1>5, <2>1
  <2> QED BY <1>6, <1>7, <2>1, <2>2
<1> QED BY <1>8, <1>9, <1>10, <1>11, <1>12

-------------------------------------------------------------------------------
(* The queue of the store                                                    *)

\* A thread that does not wait for the store may publish, or end.
LEMMA Moved ==
    ASSUME NEW q \in Seq(AllThreads), NEW now \in [AllThreads -> 0 .. 5], InOrder(q, now),
           NEW t \in AllThreads, ~AtStore(t, now[t]),
           NEW n \in 0 .. 5, ~AtStore(t, n)
    PROVE  InOrder(q, [now EXCEPT ![t] = n])
<1> DEFINE new == [now EXCEPT ![t] = n]
<1>1. \A i \in 1 .. Len(q) : q[i] # t /\ q[i] \in AllThreads BY DEF InOrder
<1>2. \A i \in 1 .. Len(q) : new[q[i]] = now[q[i]] BY <1>1
<1>3. \A u \in AllThreads : AtStore(u, new[u]) <=> \E i \in 1 .. Len(q) : q[i] = u
  BY <1>1 DEF InOrder
<1> HIDE DEF new
<1>4. InOrder(q, new) BY <1>2, <1>3 DEF InOrder
<1> QED BY <1>4 DEF new

\* The first thread leaves the queue.
LEMMA Taken ==
    ASSUME NEW q \in Seq(AllThreads), NEW now \in [AllThreads -> 0 .. 5], InOrder(q, now),
           q # <<>>
    PROVE  /\ Head(q) \in AllThreads /\ Tail(q) \in Seq(AllThreads)
           /\ AtStore(Head(q), now[Head(q)])
           /\ InOrder(Tail(q), [now EXCEPT ![Head(q)] = 0])
<1>1. PICK t \in AllThreads : t = q[1] /\ t = Head(q) OBVIOUS
<1> DEFINE new == [now EXCEPT ![t] = 0]
           p == Tail(q)
<1>2. Len(q) \in Nat /\ Len(q) > 0 OBVIOUS
<1>3. p \in Seq(AllThreads) /\ Len(p) = Len(q) - 1 OBVIOUS
<1>4. \A i \in 1 .. Len(p) : p[i] = q[i + 1] /\ i + 1 \in 1 .. Len(q) BY <1>2, <1>3
<1>5. \A i \in 2 .. Len(q) : p[i - 1] = q[i] /\ i - 1 \in 1 .. Len(p) BY <1>2, <1>3
<1>6. AtStore(t, now[t]) BY <1>1, <1>2 DEF InOrder
<1> HIDE DEF p
<1>7. \A i \in 1 .. Len(p) : p[i] \in AllThreads /\ p[i] # t
  <2> TAKE i \in 1 .. Len(p)
  <2>1. i + 1 # 1 /\ i + 1 \in 1 .. Len(q) /\ p[i] = q[i + 1] BY <1>3, <1>4
  <2> QED BY <1>1, <1>2, <1>3, <2>1 DEF InOrder
<1>8. \A i \in 1 .. Len(p) : new[p[i]] = now[p[i]] BY <1>7
<1>9. ASSUME NEW u \in AllThreads
      PROVE AtStore(u, new[u]) <=> \E i \in 1 .. Len(p) : p[i] = u
  <2>1. CASE u = t
    <3>1. ~AtStore(u, new[u]) BY <2>1 DEF AtStore
    <3> QED BY <2>1, <3>1, <1>7
  <2>2. CASE u # t
    <3>1. AtStore(u, new[u]) <=> \E i \in 1 .. Len(q) : q[i] = u BY <2>2 DEF InOrder
    <3>2. ASSUME NEW i \in 1 .. Len(q), q[i] = u PROVE \E k \in 1 .. Len(p) : p[k] = u
      <4>1. i \in 2 .. Len(q) BY <1>1, <1>2, <2>2, <3>2
      <4> QED BY <1>5, <3>2, <4>1
    <3>3. ASSUME NEW i \in 1 .. Len(p), p[i] = u PROVE \E k \in 1 .. Len(q) : q[k] = u
      BY <1>4, <3>3
    <3> QED BY <3>1, <3>2, <3>3
  <2> QED BY <2>1, <2>2
<1>10. ASSUME NEW i \in 1 .. Len(p), NEW j \in 1 .. Len(p), p[i] = p[j] PROVE i = j
  <2>1. i + 1 = j + 1 BY <1>4, <1>10 DEF InOrder
  <2> QED BY <2>1, <1>3
<1>11. ASSUME NEW i \in 1 .. Len(p), NEW j \in 1 .. Len(p), i < j,
              p[i][1] \in Stops, new[p[i]] = 1, p[j][1] \in Tasks, new[p[j]] = 1
       PROVE p[i][2] # p[j][2]
  <2>1. i + 1 < j + 1 BY <1>3, <1>11
  <2> QED BY <2>1, <1>4, <1>8, <1>11 DEF InOrder
<1> HIDE DEF new
<1>12. InOrder(p, new) BY <1>9, <1>10, <1>11 DEF InOrder
<1> QED BY <1>1, <1>3, <1>6, <1>12 DEF p, new

\* A thread joins the queue, a callback only while no stop of its run is in it.
LEMMA Queued ==
    ASSUME NEW q \in Seq(AllThreads), NEW now \in [AllThreads -> 0 .. 5], InOrder(q, now),
           NEW t \in AllThreads, ~AtStore(t, now[t]),
           NEW n \in 0 .. 5, AtStore(t, n),
           n = 1 /\ t[1] \in Tasks => \A k \in Stops : now[<<k, t[2]>>] # 1
    PROVE  InOrder(Append(q, t), [now EXCEPT ![t] = n])
<1> DEFINE new == [now EXCEPT ![t] = n]
           p == Append(q, t)
<1>1. Len(q) \in Nat /\ Len(p) = Len(q) + 1 /\ p[Len(q) + 1] = t OBVIOUS
<1>2. \A i \in 1 .. Len(q) : p[i] = q[i] /\ i \in 1 .. Len(p) OBVIOUS
<1>3. \A i \in 1 .. Len(q) : q[i] \in AllThreads /\ q[i] # t BY DEF InOrder
<1>4. \A i \in 1 .. Len(p) : i \in 1 .. Len(q) \/ i = Len(q) + 1 BY <1>1
<1> HIDE DEF p
<1>5. new[t] = n /\ \A i \in 1 .. Len(q) : new[q[i]] = now[q[i]] BY <1>3
<1>6. ASSUME NEW u \in AllThreads
      PROVE AtStore(u, new[u]) <=> \E i \in 1 .. Len(p) : p[i] = u
  <2>1. CASE u = t
    <3>1. AtStore(u, new[u]) BY <2>1
    <3>2. Len(q) + 1 \in 1 .. Len(p) BY <1>1
    <3> QED BY <1>1, <2>1, <3>1, <3>2
  <2>2. CASE u # t
    <3>1. AtStore(u, new[u]) <=> \E i \in 1 .. Len(q) : q[i] = u BY <2>2 DEF InOrder
    <3> QED BY <1>1, <1>2, <1>4, <2>2, <3>1
  <2> QED BY <2>1, <2>2
<1>7. ASSUME NEW i \in 1 .. Len(p), NEW j \in 1 .. Len(p), p[i] = p[j] PROVE i = j
  BY <1>1, <1>2, <1>3, <1>4, <1>7 DEF InOrder
<1>8. ASSUME NEW i \in 1 .. Len(p), NEW j \in 1 .. Len(p), i < j,
             p[i][1] \in Stops, new[p[i]] = 1, p[j][1] \in Tasks, new[p[j]] = 1
      PROVE p[i][2] # p[j][2]
  <2>1. i \in 1 .. Len(q) BY <1>1, <1>8
  <2>2. p[i] = q[i] /\ now[q[i]] = 1 /\ q[i] \in AllThreads BY <1>2, <1>3, <1>5, <1>8, <2>1
  <2>3. CASE j \in 1 .. Len(q)
    <3>1. p[j] = q[j] /\ now[q[j]] = 1 BY <1>2, <1>5, <1>8, <2>3
    <3> QED BY <1>8, <2>1, <2>2, <2>3, <3>1 DEF InOrder
  <2>4. CASE j = Len(q) + 1
    <3>1. p[j] = t /\ n = 1 /\ t[1] \in Tasks BY <1>1, <1>5, <1>8, <2>4
    <3>2. q[i] = <<q[i][1], q[i][2]>> BY <1>8, <2>2, ThreadKinds DEF Stops
    <3>3. now[<<q[i][1], t[2]>>] # 1 BY <1>8, <2>2, <3>1
    <3> QED BY <2>2, <3>1, <3>2, <3>3
  <2> QED BY <1>4, <2>3, <2>4
<1> HIDE DEF new
<1>9. InOrder(p, new) BY <1>6, <1>7, <1>8 DEF InOrder
<1> QED BY <1>9 DEF p, new

\* A thread that goes on from an await keeps the queue in order.
LEMMA ReachInOrder ==
    ASSUME at \in [AllThreads -> 0 .. 5], NEW t \in AllThreads,
           NEW q \in Seq(AllThreads), InOrder(q, [at EXCEPT ![t] = 0]),
           NEW i \in 1 .. Len(Awaits(t)), Reach(t, i, q),
           i = 1 /\ t[1] \in Tasks => \A k \in Stops : at[<<k, t[2]>>] # 1
    PROVE  /\ at' \in [AllThreads -> 0 .. 5] /\ queue' \in Seq(AllThreads)
           /\ InOrder(queue', at')
<1> DEFINE n == IF i = Len(Awaits(t)) /\ t[1] \notin {"send", "done"} THEN 0 ELSE i
           old == [at EXCEPT ![t] = 0]
<1>1. i \in 1 .. 5 /\ n \in 0 .. 5
  <2>1. PICK m \in 1 .. 5 : m = Len(Awaits(t)) BY LastIsNoStoreOp
  <2>2. i \in 1 .. m BY <2>1
  <2>3. i \in 1 .. 5 BY <2>2
  <2> QED BY <2>3
<1>2. at' = [at EXCEPT ![t] = n] BY DEF Reach
<1>3. queue' = IF Awaits(t)[i] \in StoreOps THEN Append(q, t) ELSE q BY DEF Reach
<1>4. old \in [AllThreads -> 0 .. 5] /\ old[t] = 0 /\ at' = [old EXCEPT ![t] = n]
  <2> HIDE DEF n
  <2> DEFINE f == [u \in AllThreads |-> IF u = t THEN n ELSE at[u]]
  <2>1. old \in [AllThreads -> 0 .. 5] /\ old[t] = 0 OBVIOUS
  <2>2. \A u \in AllThreads : u # t => old[u] = at[u] OBVIOUS
  <2>3. at' = f BY <1>2
  <2> HIDE DEF old
  <2>4. [old EXCEPT ![t] = n] = f BY <2>1, <2>2
  <2> QED BY <2>1, <2>3, <2>4
<1>5. ~AtStore(t, old[t]) BY <1>4 DEF AtStore
<1>6. at' \in [AllThreads -> 0 .. 5] BY <1>1, <1>2
<1>7. CASE Awaits(t)[i] \in StoreOps
  <2>1. n = i /\ AtStore(t, n) BY <1>1, <1>7, LastIsNoStoreOp DEF AtStore
  <2>2. n = 1 /\ t[1] \in Tasks => \A k \in Stops : old[<<k, t[2]>>] # 1
    <3> SUFFICES ASSUME n = 1, t[1] \in Tasks, NEW k \in Stops
                 PROVE old[<<k, t[2]>>] # 1
      OBVIOUS
    <3>1. <<k, t[2]>> \in AllThreads BY ThreadKinds, ThreadOfRun DEF Stops, Tasks, Kinds
    <3> QED BY <2>1, <3>1
  <2>3. queue' = Append(q, t) BY <1>3, <1>7
  <2> HIDE DEF n, old
  <2> QED BY <1>1, <1>4, <1>5, <1>6, <2>1, <2>2, <2>3, Queued DEF old
<1>8. CASE Awaits(t)[i] \notin StoreOps
  <2>1. ~AtStore(t, n) BY <1>8 DEF AtStore
  <2>2. queue' = q BY <1>3, <1>8
  <2> HIDE DEF n, old
  <2> QED BY <1>1, <1>4, <1>5, <1>6, <2>1, <2>2, Moved DEF old
<1> QED BY <1>7, <1>8

-------------------------------------------------------------------------------
(* One run                                                                   *)

\* What a thread does that goes on from an await: it moves, and may publish.
LEMMA ReachMoves ==
    ASSUME TypeInv, NEW t \in AllThreads, NEW i, NEW q, Reach(t, i, q)
    PROVE  /\ at'[t] = IF i = Len(Awaits(t)) /\ t[1] \notin {"send", "done"} THEN 0 ELSE i
           /\ \A u \in AllThreads : u # t => at'[u] = at[u]
BY DEF Reach, TypeInv

LEMMA ReachPublishes ==
    ASSUME TypeInv, NEW r \in Runs, NEW k \in Kinds, NEW i, NEW q, Reach(<<k, r>>, i, q)
    PROVE  /\ events' \in [Runs -> Seq(Names)] /\ known' = known
           /\ \A p \in Runs : p # r => events'[p] = events[p]
           /\ events'[r] = IF Awaits(<<k, r>>)[i] = "event"
                           THEN Append(events[r], Event[k]) ELSE events[r]
<1>1. k # "create" BY DEF Kinds, Tasks
<1>2. Event[k] \in Names BY DEF Kinds, Tasks, Event, Names
<1>3. known' = known BY <1>1 DEF Reach
<1>4. events' = IF Awaits(<<k, r>>)[i] = "event"
                THEN [events EXCEPT ![r] = Append(@, Event[k])] ELSE events
  BY <1>1 DEF Reach
<1>5. Append(events[r], Event[k]) \in Seq(Names) BY <1>2 DEF TypeInv
<1> QED BY <1>3, <1>4, <1>5 DEF TypeInv

\* An event more after the ones that were published.
LEMMA Published ==
    ASSUME NEW r \in Runs, events[r] \in Seq(Names), NEW e \in Names,
           events'[r] = Append(events[r], e)
    PROVE  /\ Ended(r)' <=> Ended(r) \/ e \in Ends
           /\ EndOrder(r) /\ (e \in Ends \/ ~Ended(r)) => EndOrder(r)'
           /\ (\A i \in 1 .. Len(events[r]) : events[r][i] = "RUN_STARTED")
                 /\ e = "RUN_STARTED"
              => \A i \in 1 .. Len(events'[r]) : events'[r][i] = "RUN_STARTED"
<1> DEFINE old == events[r]
           new == Append(old, e)
<1>1. Len(old) \in Nat /\ Len(new) = Len(old) + 1 /\ new[Len(old) + 1] = e OBVIOUS
<1>2. \A i \in 1 .. Len(old) : new[i] = old[i] OBVIOUS
<1>3. \A i \in 1 .. Len(new) : i \in 1 .. Len(old) \/ i = Len(old) + 1 BY <1>1
<1>4. \A i \in 1 .. Len(old) : i \in 1 .. Len(new) BY <1>1
<1>5. Len(old) + 1 \in 1 .. Len(new) BY <1>1
<1> HIDE DEF old, new
<1>6. (\E i \in 1 .. Len(new) : new[i] \in Ends)
        <=> (\E i \in 1 .. Len(old) : old[i] \in Ends) \/ e \in Ends
  BY <1>1, <1>2, <1>3, <1>4, <1>5
<1>7. ASSUME \A i, j \in 1 .. Len(old) : i < j /\ old[i] \in Ends => old[j] \in Ends,
             e \in Ends \/ ~ \E i \in 1 .. Len(old) : old[i] \in Ends,
             NEW i \in 1 .. Len(new), NEW j \in 1 .. Len(new), i < j, new[i] \in Ends
      PROVE new[j] \in Ends
  <2>1. i \in 1 .. Len(old) /\ old[i] \in Ends BY <1>1, <1>2, <1>7
  <2>2. CASE j \in 1 .. Len(old) BY <1>2, <1>7, <2>1, <2>2
  <2>3. CASE j = Len(old) + 1 BY <1>1, <1>7, <2>1, <2>3
  <2> QED BY <1>3, <2>2, <2>3
<1>8. (\A i \in 1 .. Len(old) : old[i] = "RUN_STARTED") /\ e = "RUN_STARTED"
        => \A i \in 1 .. Len(new) : new[i] = "RUN_STARTED"
  BY <1>1, <1>2, <1>3
<1> QED BY <1>6, <1>7, <1>8 DEF old, new, Ended, EndOrder

\* A step that does not touch what is kept of a run.
LEMMA RunKept ==
    ASSUME NEW r \in Runs, RunInv(r),
           \A k \in Kinds : at'[<<k, r>>] = at[<<k, r>>],
           events'[r] = events[r], timer'[r] = timer[r], copy'[r] = copy[r],
           home'[r] = home[r], known \subseteq known',
           (r \in active') = (r \in active), (r \in cancelled') = (r \in cancelled)
    PROVE  RunInv(r)'
<1>1. /\ at'[<<"send", r>>] = at[<<"send", r>>] /\ at'[<<"cancel", r>>] = at[<<"cancel", r>>]
      /\ at'[<<"fail", r>>] = at[<<"fail", r>>] /\ at'[<<"step", r>>] = at[<<"step", r>>]
      /\ at'[<<"chunk", r>>] = at[<<"chunk", r>>] /\ at'[<<"done", r>>] = at[<<"done", r>>]
      /\ at'[<<"finish", r>>] = at[<<"finish", r>>]
  BY DEF Kinds, Tasks
<1>2. (Ended(r)' <=> Ended(r)) /\ (EndOrder(r)' <=> EndOrder(r)) BY DEF Ended, EndOrder
<1>3. Quiet(r)' <=> Quiet(r) BY DEF Quiet
<1>4. NotStarted(r) => NotStarted(r)'
  BY DEF NotStarted, Kinds, Stops
<1>5. Started(r) => Started(r)' BY <1>1, <1>3 DEF Started
<1>6. CallbackInv(r) => CallbackInv(r)' BY <1>1 DEF CallbackInv
<1>7. RequestInv(r) => RequestInv(r)' BY <1>1 DEF RequestInv
<1>8. StopInv(r) => StopInv(r)' BY <1>1, <1>2, <1>3 DEF StopInv, Kinds, Tasks
<1> QED BY <1>2, <1>4, <1>5, <1>6, <1>7, <1>8 DEF RunInv

\* A thread of r goes on, or ends, at something else than its first await.  When
\* it publishes it is the request, or was at its first await until now, behind
\* every callback of the run if it is a stop.
LEMMA GoesOn ==
    ASSUME TypeInv, NEW r \in Runs, RunInv(r), NEW k \in Kinds, NEW n \in 0 .. 5,
           at[<<k, r>>] # 0, n # 1, at'[<<k, r>>] = n,
           \A j \in Kinds : j # k => at'[<<j, r>>] = at[<<j, r>>],
           timer'[r] = timer[r], home'[r] = home[r], known \subseteq known',
           (r \in active') = (r \in active), (r \in cancelled') = (r \in cancelled),
           copy[r] # NoSession => copy'[r] # NoSession,
           k = "send" /\ n > 1 => copy'[r] # NoSession,
           \/ events'[r] = events[r]
           \/ /\ events'[r] = Append(events[r], Event[k])
              /\ k # "send" => at[<<k, r>>] = 1
              /\ k \in Stops => \A j \in Tasks : at[<<j, r>>] # 1
    PROVE  RunInv(r)'
<1> USE DEF Kinds, Tasks, Stops
<1>1. Event[k] \in Names BY DEF Event, Names
<1>2. events[r] \in Seq(Names) BY DEF TypeInv
<1>3. Event[k] \in Ends <=> k \in Stops BY DEF Event, Ends
<1>4. k # "chunk" BY DEF RunInv, CallbackInv
<1>5. k = "send" => timer[r] = 0 /\ ~Ended(r)
  <2>1. k = "send" => timer[r] = 0 BY DEF RunInv, Started
  <2>2. timer[r] = 0 => ~Ended(r) BY DEF RunInv, NotStarted, Ended, Ends
  <2> QED BY <2>1, <2>2
<1>6. k # "send" => timer[r] # 0 BY DEF RunInv, NotStarted
<1>7. Quiet(r)' <=> Quiet(r) BY DEF Quiet
<1>8. k \in Stops /\ at[<<k, r>>] = 1 => Quiet(r) BY DEF RunInv, StopInv
<1>9. k \in Tasks /\ at[<<k, r>>] = 1 => ~Ended(r) BY DEF RunInv, StopInv
<1>10. Ended(r)' => Ended(r) \/ (k \in Stops /\ Quiet(r) /\ \A j \in Tasks : at[<<j, r>>] # 1)
  <2>1. CASE events'[r] = events[r] BY <2>1 DEF Ended
  <2>2. CASE events'[r] # events[r] BY <1>1, <1>2, <1>3, <1>8, <2>2, Published
  <2> QED BY <2>1, <2>2
<1>11. EndOrder(r)'
  <2>1. EndOrder(r) BY DEF RunInv
  <2>2. CASE events'[r] = events[r] BY <2>1, <2>2 DEF EndOrder
  <2>3. CASE events'[r] # events[r]
    <3>1. Event[k] \in Ends \/ ~Ended(r) BY <1>3, <1>4, <1>5, <1>9, <2>3
    <3> QED BY <1>1, <1>2, <2>1, <2>3, <3>1, Published
  <2> QED BY <2>2, <2>3
<1>12. timer'[r] = 0 => NotStarted(r)'
  <2> SUFFICES ASSUME timer[r] = 0 PROVE NotStarted(r)' OBVIOUS
  <2>1. k = "send" /\ NotStarted(r) BY <1>6 DEF RunInv
  <2>2. \A j \in Tasks \cup Stops : at'[<<j, r>>] = 0 BY <2>1 DEF NotStarted
  <2>3. \A i \in 1 .. Len(events'[r]) : events'[r][i] = "RUN_STARTED"
    <3>1. CASE events'[r] = events[r] BY <2>1, <3>1 DEF NotStarted
    <3>2. CASE events'[r] # events[r]
      <4>1. Event[k] = "RUN_STARTED" BY <2>1 DEF Event
      <4> QED BY <1>1, <1>2, <2>1, <3>2, <4>1, Published DEF NotStarted
    <3> QED BY <3>1, <3>2
  <2> QED BY <2>1, <2>2, <2>3 DEF NotStarted
<1>13. timer'[r] # 0 => Started(r)'
  <2> SUFFICES ASSUME timer[r] # 0 PROVE Started(r)' OBVIOUS
  <2>1. k # "send" /\ Started(r) BY <1>5 DEF RunInv
  <2> QED BY <1>7, <2>1 DEF Started
<1>14. CallbackInv(r)'
  <2>1. CallbackInv(r) BY DEF RunInv
  <2>2. \A j \in Kinds : at'[<<j, r>>] # 0 => at[<<j, r>>] # 0 OBVIOUS
  <2>3. at'[<<"chunk", r>>] = 0 BY <1>4, <2>1 DEF CallbackInv
  <2> QED BY <2>1, <2>2, <2>3 DEF CallbackInv
<1>15. RequestInv(r)'
  <2>1. RequestInv(r) BY DEF RunInv
  <2>2. r \in active => k # "cancel" BY <2>1 DEF RequestInv
  <2> QED BY <2>1, <2>2 DEF RequestInv
<1>16. StopInv(r)'
  <2>1. StopInv(r) BY DEF RunInv
  <2>2. \A j \in Kinds : at'[<<j, r>>] = 1 => at[<<j, r>>] = 1 OBVIOUS
  <2> QED BY <1>7, <1>10, <2>1, <2>2 DEF StopInv
<1> QED BY <1>11, <1>12, <1>13, <1>14, <1>15, <1>16 DEF RunInv

\* A stop of r begins: nothing of it will begin any more.
LEMMA Stopped ==
    ASSUME TypeInv, NEW r \in Runs, RunInv(r), NEW k \in Stops, timer[r] # 0,
           at'[<<k, r>>] = 1, \A j \in Kinds : j # k => at'[<<j, r>>] \in {0, at[<<j, r>>]},
           timer'[r] = timer[r], home'[r] = home[r], known \subseteq known',
           r \notin active', r \in active \/ r \in cancelled => r \in cancelled',
           copy'[r] = copy[r], events'[r] = events[r]
    PROVE  RunInv(r)'
<1> USE DEF Kinds, Tasks, Stops
<1>1. Started(r) BY DEF RunInv
<1>2. Quiet(r)' BY <1>1 DEF Started, Quiet
<1>3. (Ended(r)' <=> Ended(r)) /\ (EndOrder(r)' <=> EndOrder(r)) BY DEF Ended, EndOrder
<1>4. Started(r)' BY <1>1, <1>2 DEF Started
<1>5. CallbackInv(r)' BY DEF RunInv, CallbackInv
<1>6. RequestInv(r)'
  <2>1. at'[<<"send", r>>] = 0 BY <1>4 DEF Started
  <2> QED BY <2>1 DEF RequestInv
<1>7. StopInv(r)' BY <1>2, <1>3 DEF RunInv, StopInv
<1> QED BY <1>3, <1>4, <1>5, <1>6, <1>7 DEF RunInv

-------------------------------------------------------------------------------
(* Steps                                                                     *)

\* All that the thread of kind k of run r brings about by reaching its await i.
Reached(k, r, i) ==
    /\ at' \in [AllThreads -> 0 .. 5] /\ queue' \in Seq(AllThreads)
    /\ InOrder(queue', at')
    /\ at'[<<k, r>>] = IF i = Len(Awaits(<<k, r>>)) /\ k \notin {"send", "done"}
                       THEN 0 ELSE i
    /\ \A j \in Kinds : j # k => at'[<<j, r>>] = at[<<j, r>>]
    /\ \A p \in Runs : p # r => \A j \in Kinds : at'[<<j, p>>] = at[<<j, p>>]
    /\ events' \in [Runs -> Seq(Names)] /\ known' = known
    /\ \A p \in Runs : p # r => events'[p] = events[p]
    /\ events'[r] = IF Awaits(<<k, r>>)[i] = "event"
                    THEN Append(events[r], Event[k]) ELSE events[r]

LEMMA RunReaches ==
    ASSUME TypeInv, NEW r \in Runs, NEW k \in Kinds,
           NEW q \in Seq(AllThreads), InOrder(q, Without(<<k, r>>)),
           NEW i \in 1 .. Len(Awaits(<<k, r>>)), Reach(<<k, r>>, i, q),
           i = 1 /\ k \in Tasks => NoStop(r)
    PROVE  Reached(k, r, i)
<1>1. PICK t \in AllThreads : t = <<k, r>> BY ThreadOfRun
<1>2. t[1] = k /\ t[2] = r BY <1>1
<1>3. at \in [AllThreads -> 0 .. 5] BY DEF TypeInv
<1>4. /\ at' \in [AllThreads -> 0 .. 5] /\ queue' \in Seq(AllThreads)
      /\ InOrder(queue', at')
  <2>1. i = 1 /\ t[1] \in Tasks => \A j \in Stops : at[<<j, t[2]>>] # 1
    BY <1>2 DEF NoStop
  <2>2. InOrder(q, [at EXCEPT ![t] = 0]) /\ i \in 1 .. Len(Awaits(t)) /\ Reach(t, i, q)
    BY <1>1 DEF Without
  <2> QED BY <1>3, <2>1, <2>2, ReachInOrder
<1>5. /\ at'[t] = IF i = Len(Awaits(t)) /\ t[1] \notin {"send", "done"} THEN 0 ELSE i
      /\ \A u \in AllThreads : u # t => at'[u] = at[u]
  <2>1. Reach(t, i, q) BY <1>1
  <2> QED BY <2>1, ReachMoves
<1>6. \A j \in Kinds : j # k => at'[<<j, r>>] = at[<<j, r>>]
  BY <1>1, <1>5, ThreadOfRun
<1>7. \A p \in Runs : p # r => \A j \in Kinds : at'[<<j, p>>] = at[<<j, p>>]
  BY <1>1, <1>5, ThreadOfRun
<1>8. at'[<<k, r>>] = IF i = Len(Awaits(<<k, r>>)) /\ k \notin {"send", "done"}
                      THEN 0 ELSE i
  BY <1>1, <1>2, <1>5
<1>9. /\ events' \in [Runs -> Seq(Names)] /\ known' = known
      /\ \A p \in Runs : p # r => events'[p] = events[p]
      /\ events'[r] = IF Awaits(<<k, r>>)[i] = "event"
                      THEN Append(events[r], Event[k]) ELSE events[r]
  BY ReachPublishes
<1> QED BY <1>4, <1>6, <1>7, <1>8, <1>9 DEF Reached

\* The runs whose threads and events a step leaves alone.
LEMMA OtherRuns ==
    ASSUME NEW r, \A p \in Runs : RunInv(p),
           \A p \in Runs : p # r =>
              /\ \A j \in Kinds : at'[<<j, p>>] = at[<<j, p>>]
              /\ events'[p] = events[p] /\ timer'[p] = timer[p] /\ copy'[p] = copy[p]
              /\ (p \in active') = (p \in active)
              /\ (p \in cancelled') = (p \in cancelled),
           home' = home, known \subseteq known'
    PROVE  \A p \in Runs : p # r => RunInv(p)'
BY RunKept

\* A thread that is not under way is not taken out of the queue.
LEMMA NotUnderWay ==
    ASSUME at \in [AllThreads -> 0 .. 5], NEW t \in AllThreads, at[t] = 0
    PROVE  Without(t) = at
BY DEF Without

\* Nor is one that does not wait for the store.
LEMMA NotWaiting ==
    ASSUME at \in [AllThreads -> 0 .. 5], queue \in Seq(AllThreads), InOrder(queue, at),
           NEW t \in AllThreads, ~AtStore(t, at[t])
    PROVE  InOrder(queue, Without(t))
<1>1. PICK n \in 0 .. 5 : n = 0 OBVIOUS
<1>2. ~AtStore(t, n) BY <1>1 DEF AtStore
<1>3. InOrder(queue, [at EXCEPT ![t] = n]) BY <1>2, Moved
<1> QED BY <1>1, <1>3 DEF Without

\* The first await of a request or a stop is one of the store; of a callback, too,
\* but for the pieces of the reply.
LEMMA FirstAwait ==
    ASSUME NEW r \in Runs, NEW k \in Kinds
    PROVE  /\ 1 \in 1 .. Len(Awaits(<<k, r>>))
           /\ k # "chunk" => Len(Awaits(<<k, r>>)) # 1 /\ Awaits(<<k, r>>)[1] # "event"
           /\ k = "chunk" => Len(Awaits(<<k, r>>)) = 1 /\ Awaits(<<k, r>>)[1] = "event"
<1>1. PICK t : t = <<k, r>> OBVIOUS
<1>2. t[1] = k BY <1>1
<1>3. /\ Len(Awaits(t)) \in 1 .. 5
      /\ k # "chunk" => Len(Awaits(t)) # 1 /\ Awaits(t)[1] # "event"
      /\ k = "chunk" => Len(Awaits(t)) = 1 /\ Awaits(t)[1] = "event"
  BY <1>2, AwaitsSend, AwaitsStep, AwaitsChunk, AwaitsEnd DEF Kinds, Tasks
<1> QED BY <1>1, <1>3

\* A message is sent.
LEMMA SendStep ==
    ASSUME SessionInv, NEW r \in Runs, SendUserMessage(r)
    PROVE  SessionInv'
<1>1. TypeInv /\ InOrder(queue, at) /\ KnownInv /\ \A p \in Runs : RunInv(p)
  BY DEF SessionInv
<1> DEFINE t == <<"send", r>>
<1>2. "send" \in Kinds /\ "send" \notin Tasks BY DEF Kinds, Tasks
<1>3. t \in AllThreads BY <1>2, ThreadOfRun
<1>4. copy[r] = NoSession /\ at[t] = 0 /\ home[r] \in known
  BY DEF SendUserMessage, Sent
<1>5. Reach(t, 1, queue) BY DEF SendUserMessage
<1>6. InOrder(queue, Without(t)) /\ queue \in Seq(AllThreads)
  BY <1>1, <1>3, <1>4, NotUnderWay DEF TypeInv
<1>7. /\ at' \in [AllThreads -> 0 .. 5] /\ queue' \in Seq(AllThreads)
      /\ InOrder(queue', at') /\ at'[t] = 1
      /\ \A j \in Kinds : j # "send" => at'[<<j, r>>] = at[<<j, r>>]
      /\ \A p \in Runs : p # r => \A j \in Kinds : at'[<<j, p>>] = at[<<j, p>>]
      /\ events' \in [Runs -> Seq(Names)] /\ known' = known
      /\ \A p \in Runs : p # r => events'[p] = events[p]
      /\ events'[r] = events[r]
  <2>1. 1 \in 1 .. Len(Awaits(t)) BY <1>2, FirstAwait
  <2>2. Reached("send", r, 1) BY <1>1, <1>2, <1>5, <1>6, <2>1, RunReaches
  <2>3. Len(Awaits(t)) # 1 /\ Awaits(t)[1] # "event" BY <1>2, FirstAwait
  <2> QED BY <2>2, <2>3 DEF Reached
<1>8. UNCHANGED <<home, store, copy, timer, active, cancelled>> BY DEF SendUserMessage
<1>9. TypeInv' BY <1>1, <1>7, <1>8 DEF TypeInv
<1>10. KnownInv' BY <1>1, <1>7, <1>8 DEF KnownInv
<1>11. \A p \in Runs : p # r => RunInv(p)' BY <1>1, <1>7, <1>8, OtherRuns
<1>12. RunInv(r)'
  <2>1. timer[r] = 0 /\ RunInv(r) BY <1>1, <1>4 DEF RunInv, Started
  <2>2. (Ended(r)' <=> Ended(r)) /\ (EndOrder(r)' <=> EndOrder(r)) /\ (Quiet(r)' <=> Quiet(r))
    BY <1>7, <1>8 DEF Ended, EndOrder, Quiet
  <2>3. \A j \in Tasks \cup Stops : at'[<<j, r>>] = at[<<j, r>>]
    BY <1>7 DEF Kinds, Tasks, Stops
  <2>4. NotStarted(r)' BY <1>7, <1>8, <2>1, <2>3 DEF RunInv, NotStarted
  <2>5. CallbackInv(r)' BY <1>8, <2>1, <2>3 DEF RunInv, CallbackInv, Tasks
  <2>6. RequestInv(r)' BY <1>4, <1>7, <1>8, <2>1, <2>3 DEF RunInv, RequestInv, Stops
  <2>7. StopInv(r)' BY <2>1, <2>2, <2>3 DEF RunInv, StopInv, Stops
  <2> QED BY <1>8, <2>1, <2>2, <2>4, <2>5, <2>6, <2>7 DEF RunInv
<1> QED BY <1>7, <1>9, <1>10, <1>11, <1>12 DEF SessionInv

\* The user cancels an active run.
LEMMA CancelStep ==
    ASSUME SessionInv, NEW r \in Runs, CancelRun(r)
    PROVE  SessionInv'
<1>1. TypeInv /\ InOrder(queue, at) /\ KnownInv /\ \A p \in Runs : RunInv(p)
  BY DEF SessionInv
<1> DEFINE t == <<"cancel", r>>
<1>2. "cancel" \in Kinds /\ "cancel" \notin Tasks /\ "cancel" \in Stops
  BY DEF Kinds, Tasks, Stops
<1>3. t \in AllThreads BY <1>2, ThreadOfRun
<1>4. r \in active /\ active' = active \ {r} /\ cancelled' = cancelled \cup {r}
  BY DEF CancelRun
<1>5. at[t] = 0 /\ timer[r] # 0
  BY <1>1, <1>4 DEF RunInv, RequestInv, NotStarted
<1>6. InOrder(queue, Without(t)) /\ queue \in Seq(AllThreads)
  BY <1>1, <1>3, <1>5, NotUnderWay DEF TypeInv
<1>7. Reach(t, 1, queue) BY DEF CancelRun
<1>8. /\ at' \in [AllThreads -> 0 .. 5] /\ queue' \in Seq(AllThreads)
      /\ InOrder(queue', at') /\ at'[t] = 1
      /\ \A j \in Kinds : j # "cancel" => at'[<<j, r>>] = at[<<j, r>>]
      /\ \A p \in Runs : p # r => \A j \in Kinds : at'[<<j, p>>] = at[<<j, p>>]
      /\ events' \in [Runs -> Seq(Names)] /\ known' = known
      /\ \A p \in Runs : p # r => events'[p] = events[p]
      /\ events'[r] = events[r]
  <2>1. 1 \in 1 .. Len(Awaits(t)) BY <1>2, FirstAwait
  <2>2. Reached("cancel", r, 1) BY <1>1, <1>2, <1>6, <1>7, <2>1, RunReaches
  <2>3. Len(Awaits(t)) # 1 /\ Awaits(t)[1] # "event" BY <1>2, FirstAwait
  <2> QED BY <2>2, <2>3 DEF Reached
<1>9. UNCHANGED <<home, store, copy, timer>> BY DEF CancelRun
<1>10. TypeInv' BY <1>1, <1>4, <1>8, <1>9 DEF TypeInv
<1>11. KnownInv' BY <1>1, <1>8, <1>9 DEF KnownInv
<1>12. \A p \in Runs : p # r => RunInv(p)'
  <2>1. \A p \in Runs : p # r =>
           /\ (p \in active') = (p \in active)
           /\ (p \in cancelled') = (p \in cancelled)
    BY <1>4
  <2> QED BY <1>1, <1>8, <1>9, <2>1, OtherRuns
<1>13. RunInv(r)' BY <1>1, <1>2, <1>4, <1>5, <1>8, <1>9, Stopped
<1> QED BY <1>8, <1>10, <1>11, <1>12, <1>13 DEF SessionInv

\* The next callback of a run begins.
LEMMA FireStep ==
    ASSUME SessionInv, NEW r \in Runs, Fire(r)
    PROVE  SessionInv'
<1>1. TypeInv /\ InOrder(queue, at) /\ KnownInv /\ RunInv(r) /\ \A p \in Runs : RunInv(p)
  BY DEF SessionInv
<1>2. timer[r] \in 1 .. Chunks + 3 /\ r \notin cancelled
  BY TimersListed DEF Fire
<1>3. PICK k : k = Timers[timer[r]] OBVIOUS
<1>4. Chunks \in Nat /\ timer[r] \in Nat BY <1>2, SessionRuntimeAssumption
<1>5. \/ timer[r] = 1 /\ k = "step"
      \/ timer[r] \in 2 .. Chunks + 1 /\ k = "chunk"
      \/ timer[r] = Chunks + 2 /\ k = "finish"
      \/ timer[r] = Chunks + 3 /\ k = "done"
  BY <1>2, <1>3, <1>4, TimersListed
<1>6. k \in Kinds /\ k \in Tasks BY <1>5 DEF Kinds, Tasks
<1> DEFINE t == <<k, r>>
<1>7. t \in AllThreads BY <1>6, ThreadOfRun
<1>8. at[t] = 0
  <2>1. CallbackInv(r) BY <1>1 DEF RunInv
  <2> QED BY <1>4, <1>5, <2>1 DEF CallbackInv
<1>9. ~Quiet(r) BY <1>2, <1>4 DEF Quiet
<1>10. ~Ended(r) /\ \A j \in Stops : at[<<j, r>>] # 1
  BY <1>1, <1>9 DEF RunInv, StopInv, Stops
<1>11. r \in active /\ Started(r) /\ timer[r] # 0 BY <1>1, <1>2, <1>9 DEF RunInv, Started
<1>12. InOrder(queue, Without(t)) /\ queue \in Seq(AllThreads)
  BY <1>1, <1>7, <1>8, NotUnderWay DEF TypeInv
<1>13. Reach(t, 1, queue) /\ timer' = [timer EXCEPT ![r] = @ + 1] BY <1>3 DEF Fire
<1>14. /\ at' \in [AllThreads -> 0 .. 5] /\ queue' \in Seq(AllThreads)
       /\ InOrder(queue', at') /\ at'[t] \in {0, 1} /\ (k = "chunk" => at'[t] = 0)
       /\ \A j \in Kinds : j # k => at'[<<j, r>>] = at[<<j, r>>]
       /\ \A p \in Runs : p # r => \A j \in Kinds : at'[<<j, p>>] = at[<<j, p>>]
       /\ events' \in [Runs -> Seq(Names)] /\ known' = known
       /\ \A p \in Runs : p # r => events'[p] = events[p]
       /\ events'[r] = IF k = "chunk" THEN Append(events[r], Event[k]) ELSE events[r]
  <2>1. 1 \in 1 .. Len(Awaits(t)) BY <1>6, FirstAwait
  <2>2. Reached(k, r, 1)
    <3>1. NoStop(r) BY <1>10 DEF NoStop
    <3>2. TypeInv BY <1>1
    <3>3. Reach(t, 1, queue) BY <1>13
    <3> QED BY <1>6, <1>12, <2>1, <3>1, <3>2, <3>3, RunReaches
  <2>3. at'[t] \in {0, 1} /\ (k = "chunk" => at'[t] = 0)
    BY <1>6, <2>2, FirstAwait DEF Reached
  <2>4. Awaits(t)[1] = "event" <=> k = "chunk" BY <1>6, FirstAwait
  <2> QED BY <2>2, <2>3, <2>4 DEF Reached
<1>15. UNCHANGED <<home, store, copy, active, cancelled>> BY DEF Fire
<1>16. timer' \in [Runs -> 0 .. Chunks + 4] /\ timer'[r] = timer[r] + 1
       /\ \A p \in Runs : p # r => timer'[p] = timer[p]
  BY <1>1, <1>2, <1>4, <1>13 DEF TypeInv
<1>17. TypeInv' BY <1>1, <1>14, <1>15, <1>16 DEF TypeInv
<1>18. KnownInv' BY <1>1, <1>14, <1>15 DEF KnownInv
<1>19. \A p \in Runs : p # r => RunInv(p)' BY <1>1, <1>14, <1>15, <1>16, OtherRuns
<1>20. ~Ended(r)' /\ EndOrder(r)'
  <2>1. EndOrder(r) BY <1>1 DEF RunInv
  <2>2. CASE k = "chunk"
    <3>1. Event[k] \in Names /\ Event[k] \notin Ends BY <2>2 DEF Event, Names, Ends
    <3>2. events[r] \in Seq(Names) BY <1>1 DEF TypeInv
    <3> QED BY <1>10, <1>14, <2>1, <2>2, <3>1, <3>2, Published
  <2>3. CASE k # "chunk" BY <1>10, <1>14, <2>1, <2>3 DEF Ended, EndOrder
  <2> QED BY <2>2, <2>3
<1>21. Started(r)'
  <2>1. at'[<<"send", r>>] = at[<<"send", r>>] BY <1>6, <1>14 DEF Kinds, Tasks
  <2> QED BY <1>11, <1>15, <2>1 DEF Started
<1>22. CallbackInv(r)'
  <2>1. CallbackInv(r) BY <1>1 DEF RunInv
  <2>2. \A j \in Tasks : j # k => at'[<<j, r>>] = at[<<j, r>>]
    BY <1>14 DEF Kinds
  <2>3. at'[<<"chunk", r>>] = 0
    BY <1>14, <2>1, <2>2 DEF CallbackInv, Tasks
  <2>4. at'[<<"step", r>>] # 0 => timer'[r] > 1
    BY <1>4, <1>5, <1>16, <2>1, <2>2 DEF CallbackInv, Tasks
  <2>5. at'[<<"finish", r>>] # 0 => timer'[r] > Chunks + 2
    BY <1>4, <1>5, <1>16, <2>1, <2>2 DEF CallbackInv, Tasks
  <2>6. at'[<<"done", r>>] # 0 => timer'[r] > Chunks + 3
    BY <1>4, <1>5, <1>16, <2>1, <2>2 DEF CallbackInv, Tasks
  <2> QED BY <2>3, <2>4, <2>5, <2>6 DEF CallbackInv
<1>23. RequestInv(r)'
  <2>1. /\ at'[<<"cancel", r>>] = at[<<"cancel", r>>]
        /\ at'[<<"send", r>>] = at[<<"send", r>>]
    BY <1>6, <1>14 DEF Kinds, Tasks
  <2> QED BY <1>1, <1>14, <1>15, <2>1 DEF RunInv, RequestInv
<1>24. StopInv(r)'
  <2>1. \A j \in Stops : at'[<<j, r>>] = at[<<j, r>>]
    BY <1>6, <1>14 DEF Kinds, Tasks, Stops
  <2> QED BY <1>10, <1>20, <2>1 DEF StopInv, Stops
<1>25. RunInv(r)'
  <2>1. timer'[r] # 0 BY <1>4, <1>16
  <2> QED BY <1>20, <1>21, <1>22, <1>23, <1>24, <2>1 DEF RunInv
<1> QED BY <1>14, <1>17, <1>18, <1>19, <1>25 DEF SessionInv

\* All threads of the process end with it.
LEMMA RestartStep ==
    ASSUME SessionInv, Restart
    PROVE  SessionInv'
<1>1. TypeInv /\ KnownInv /\ \A p \in Runs : RunInv(p) BY DEF SessionInv
<1>2. /\ at' = [u \in AllThreads |-> 0] /\ queue' = <<>>
      /\ active' = {} /\ cancelled' = cancelled \cup Sent
      /\ UNCHANGED <<home, store, copy, timer, events, known>>
  BY DEF Restart, AllThreads
<1>3. TypeInv' BY <1>1, <1>2 DEF TypeInv, Sent
<1>4. InOrder(queue', at') BY <1>2 DEF InOrder, AtStore
<1>5. KnownInv' BY <1>1, <1>2 DEF KnownInv
<1>6. ASSUME NEW r \in Runs PROVE RunInv(r)'
  <2>1. RunInv(r) BY <1>1
  <2>2. \A k \in Kinds : at'[<<k, r>>] = 0 BY <1>2, ThreadOfRun
  <2>3. /\ at'[<<"send", r>>] = 0 /\ at'[<<"cancel", r>>] = 0 /\ at'[<<"fail", r>>] = 0
        /\ \A k \in Tasks : at'[<<k, r>>] = 0
    BY <2>2 DEF Kinds
  <2>4. (Ended(r)' <=> Ended(r)) /\ (EndOrder(r)' <=> EndOrder(r)) /\ (Quiet(r) => Quiet(r)')
    BY <1>2 DEF Ended, EndOrder, Quiet
  <2>5. timer'[r] = 0 => NotStarted(r)'
    BY <1>2, <2>1, <2>3 DEF RunInv, NotStarted, Stops
  <2>6. timer'[r] # 0 => Started(r)'
    <3> SUFFICES ASSUME timer[r] # 0 PROVE Started(r)' BY <1>2
    <3>1. copy[r] # NoSession BY <2>1 DEF RunInv, Started
    <3>2. r \in cancelled' BY <1>2, <3>1 DEF Sent
    <3> QED BY <1>2, <2>3, <3>1, <3>2 DEF Started, Quiet
  <2>7. CallbackInv(r)' BY <2>3 DEF CallbackInv, Tasks
  <2>8. RequestInv(r)' BY <2>3 DEF RequestInv
  <2>9. StopInv(r)' BY <2>1, <2>3, <2>4 DEF RunInv, StopInv
  <2> QED BY <2>1, <2>4, <2>5, <2>6, <2>7, <2>8, <2>9 DEF RunInv
<1> QED BY <1>3, <1>4, <1>5, <1>6 DEF SessionInv

\* The same of a thread that creates a session.
Created(s, i) ==
    /\ at' \in [AllThreads -> 0 .. 5] /\ queue' \in Seq(AllThreads)
    /\ InOrder(queue', at')
    /\ \A p \in Runs : \A j \in Kinds : at'[<<j, p>>] = at[<<j, p>>]
    /\ events' = events
    /\ known' = IF i = 2 THEN known \cup {s} ELSE known

LEMMA CreateReaches ==
    ASSUME TypeInv, NEW s \in Sessions,
           NEW q \in Seq(AllThreads), InOrder(q, Without(<<"create", s>>)),
           NEW i \in 1 .. Len(Awaits(<<"create", s>>)), Reach(<<"create", s>>, i, q)
    PROVE  Created(s, i)
<1>1. PICK t \in AllThreads : t = <<"create", s>> BY ThreadOfSession
<1>2. t[1] = "create" /\ t[2] = s /\ t[1] \notin Tasks BY <1>1 DEF Tasks
<1>3. at \in [AllThreads -> 0 .. 5] BY DEF TypeInv
<1>4. /\ at' \in [AllThreads -> 0 .. 5] /\ queue' \in Seq(AllThreads)
      /\ InOrder(queue', at')
  <2>1. InOrder(q, [at EXCEPT ![t] = 0]) /\ i \in 1 .. Len(Awaits(t)) /\ Reach(t, i, q)
    BY <1>1 DEF Without
  <2> QED BY <1>2, <1>3, <2>1, ReachInOrder
<1>5. \A p \in Runs : \A j \in Kinds : at'[<<j, p>>] = at[<<j, p>>]
  <2>1. Reach(t, i, q) BY <1>1
  <2>2. \A u \in AllThreads : u # t => at'[u] = at[u] BY <2>1, ReachMoves
  <2>3. \A p \in Runs : \A j \in Kinds : <<j, p>> # t BY <1>1 DEF Kinds, Tasks
  <2> QED BY <2>2, <2>3, ThreadOfRun
<1>6. Awaits(t)[i] = "event" <=> i = 2
  <2>1. i \in 1 .. 4 BY <1>1, <1>2, AwaitsCreate
  <2> QED BY <1>2, <2>1, AwaitsCreate
<1>7. events' = events /\ known' = IF i = 2 THEN known \cup {s} ELSE known
  BY <1>1, <1>2, <1>6 DEF Reach
<1> QED BY <1>4, <1>5, <1>7 DEF Created

\* A session is to be created.
LEMMA CreateStep ==
    ASSUME SessionInv, NEW s \in Sessions, CreateSession(s)
    PROVE  SessionInv'
<1>1. TypeInv /\ InOrder(queue, at) /\ KnownInv /\ \A p \in Runs : RunInv(p)
  BY DEF SessionInv
<1>2. PICK t \in AllThreads : t = <<"create", s>> BY ThreadOfSession
<1>3. at[t] = 0 /\ Reach(<<"create", s>>, 1, queue) BY <1>2 DEF CreateSession
<1>4. InOrder(queue, Without(<<"create", s>>)) /\ queue \in Seq(AllThreads)
  BY <1>1, <1>2, <1>3, NotUnderWay DEF TypeInv
<1>5. 1 \in 1 .. Len(Awaits(<<"create", s>>)) BY ThreadOfSession, AwaitsCreate
<1>6. Created(s, 1) BY <1>1, <1>3, <1>4, <1>5, CreateReaches
<1>7. UNCHANGED <<home, store, copy, timer, active, cancelled>> BY DEF CreateSession
<1>8. TypeInv' BY <1>1, <1>6, <1>7 DEF TypeInv, Created
<1>9. KnownInv' BY <1>1, <1>6, <1>7 DEF KnownInv, Created
<1>10. \A p \in Runs : RunInv(p)' BY <1>1, <1>6, <1>7, RunKept DEF Created
<1> QED BY <1>6, <1>8, <1>9, <1>10 DEF SessionInv, Created

\* A thread has published and goes on.
LEMMA AnswerStep ==
    ASSUME SessionInv, NEW t \in AllThreads, Answer(t)
    PROVE  SessionInv'
<1>1. TypeInv /\ InOrder(queue, at) /\ KnownInv /\ \A p \in Runs : RunInv(p)
  BY DEF SessionInv
<1>2. /\ at[t] # 0 /\ Awaits(t)[at[t]] \in {"event", "snapshot"}
      /\ at[t] < Len(Awaits(t)) /\ Reach(t, at[t] + 1, queue)
      /\ UNCHANGED <<home, store, copy, timer, active, cancelled>>
  BY DEF Answer, Waits
<1>3. at \in [AllThreads -> 0 .. 5] /\ at[t] \in 0 .. 5 /\ queue \in Seq(AllThreads)
  BY <1>1 DEF TypeInv
<1>4. Len(Awaits(t)) \in 1 .. 5 BY LastIsNoStoreOp
<1>5. PICK i \in 1 .. 5 : i = at[t] + 1 /\ i \in 1 .. Len(Awaits(t)) /\ i > 1
  <2>1. PICK m \in 1 .. 5 : m = Len(Awaits(t)) BY <1>4
  <2>2. PICK a \in 0 .. 5 : a = at[t] BY <1>3
  <2>3. a # 0 /\ a < m BY <1>2, <2>1, <2>2
  <2>4. a + 1 \in 1 .. 5 /\ a + 1 \in 1 .. m /\ a + 1 > 1 BY <2>3
  <2> QED BY <2>1, <2>2, <2>4
<1>6. InOrder(queue, Without(t))
  <2>1. ~AtStore(t, at[t]) BY <1>2 DEF AtStore, StoreOps
  <2> QED BY <1>1, <1>3, <2>1, NotWaiting
<1>7. CASE t \in Creates
  <2>1. PICK s \in Sessions : t = <<"create", s>> BY <1>7 DEF Creates
  <2>2. Created(s, i) BY <1>1, <1>2, <1>3, <1>5, <1>6, <2>1, CreateReaches
  <2>3. i # 2
    <3>1. t[1] = "create" BY <2>1
    <3> QED BY <1>2, <1>3, <1>5, <3>1, AwaitsCreate
  <2>4. TypeInv' BY <1>1, <1>2, <2>2, <2>3 DEF TypeInv, Created
  <2>5. KnownInv' BY <1>1, <1>2, <2>2, <2>3 DEF KnownInv, Created
  <2>6. \A p \in Runs : RunInv(p)' BY <1>1, <1>2, <2>2, <2>3, RunKept DEF Created
  <2> QED BY <2>2, <2>4, <2>5, <2>6 DEF SessionInv, Created
<1>8. CASE t \notin Creates
  <2>1. PICK k \in Kinds, r \in Runs : t = <<k, r>> /\ t[1] = k BY <1>8, ThreadKinds
  <2>2. Reached(k, r, i) BY <1>1, <1>2, <1>3, <1>5, <1>6, <2>1, RunReaches
  <2>3. TypeInv' BY <1>1, <1>2, <2>2 DEF TypeInv, Reached
  <2>4. KnownInv' BY <1>1, <1>2, <2>2 DEF KnownInv, Reached
  <2>5. \A p \in Runs : p # r => RunInv(p)'
    BY <1>1, <1>2, <2>2, OtherRuns DEF Reached
  <2>6. Awaits(t)[i] = "event" => k = "send"
    BY <1>2, <1>3, <1>5, <2>1, AwaitsStep, AwaitsChunk, AwaitsEnd DEF Kinds, Tasks
  <2>7. k = "send" => copy[r] # NoSession
    <3>1. k = "send" => at[<<"send", r>>] > 1
      BY <1>2, <1>3, <2>1, AwaitsSend
    <3> QED BY <1>1, <3>1 DEF RunInv, RequestInv
  <2>8. RunInv(r)'
    <3>1. PICK n \in 0 .. 5 : n = at'[<<k, r>>] /\ n # 1
      BY <1>5, <2>2 DEF Reached
    <3>2. at[<<k, r>>] # 0 /\ RunInv(r) BY <1>1, <1>2, <2>1
    <3>3. \/ events'[r] = events[r]
          \/ k = "send" /\ events'[r] = Append(events[r], Event[k])
      BY <2>1, <2>2, <2>6 DEF Reached
    <3>4. k = "send" => k \notin Stops BY DEF Stops
    <3>5. /\ \A j \in Kinds : j # k => at'[<<j, r>>] = at[<<j, r>>]
          /\ timer'[r] = timer[r] /\ home'[r] = home[r] /\ known \subseteq known'
          /\ (r \in active') = (r \in active) /\ (r \in cancelled') = (r \in cancelled)
          /\ copy'[r] = copy[r]
      BY <1>2, <2>2 DEF Reached
    <3> QED BY <1>1, <2>7, <3>1, <3>2, <3>3, <3>4, <3>5, GoesOn
  <2> QED BY <2>2, <2>3, <2>4, <2>5, <2>8 DEF SessionInv, Reached
<1> QED BY <1>7, <1>8

\* A thread ends at its await: what the others do is not touched.
LEMMA EndsAt ==
    ASSUME TypeInv, InOrder(queue, at), NEW t \in AllThreads, ~AtStore(t, at[t]),
           at' = Without(t), queue' = queue
    PROVE  /\ at' \in [AllThreads -> 0 .. 5] /\ InOrder(queue', at') /\ at'[t] = 0
           /\ \A u \in AllThreads : u # t => at'[u] = at[u]
<1>1. at \in [AllThreads -> 0 .. 5] /\ queue \in Seq(AllThreads) BY DEF TypeInv
<1>2. InOrder(queue', at') BY <1>1, NotWaiting
<1> QED BY <1>1, <1>2 DEF Without

\* The last await of a thread is over.
LEMMA FinishStep ==
    ASSUME SessionInv, NEW t \in AllThreads, Finish(t)
    PROVE  SessionInv'
<1>1. TypeInv /\ InOrder(queue, at) /\ KnownInv /\ \A p \in Runs : RunInv(p)
  BY DEF SessionInv
<1>2. /\ at[t] # 0 /\ Awaits(t)[at[t]] \in {"event", "snapshot"}
      /\ at[t] = Len(Awaits(t)) /\ at' = Without(t)
      /\ active' = CASE t[1] = "send" -> active \cup {t[2]}
                     [] t[1] = "done" -> active \ {t[2]}
                     [] OTHER -> active
      /\ timer' = IF t[1] = "send" THEN [timer EXCEPT ![t[2]] = 1] ELSE timer
      /\ UNCHANGED <<home, store, copy, queue, cancelled, events, known>>
  BY DEF Finish, Waits, Without
<1>3. ~AtStore(t, at[t]) BY <1>2 DEF AtStore, StoreOps
<1>4. /\ at' \in [AllThreads -> 0 .. 5] /\ InOrder(queue', at') /\ at'[t] = 0
      /\ \A u \in AllThreads : u # t => at'[u] = at[u]
  BY <1>1, <1>2, <1>3, EndsAt
<1>5. KnownInv' BY <1>1, <1>2 DEF KnownInv
<1>6. CASE t \in Creates
  <2>1. t[1] = "create" BY <1>6 DEF Creates
  <2>2. active' = active /\ timer' = timer BY <1>2, <2>1
  <2>3. \A p \in Runs : \A j \in Kinds : <<j, p>> # t BY <2>1 DEF Kinds, Tasks
  <2>4. \A p \in Runs : \A j \in Kinds : at'[<<j, p>>] = at[<<j, p>>]
    BY <1>4, <2>3, ThreadOfRun
  <2>5. TypeInv' BY <1>1, <1>2, <1>4, <2>2 DEF TypeInv
  <2>6. \A p \in Runs : RunInv(p)' BY <1>1, <1>2, <2>2, <2>4, RunKept
  <2> QED BY <1>4, <1>5, <2>5, <2>6 DEF SessionInv
<1>7. CASE t \notin Creates
  <2>1. PICK k \in Kinds, r \in Runs : t = <<k, r>> /\ t[1] = k /\ t[2] = r
    BY <1>7, ThreadKinds
  <2>2. /\ at'[<<k, r>>] = 0 /\ at[<<k, r>>] # 0
        /\ \A j \in Kinds : j # k => at'[<<j, r>>] = at[<<j, r>>]
        /\ \A p \in Runs : p # r => \A j \in Kinds : at'[<<j, p>>] = at[<<j, p>>]
    BY <1>2, <1>4, <2>1, ThreadOfRun
  <2>3. RunInv(r) /\ timer[r] \in 0 .. Chunks + 4 /\ 1 \in 0 .. Chunks + 4
    BY <1>1, SessionRuntimeAssumption DEF TypeInv
  <2>4. /\ timer' \in [Runs -> 0 .. Chunks + 4] /\ active' \in SUBSET Runs
        /\ \A p \in Runs : p # r => timer'[p] = timer[p] /\ (p \in active') = (p \in active)
    BY <1>1, <1>2, <2>1, <2>3 DEF TypeInv
  <2>5. TypeInv' BY <1>1, <1>2, <1>4, <2>4 DEF TypeInv
  <2>6. \A p \in Runs : p # r => RunInv(p)' BY ZenonT(30), <1>1, <1>2, <2>2, <2>4, OtherRuns
  <2>7. (Ended(r)' <=> Ended(r)) /\ (EndOrder(r)' <=> EndOrder(r))
    BY <1>2 DEF Ended, EndOrder
  <2>8. CASE k = "send"
    <3>1. active' = active \cup {r} /\ timer'[r] = 1
      BY <1>1, <1>2, <2>1, <2>8 DEF TypeInv
    <3>2. timer[r] = 0 /\ NotStarted(r) BY <2>2, <2>3, <2>8 DEF RunInv, Started
    <3>3. copy[r] # NoSession
      <4>1. at[<<"send", r>>] > 1 BY <1>2, <2>1, <2>8, AwaitsSend
      <4> QED BY <2>3, <4>1 DEF RunInv, RequestInv
    <3>4. ~Ended(r) BY <3>2 DEF NotStarted, Ended, Ends
    <3>5. \A j \in Tasks \cup Stops : at'[<<j, r>>] = 0
      BY <2>2, <2>8, <3>2 DEF NotStarted, Kinds, Tasks, Stops
    <3>6. Started(r)' BY <1>2, <2>2, <2>8, <3>1, <3>3 DEF Started
    <3>7. CallbackInv(r)' BY <3>5 DEF CallbackInv, Tasks
    <3>8. RequestInv(r)' BY <2>2, <2>8, <3>5 DEF RequestInv, Stops
    <3>9. StopInv(r)' BY <2>7, <3>4, <3>5 DEF StopInv, Stops
    <3> QED BY <2>3, <2>5, <2>6, <1>4, <1>5, <2>7, <3>1, <3>6, <3>7, <3>8, <3>9
            DEF SessionInv, RunInv
  <2>9. CASE k = "done"
    <3>1. active' = active \ {r} /\ timer' = timer BY <1>2, <2>1, <2>9
    <3>2. timer[r] # 0 /\ Quiet(r)
      <4>1. timer[r] > Chunks + 3 BY <2>2, <2>3, <2>9 DEF RunInv, CallbackInv
      <4>2. timer[r] = Chunks + 4 BY <2>3, <4>1, SessionRuntimeAssumption
      <4> QED BY <4>2, SessionRuntimeAssumption DEF Quiet
    <3>3. Quiet(r)' BY <1>2, <3>1, <3>2 DEF Quiet
    <3>4. Started(r)'
      BY <1>2, <2>2, <2>3, <2>9, <3>1, <3>2, <3>3 DEF Started, RunInv, Kinds
    <3>5. CallbackInv(r)' BY <2>2, <2>3, <2>9, <3>1 DEF RunInv, CallbackInv, Kinds, Tasks
    <3>6. RequestInv(r)' BY <1>2, <2>2, <2>3, <2>9, <3>1 DEF RunInv, RequestInv, Kinds
    <3>7. StopInv(r)'
      <4>1. \A j \in Tasks : at'[<<j, r>>] = 1 => at[<<j, r>>] = 1
        <5> TAKE j \in Tasks
        <5>1. j \in Kinds BY DEF Kinds
        <5>2. CASE j = k BY <2>2, <5>2
        <5>3. CASE j # k BY <2>2, <5>1, <5>3
        <5> QED BY <5>2, <5>3
      <4> QED BY <2>3, <2>7, <3>3, <4>1 DEF RunInv, StopInv
    <3> QED BY <2>3, <2>5, <2>6, <1>4, <1>5, <2>7, <3>1, <3>2, <3>4, <3>5, <3>6, <3>7
            DEF SessionInv, RunInv
  <2>10. CASE k \notin {"send", "done"}
    <3>1. active' = active /\ timer' = timer BY <1>2, <2>1, <2>10
    <3>2. PICK n \in 0 .. 5 : n = 0 OBVIOUS
    <3>3. at'[<<k, r>>] = n BY <2>2, <3>2
    <3>4. RunInv(r)' BY <1>1, <1>2, <2>2, <2>3, <2>10, <3>1, <3>2, <3>3, GoesOn
    <3> QED BY <1>4, <1>5, <2>5, <2>6, <3>4 DEF SessionInv
  <2> QED BY <2>8, <2>9, <2>10
<1> QED BY <1>6, <1>7

\* failRun of a run whose timers were set begins: it is a stop.
LEMMA FailStep ==
    ASSUME SessionInv, NEW r \in Runs, NEW now \in [AllThreads -> 0 .. 5],
           NEW q \in Seq(AllThreads), InOrder(q, now), FailRun(r, now, q),
           timer[r] # 0, now[<<"fail", r>>] = 0,
           \A u \in AllThreads : now[u] \in {0, at[u]},
           \A p \in Runs : p # r => \A j \in Kinds : now[<<j, p>>] = at[<<j, p>>],
           UNCHANGED <<home, store, copy, timer, events, known>>
    PROVE  SessionInv'
<1>1. TypeInv /\ KnownInv /\ \A p \in Runs : RunInv(p) BY DEF SessionInv
<1>2. PICK t \in AllThreads : t = <<"fail", r>> BY ThreadOfRun DEF Kinds
<1>3. /\ at' = [now EXCEPT ![t] = 1] /\ queue' = Append(q, t)
      /\ active' = active \ {r}
      /\ cancelled' = IF r \in active THEN cancelled \cup {r} ELSE cancelled
  BY <1>2 DEF FailRun
<1>4. InOrder(queue', at')
  <2>1. ~AtStore(t, now[t]) BY <1>2 DEF AtStore
  <2>2. AtStore(t, 1)
    <3>1. t[1] = "fail" BY <1>2
    <3> QED BY <3>1, AwaitsEnd DEF AtStore, StoreOps
  <2>3. t[1] \notin Tasks BY <1>2 DEF Tasks
  <2>4. PICK n \in 0 .. 5 : n = 1 OBVIOUS
  <2>5. InOrder(Append(q, t), [now EXCEPT ![t] = n]) BY <2>1, <2>2, <2>3, <2>4, Queued
  <2> QED BY <1>3, <2>4, <2>5
<1>5. at' \in [AllThreads -> 0 .. 5] /\ queue' \in Seq(AllThreads) BY <1>3
<1>6. TypeInv' BY <1>1, <1>3, <1>5 DEF TypeInv
<1>7. KnownInv' BY <1>1 DEF KnownInv
<1>8. at'[t] = 1 /\ \A u \in AllThreads : u # t => at'[u] = now[u] BY <1>3
<1>9. ASSUME NEW p \in Runs, NEW j \in Kinds, p # r \/ j # "fail"
      PROVE <<j, p>> \in AllThreads /\ <<j, p>> # t
  BY <1>2, <1>9, ThreadOfRun
<1>10. \A p \in Runs : p # r => RunInv(p)'
  <2>1. \A p \in Runs : p # r =>
          /\ \A j \in Kinds : at'[<<j, p>>] = at[<<j, p>>]
          /\ (p \in active') = (p \in active) /\ (p \in cancelled') = (p \in cancelled)
    BY <1>3, <1>8, <1>9
  <2> QED BY <1>1, <2>1, OtherRuns
<1>11. RunInv(r)'
  <2>1. "fail" \in Stops BY DEF Stops
  <2>2. at'[<<"fail", r>>] = 1 BY <1>2, <1>8
  <2>3. \A j \in Kinds : j # "fail" => at'[<<j, r>>] \in {0, at[<<j, r>>]}
    BY <1>8, <1>9
  <2>4. r \notin active' /\ (r \in active \/ r \in cancelled => r \in cancelled')
    BY <1>3
  <2> QED BY <1>1, <2>1, <2>2, <2>3, <2>4, Stopped
<1> QED BY <1>4, <1>6, <1>7, <1>10, <1>11 DEF SessionInv

\* An await of a thread rejects.
LEMMA FaultStep ==
    ASSUME SessionInv, NEW t \in AllThreads, Fault(t)
    PROVE  SessionInv'
<1>1. TypeInv /\ InOrder(queue, at) /\ KnownInv /\ \A p \in Runs : RunInv(p)
  BY DEF SessionInv
<1>2. at \in [AllThreads -> 0 .. 5] /\ queue \in Seq(AllThreads) BY <1>1 DEF TypeInv
<1>3. PICK left : left = IF Waits(t) THEN queue ELSE Tail(queue) OBVIOUS
<1>4. PICK now : now = Without(t) OBVIOUS
<1>5. /\ IF t[1] \in Tasks THEN FailRun(t[2], now, left)
         ELSE at' = now /\ queue' = left /\ UNCHANGED <<active, cancelled>>
      /\ UNCHANGED <<home, store, copy, timer, events, known>>
      /\ t[1] \in Tasks => at[<<"fail", t[2]>>] = 0
  BY <1>3, <1>4 DEF Fault, Without
<1>6. left \in Seq(AllThreads) /\ InOrder(left, now) /\ at[t] # 0
  <2>1. CASE Waits(t)
    <3>1. ~AtStore(t, at[t]) /\ at[t] # 0 BY <2>1 DEF Waits, AtStore, StoreOps
    <3> QED BY <1>1, <1>2, <1>3, <1>4, <2>1, <3>1, NotWaiting
  <2>2. CASE ~Waits(t)
    <3>1. queue # <<>> /\ Head(queue) = t BY <2>2 DEF Fault
    <3>2. Tail(queue) \in Seq(AllThreads) /\ AtStore(t, at[t]) /\ InOrder(Tail(queue), now)
      BY <1>1, <1>2, <1>4, <3>1, Taken DEF Without
    <3>3. at[t] # 0 BY <1>2, <3>2 DEF AtStore
    <3> QED BY <1>3, <2>2, <3>2, <3>3
  <2> QED BY <2>1, <2>2
<1>7. /\ now \in [AllThreads -> 0 .. 5] /\ now[t] = 0
      /\ \A u \in AllThreads : u # t => now[u] = at[u]
  BY <1>2, <1>4 DEF Without
<1>8. CASE t \in Creates
  <2>1. t[1] = "create" BY <1>8 DEF Creates
  <2>2. at' = now /\ queue' = left /\ UNCHANGED <<active, cancelled>>
    BY <1>5, <2>1 DEF Tasks
  <2>3. \A p \in Runs : \A j \in Kinds : <<j, p>> # t BY <2>1 DEF Kinds, Tasks
  <2>4. \A p \in Runs : \A j \in Kinds : at'[<<j, p>>] = at[<<j, p>>]
    BY <1>7, <2>2, <2>3, ThreadOfRun
  <2>5. TypeInv' BY <1>1, <1>5, <1>6, <1>7, <2>2 DEF TypeInv
  <2>6. KnownInv' BY <1>1, <1>5 DEF KnownInv
  <2>7. \A p \in Runs : RunInv(p)' BY <1>1, <1>5, <2>2, <2>4, RunKept
  <2>8. InOrder(queue', at') BY <1>6, <2>2
  <2> QED BY <2>5, <2>6, <2>7, <2>8 DEF SessionInv
<1>9. CASE t \notin Creates
  <2>1. PICK k \in Kinds, r \in Runs : t = <<k, r>> /\ t[1] = k /\ t[2] = r
    BY <1>9, ThreadKinds
  <2>2. /\ now[<<k, r>>] = 0 /\ at[<<k, r>>] # 0
        /\ \A j \in Kinds : j # k => now[<<j, r>>] = at[<<j, r>>]
        /\ \A p \in Runs : p # r => \A j \in Kinds : now[<<j, p>>] = at[<<j, p>>]
    BY <1>6, <1>7, <2>1, ThreadOfRun
  <2>3. CASE k \in Tasks
    <3>1. timer[r] # 0 BY <1>1, <2>2, <2>3 DEF RunInv, NotStarted
    <3>2. FailRun(r, now, left) BY <1>5, <2>1, <2>3
    <3>3. now[<<"fail", r>>] = 0
      BY <1>5, <2>1, <2>2, <2>3 DEF Kinds, Tasks
    <3>4. \A u \in AllThreads : now[u] \in {0, at[u]} BY <1>7
    <3> QED BY <1>5, <1>6, <1>7, <2>2, <3>1, <3>2, <3>3, <3>4, FailStep
  <2>4. CASE k \notin Tasks
    <3>1. at' = now /\ queue' = left /\ UNCHANGED <<active, cancelled>>
      BY <1>5, <2>1, <2>4
    <3>2. TypeInv' BY <1>1, <1>5, <1>6, <1>7, <3>1 DEF TypeInv
    <3>3. KnownInv' BY <1>1, <1>5 DEF KnownInv
    <3>4. InOrder(queue', at') BY <1>6, <3>1
    <3>5. \A p \in Runs : p # r => RunInv(p)' BY <1>1, <1>5, <2>2, <3>1, OtherRuns
    <3>6. PICK n \in 0 .. 5 : n = 0 OBVIOUS
    <3>7. RunInv(r)'
      <4>1. at'[<<k, r>>] = n /\ \A j \in Kinds : j # k => at'[<<j, r>>] = at[<<j, r>>]
        BY <2>2, <3>1, <3>6
      <4>2. n # 1 /\ ~(k = "send" /\ n > 1) BY <3>6
      <4> QED BY <1>1, <1>5, <2>2, <3>1, <4>1, <4>2, GoesOn
    <3> QED BY <3>2, <3>3, <3>4, <3>5, <3>7 DEF SessionInv
  <2> QED BY <2>3, <2>4
<1> QED BY <1>8, <1>9

\* The last publication of a callback rejects.
LEMMA PublicationFailsStep ==
    ASSUME SessionInv, NEW r \in Runs, PublicationFails(r)
    PROVE  SessionInv'
<1>1. TypeInv /\ InOrder(queue, at) /\ RunInv(r) BY DEF SessionInv
<1>2. at \in [AllThreads -> 0 .. 5] /\ queue \in Seq(AllThreads) BY <1>1 DEF TypeInv
<1>3. /\ FailRun(r, at, queue) /\ at[<<"fail", r>>] = 0
      /\ UNCHANGED <<home, store, copy, timer, events, known>>
  BY DEF PublicationFails
<1>4. timer[r] # 0
  <2>1. PICK e \in {"STEP_STARTED", "ASSISTANT_DELTA", "STEP_FINISHED"} : Has(r, e)
    BY DEF PublicationFails
  <2>2. PICK i \in DOMAIN events[r] : events[r][i] # "RUN_STARTED" BY <2>1 DEF Has
  <2>3. i \in 1 .. Len(events[r]) BY <1>1 DEF TypeInv
  <2> QED BY <1>1, <2>2, <2>3 DEF RunInv, NotStarted
<1> QED BY <1>1, <1>2, <1>3, <1>4, FailStep

\* What a callback or a stop makes of a session is one, and does not unmake it.
LEMMA PatchedSession ==
    ASSUME NEW t, t[1] \in {"step", "finish", "done", "cancel", "fail"}, t[2] \in Runs,
           NEW session \in Session
    PROVE  /\ Patched(t, session) \in Session
           /\ session.status # "missing" => Patched(t, session).status # "missing"
<1> DEFINE Steps == [run : Runs, status : {"running", "success"}]
           Messages == {"user", "assistant"} \X Runs
<1>1. /\ session = [messages |-> session.messages, run |-> session.run,
                    status |-> session.status, steps |-> session.steps]
      /\ session.messages \in Seq(Messages) /\ session.run \in 0 .. MaxRuns
      /\ session.status \in SessionStatuses /\ session.steps \in SUBSET Steps
  BY DEF Session
<1>2. Succeed(session.steps, t[2]) \in SUBSET Steps
  <2>1. \A x \in Steps : [x EXCEPT !.status = "success"] \in Steps OBVIOUS
  <2> QED BY <1>1, <2>1 DEF Succeed
<1>3. CASE t[1] = "step"
  <2>1. Patched(t, session) =
          [session EXCEPT !.steps = @ \cup {[run |-> t[2], status |-> "running"]}]
    BY <1>3 DEF Patched
  <2>2. session.steps \cup {[run |-> t[2], status |-> "running"]} \in SUBSET Steps BY <1>1
  <2> QED BY <2>1, <2>2 DEF Session
<1>4. CASE t[1] = "finish"
  <2>1. Patched(t, session) = [session EXCEPT !.steps = Succeed(@, t[2])]
    BY <1>4 DEF Patched
  <2> QED BY <1>2, <2>1 DEF Session
<1>5. CASE t[1] = "done"
  <2>1. Patched(t, session) =
          [ messages |-> Append(session.messages, <<"assistant", t[2]>>),
            run |-> session.run, status |-> "completed",
            steps |-> Succeed(session.steps, t[2]) ]
    BY <1>5 DEF Patched
  <2>2. Append(session.messages, <<"assistant", t[2]>>) \in Seq(Messages) BY <1>1
  <2>3. Patched(t, session).status = "completed" BY <2>1
  <2> QED BY <1>1, <1>2, <2>1, <2>2, <2>3 DEF Session, SessionStatuses
<1>6. CASE t[1] \in {"cancel", "fail"}
  <2>1. Patched(t, session) = [session EXCEPT !.status = EndOf[t[1]]]
    BY <1>6 DEF Patched
  <2>2. EndOf[t[1]] \in {"cancelled", "failed"} BY <1>6 DEF EndOf
  <2> QED BY <2>1, <2>2 DEF Session, SessionStatuses
<1> QED BY <1>3, <1>4, <1>5, <1>6

\* The file and the copies after the store has done the operation t waits for.
Stored(t, s) ==
    LET op == Awaits(t)[at[t]] IN
    /\ store' = CASE op = "upsert" /\ t \in Creates -> [store EXCEPT ![s].status = "idle"]
                  [] op = "upsert" /\ t \notin Creates ->
                        [store EXCEPT ![s] = WithMessage(copy[t[2]], t[2])]
                  [] op = "patch" -> [store EXCEPT ![s] = Patched(t, @)]
                  [] OTHER -> store
    /\ copy' = IF op = "get" THEN [copy EXCEPT ![t[2]] = store[s]] ELSE copy

\* No session of the file is lost.
NoneLost == \A s \in Sessions : store[s].status # "missing" => store'[s].status # "missing"

LEMMA StoredForCreate ==
    ASSUME TypeInv, NEW s \in Sessions, NEW t \in Creates, t[1] = "create",
           at[t] \in 1 .. 4, Stored(t, s)
    PROVE  /\ store' \in [Sessions -> Session] /\ NoneLost /\ copy' = copy
           /\ at[t] = 1 => store'[s].status = "idle"
<1>1. at[t] = 1 <=> Awaits(t)[at[t]] = "upsert" BY AwaitsCreate
<1>2. Awaits(t)[at[t]] \notin {"get", "patch"} BY AwaitsCreate
<1>3. copy' = copy BY <1>2 DEF Stored
<1>4. CASE at[t] = 1
  <2>1. store' = [store EXCEPT ![s].status = "idle"] BY <1>1, <1>4 DEF Stored
  <2>2. store[s] \in Session BY DEF TypeInv
  <2>3. PICK new : new = [store[s] EXCEPT !.status = "idle"] OBVIOUS
  <2>4. new \in Session /\ new.status = "idle" BY <2>2, <2>3 DEF Session, SessionStatuses
  <2>5. store' = [store EXCEPT ![s] = new] BY <2>1, <2>3
  <2> QED BY <1>3, <2>4, <2>5 DEF TypeInv, NoneLost
<1>5. CASE at[t] # 1
  <2>1. store' = store BY <1>1, <1>2, <1>5 DEF Stored
  <2> QED BY <1>3, <1>5, <2>1 DEF TypeInv, NoneLost
<1> QED BY <1>4, <1>5

LEMMA StoredForRun ==
    ASSUME TypeInv, NEW s \in Sessions, NEW k \in Kinds, NEW r \in Runs,
           k # "chunk", <<k, r>> \notin Creates,
           AtStore(<<k, r>>, at[<<k, r>>]), Stored(<<k, r>>, s)
    PROVE  /\ store' \in [Sessions -> Session] /\ NoneLost
           /\ copy' \in [Runs -> Session] /\ \A p \in Runs : p # r => copy'[p] = copy[p]
           /\ copy'[r] = IF k = "send" /\ at[<<k, r>>] = 1 THEN store[s] ELSE copy[r]
<1>1. PICK t : t = <<k, r>> OBVIOUS
<1>2. t[1] = k /\ t[2] = r /\ t \notin Creates BY <1>1
<1>3. PICK n : n = at[t] OBVIOUS
<1>4. PICK op : op = Awaits(t)[n] OBVIOUS
<1>5. n \in 1 .. Len(Awaits(t)) /\ op \in StoreOps BY <1>1, <1>3, <1>4 DEF AtStore
<1>6. /\ op = "get" <=> k = "send" /\ n = 1
      /\ op = "patch" => k \in {"step", "finish", "done", "cancel", "fail"}
  <2>1. CASE k = "send"
    <3>1. n \in 1 .. 5 BY <1>2, <1>5, <2>1, AwaitsSend
    <3> QED BY <1>2, <1>4, <2>1, <3>1, AwaitsSend
  <2>2. CASE k \in {"step", "finish"}
    <3>1. Len(Awaits(t)) = 2 BY <1>2, <2>2, AwaitsStep
    <3>2. n \in 1 .. 2 BY <1>5, <3>1
    <3> QED BY <1>2, <1>4, <2>2, <3>2, AwaitsStep
  <2>3. CASE k \in {"done", "cancel", "fail"}
    <3>1. Len(Awaits(t)) = 4 BY <1>2, <2>3, AwaitsEnd
    <3>2. n \in 1 .. 4 BY <1>5, <3>1
    <3> QED BY <1>2, <1>4, <2>3, <3>2, AwaitsEnd
  <2> QED BY <2>1, <2>2, <2>3 DEF Kinds, Tasks
<1>7. /\ store' = CASE op = "upsert" -> [store EXCEPT ![s] = WithMessage(copy[r], r)]
                    [] op = "patch" -> [store EXCEPT ![s] = Patched(t, @)]
                    [] OTHER -> store
      /\ copy' = IF op = "get" THEN [copy EXCEPT ![r] = store[s]] ELSE copy
  BY <1>1, <1>2, <1>3, <1>4 DEF Stored
<1>8. store[s] \in Session /\ copy[r] \in Session BY DEF TypeInv
<1>9. /\ copy' \in [Runs -> Session] /\ \A p \in Runs : p # r => copy'[p] = copy[p]
      /\ copy'[r] = IF k = "send" /\ n = 1 THEN store[s] ELSE copy[r]
  BY <1>6, <1>7, <1>8 DEF TypeInv
<1>10. store' \in [Sessions -> Session] /\ NoneLost
  <2>1. CASE op = "upsert"
    <3>1. PICK new : new = WithMessage(copy[r], r) OBVIOUS
    <3>2. new \in Session /\ new.status # "missing"
      <4>1. copy[r].messages \in Seq({"user", "assistant"} \X Runs) BY <1>8 DEF Session
      <4>2. Append(copy[r].messages, <<"user", r>>) \in Seq({"user", "assistant"} \X Runs)
        BY <4>1
      <4>3. r \in 0 .. MaxRuns BY SessionRuntimeAssumption DEF Runs
      <4> QED BY <3>1, <4>2, <4>3 DEF WithMessage, Session, SessionStatuses
    <3>3. store' = [store EXCEPT ![s] = new] BY <1>7, <2>1, <3>1
    <3> QED BY <3>2, <3>3 DEF TypeInv, NoneLost
  <2>2. CASE op = "patch"
    <3>1. PICK new : new = Patched(t, store[s]) OBVIOUS
    <3>2. new \in Session /\ (store[s].status # "missing" => new.status # "missing")
      BY <1>2, <1>6, <1>8, <2>2, <3>1, PatchedSession
    <3>3. store' = [store EXCEPT ![s] = new] BY <1>7, <2>2, <3>1
    <3> QED BY <3>2, <3>3 DEF TypeInv, NoneLost
  <2>3. CASE op \notin {"upsert", "patch"}
    <3>1. store' = store BY <1>7, <2>3
    <3> QED BY <3>1 DEF TypeInv, NoneLost
  <2> QED BY <2>1, <2>2, <2>3
<1> QED BY <1>1, <1>3, <1>9, <1>10

\* When the store serves a stop, no callback of its run is left behind it.
LEMMA NoneBehind ==
    ASSUME TypeInv, InOrder(queue, at), NEW r \in Runs, CallbackInv(r), NEW k \in Stops,
           queue # <<>>, Head(queue) = <<k, r>>, at[<<k, r>>] = 1
    PROVE  \A j \in Tasks : at[<<j, r>>] # 1
<1> SUFFICES ASSUME NEW j \in Tasks, at[<<j, r>>] = 1 PROVE FALSE
  OBVIOUS
<1>1. j # "chunk" BY DEF CallbackInv
<1>2. PICK u \in AllThreads : u = <<j, r>> /\ u[1] = j /\ u[2] = r
  BY ThreadOfRun DEF Kinds
<1>3. AtStore(u, at[u])
  BY <1>1, <1>2, AwaitsStep, AwaitsEnd DEF AtStore, StoreOps, Tasks
<1>4. PICK i \in 1 .. Len(queue) : queue[i] = u BY <1>3 DEF InOrder
<1>5. queue \in Seq(AllThreads) /\ Len(queue) \in Nat BY DEF TypeInv
<1>6. queue[1] = <<k, r>> /\ 1 \in 1 .. Len(queue) BY <1>5
<1>7. i # 1 BY <1>2, <1>4, <1>6 DEF Tasks, Stops
<1>8. 1 < i BY <1>5, <1>7
<1> QED BY <1>2, <1>4, <1>6, <1>8 DEF InOrder

\* The store does an operation.
LEMMA ServeStep ==
    ASSUME SessionInv, Serve
    PROVE  SessionInv'
<1>1. TypeInv /\ InOrder(queue, at) /\ KnownInv /\ \A p \in Runs : RunInv(p)
  BY DEF SessionInv
<1>2. at \in [AllThreads -> 0 .. 5] /\ queue \in Seq(AllThreads) /\ queue # <<>>
  BY <1>1 DEF TypeInv, Serve
<1>3. PICK t \in AllThreads : t = Head(queue) BY <1>1, <1>2, Taken
<1>4. PICK q : q = Tail(queue) OBVIOUS
<1>5. q \in Seq(AllThreads) /\ InOrder(q, Without(t)) /\ AtStore(t, at[t])
  BY <1>1, <1>2, <1>3, <1>4, Taken DEF Without
<1>6. PICK s : s = IF t \in Creates THEN t[2] ELSE home[t[2]] OBVIOUS
<1>7. /\ Stored(t, s) /\ Reach(t, at[t] + 1, q)
      /\ UNCHANGED <<home, timer, active, cancelled>>
  BY <1>3, <1>4, <1>6 DEF Serve, Stored
<1>8. PICK i \in 1 .. 5 : i = at[t] + 1 /\ i \in 1 .. Len(Awaits(t)) /\ i > 1
  <2>1. PICK m \in 1 .. 5 : m = Len(Awaits(t)) BY LastIsNoStoreOp
  <2>2. PICK a \in 0 .. 5 : a = at[t] BY <1>2
  <2>3. a \in 1 .. m /\ a # m
    BY <1>5, <2>1, <2>2, LastIsNoStoreOp DEF AtStore
  <2>4. a + 1 \in 1 .. 5 /\ a + 1 \in 1 .. m /\ a + 1 > 1 BY <2>3
  <2> QED BY <2>1, <2>2, <2>4
<1>9. at[t] \in 0 .. 5 /\ at[t] # 0 BY <1>2, <1>5 DEF AtStore
<1>10. CASE t \in Creates
  <2>1. t = <<"create", s>> /\ s \in Sessions /\ t[1] = "create"
    BY <1>6, <1>10 DEF Creates
  <2>2. Created(s, i) BY <1>1, <1>5, <1>7, <1>8, <2>1, CreateReaches
  <2>3. at[t] \in 1 .. 4
    BY <1>8, <1>9, <2>1, AwaitsCreate
  <2>4. /\ store' \in [Sessions -> Session] /\ NoneLost /\ copy' = copy
        /\ at[t] = 1 => store'[s].status = "idle"
    BY <1>1, <1>7, <1>10, <2>1, <2>3, StoredForCreate
  <2>5. known \subseteq known' /\ known' \subseteq known \cup {s} /\ (i # 2 => known' = known)
    BY <2>2 DEF Created
  <2>6. TypeInv' BY <1>1, <1>7, <2>1, <2>2, <2>4, <2>5 DEF TypeInv, Created
  <2>7. KnownInv'
    <3>1. i = 2 => store'[s].status # "missing" BY <1>8, <1>9, <2>4
    <3>2. \A p \in known : p \in Sessions BY <1>1 DEF TypeInv
    <3> QED BY <1>1, <2>4, <2>5, <3>1, <3>2 DEF KnownInv, NoneLost
  <2>8. \A p \in Runs : RunInv(p)' BY <1>1, <1>7, <2>2, <2>4, <2>5, RunKept DEF Created
  <2> QED BY <2>2, <2>6, <2>7, <2>8 DEF SessionInv, Created
<1>11. CASE t \notin Creates
  <2>1. PICK k \in Kinds, r \in Runs : t = <<k, r>> /\ t[1] = k /\ t[2] = r
    BY <1>11, ThreadKinds
  <2>2. s = home[r] /\ s \in Sessions BY <1>1, <1>6, <1>11, <2>1 DEF TypeInv
  <2>3. RunInv(r) /\ at[<<k, r>>] # 0 /\ k # "chunk"
    <3>1. RunInv(r) /\ at[<<k, r>>] # 0 BY <1>1, <1>9, <2>1
    <3> QED BY <3>1 DEF RunInv, CallbackInv
  <2>4. Reached(k, r, i) BY <1>1, <1>5, <1>7, <1>8, <2>1, RunReaches
  <2>5. /\ store' \in [Sessions -> Session] /\ NoneLost
        /\ copy' \in [Runs -> Session] /\ \A p \in Runs : p # r => copy'[p] = copy[p]
        /\ copy'[r] = IF k = "send" /\ at[t] = 1 THEN store[s] ELSE copy[r]
    BY <1>1, <1>5, <1>7, <1>11, <2>1, <2>2, <2>3, StoredForRun
  <2>6. TypeInv' BY <1>1, <1>7, <2>4, <2>5 DEF TypeInv, Reached
  <2>7. KnownInv'
    <3>1. known' = known /\ \A p \in known : p \in Sessions
      BY <1>1, <2>4 DEF TypeInv, Reached
    <3> QED BY <1>1, <2>5, <3>1 DEF KnownInv, NoneLost
  <2>8. \A p \in Runs : p # r => RunInv(p)'
    BY <1>1, <1>7, <2>4, <2>5, OtherRuns DEF Reached
  <2>9. k = "send" => copy'[r] # NoSession
    <3> SUFFICES ASSUME k = "send" PROVE copy'[r] # NoSession OBVIOUS
    <3>1. CASE at[t] = 1
      <4>1. home[r] \in known BY <2>1, <2>3, <3>1 DEF RunInv, RequestInv
      <4>2. store[s].status # "missing" BY <1>1, <2>2, <4>1 DEF KnownInv
      <4> QED BY <2>5, <3>1, <4>2 DEF NoSession
    <3>2. CASE at[t] # 1
      <4>1. at[<<"send", r>>] > 1 BY <1>9, <2>1, <3>2
      <4>2. copy[r] # NoSession BY <2>3, <4>1 DEF RunInv, RequestInv
      <4> QED BY <2>5, <3>2, <4>2
    <3> QED BY <3>1, <3>2
  <2>10. copy[r] # NoSession => copy'[r] # NoSession BY <2>5, <2>9
  <2>11. Awaits(t)[i] = "event" => k # "send" /\ at[t] = 1
    <3>1. CASE k = "send"
      <4>1. i # 5 /\ i \in 1 .. 5
        <5>1. at[t] # 4 BY <1>5, <2>1, <3>1, AwaitsSend DEF AtStore, StoreOps
        <5> QED BY <1>8, <1>9, <5>1
      <4> QED BY <2>1, <3>1, <4>1, AwaitsSend
    <3>2. CASE k \in {"step", "finish"}
      <4>1. Len(Awaits(t)) = 2 BY <2>1, <3>2, AwaitsStep
      <4>2. i \in 1 .. 2 BY <1>8, <4>1
      <4>3. at[t] = 1 BY <1>8, <1>9, <4>2
      <4> QED BY <3>2, <4>3
    <3>3. CASE k \in {"done", "cancel", "fail"}
      <4>1. Len(Awaits(t)) = 4 BY <2>1, <3>3, AwaitsEnd
      <4>2. i \in 1 .. 4 BY <1>8, <4>1
      <4>3. Awaits(t)[i] = "event" => i = 2 BY <2>1, <3>3, <4>2, AwaitsEnd
      <4> QED BY <1>8, <1>9, <3>3, <4>3
    <3> QED BY <2>3, <3>1, <3>2, <3>3 DEF Kinds, Tasks
  <2>12. RunInv(r)'
    <3>1. PICK n \in 0 .. 5 : n = at'[<<k, r>>] /\ n # 1
      BY <1>8, <2>4 DEF Reached
    <3>2. \/ events'[r] = events[r]
          \/ /\ events'[r] = Append(events[r], Event[k]) /\ at[<<k, r>>] = 1
             /\ k \in Stops => \A j \in Tasks : at[<<j, r>>] # 1
      <4>1. CASE Awaits(t)[i] = "event"
        <5>1. events'[r] = Append(events[r], Event[k]) /\ at[<<k, r>>] = 1
          BY <2>1, <2>4, <2>11, <4>1 DEF Reached
        <5>2. k \in Stops => \A j \in Tasks : at[<<j, r>>] # 1
          <6>1. CallbackInv(r) /\ Head(queue) = <<k, r>> BY <1>3, <2>1, <2>3 DEF RunInv
          <6> QED BY <1>1, <1>2, <5>1, <6>1, NoneBehind
        <5> QED BY <5>1, <5>2
      <4>2. CASE Awaits(t)[i] # "event" BY <2>1, <2>4, <4>2 DEF Reached
      <4> QED BY <4>1, <4>2
    <3>3. /\ \A j \in Kinds : j # k => at'[<<j, r>>] = at[<<j, r>>]
          /\ timer'[r] = timer[r] /\ home'[r] = home[r] /\ known \subseteq known'
          /\ (r \in active') = (r \in active) /\ (r \in cancelled') = (r \in cancelled)
      BY <1>7, <2>4 DEF Reached
    <3> QED BY <1>1, <2>3, <2>9, <2>10, <3>1, <3>2, <3>3, GoesOn
  <2> QED BY <2>4, <2>6, <2>7, <2>8, <2>12 DEF SessionInv, Reached
<1> QED BY <1>10, <1>11

-------------------------------------------------------------------------------
(* The invariant, and the theorem                                            *)

LEMMA SessionInvInit ==
    Init => SessionInv
<1> SUFFICES ASSUME Init PROVE SessionInv
  OBVIOUS
<1>1. NoSession \in Session
  <2>1. 0 \in 0 .. MaxRuns BY SessionRuntimeAssumption
  <2> QED BY <2>1 DEF NoSession, Session, SessionStatuses
<1>2. 0 \in 0 .. Chunks + 4 BY SessionRuntimeAssumption
<1>3. TypeInv BY <1>1, <1>2 DEF Init, TypeInv, AllThreads
<1>4. \A t \in AllThreads : at[t] = 0 BY DEF Init, AllThreads
<1>5. InOrder(queue, at) BY <1>4 DEF Init, InOrder, AtStore
<1>6. KnownInv BY DEF Init, KnownInv
<1>7. ASSUME NEW r \in Runs PROVE RunInv(r)
  <2>1. \A k \in Kinds : at[<<k, r>>] = 0 BY <1>4, ThreadOfRun
  <2>2. /\ at[<<"send", r>>] = 0 /\ at[<<"cancel", r>>] = 0 /\ at[<<"fail", r>>] = 0
        /\ \A k \in Tasks : at[<<k, r>>] = 0
        /\ \A k \in Stops : at[<<k, r>>] = 0
    BY <2>1 DEF Kinds, Stops
  <2>3. events[r] = <<>> /\ timer[r] = 0 /\ r \notin active BY DEF Init
  <2>4. ~Ended(r) /\ EndOrder(r) BY <2>3 DEF Ended, EndOrder
  <2>5. NotStarted(r)
    <3>1. \A k \in Tasks \cup Stops : at[<<k, r>>] = 0 BY <2>1 DEF Kinds, Stops
    <3>2. Len(events[r]) = 0 BY <2>3
    <3> QED BY <2>3, <3>1, <3>2 DEF NotStarted
  <2>6. CallbackInv(r) BY <2>2 DEF CallbackInv, Tasks
  <2>7. RequestInv(r) BY <2>2 DEF RequestInv
  <2>8. StopInv(r) BY <2>2, <2>4 DEF StopInv
  <2> QED BY <2>3, <2>4, <2>5, <2>6, <2>7, <2>8 DEF RunInv
<1> QED BY <1>3, <1>5, <1>6, <1>7 DEF SessionInv

LEMMA SessionInvStep ==
    SessionInv /\ [Next]_vars => SessionInv'
<1> SUFFICES ASSUME SessionInv, [Next]_vars PROVE SessionInv'
  OBVIOUS
<1>1. CASE Serve BY <1>1, ServeStep
<1>2. CASE Restart BY <1>2, RestartStep
<1>3. ASSUME NEW s \in Sessions, CreateSession(s) PROVE SessionInv' BY <1>3, CreateStep
<1>4. ASSUME NEW r \in Runs,
             SendUserMessage(r) \/ CancelRun(r) \/ Fire(r) \/ PublicationFails(r)
      PROVE SessionInv'
  BY <1>4, SendStep, CancelStep, FireStep, PublicationFailsStep
<1>5. ASSUME NEW t \in AllThreads, Answer(t) \/ Finish(t) \/ Fault(t) PROVE SessionInv'
  BY <1>5, AnswerStep, FinishStep, FaultStep
<1>6. CASE UNCHANGED vars
  <2>1. TypeInv' /\ InOrder(queue, at)' /\ KnownInv'
    BY ZenonT(30), <1>6 DEF SessionInv, vars, TypeInv, InOrder, KnownInv
  <2>2. ASSUME NEW r \in Runs PROVE RunInv(r)'
    <3>1. RunInv(r) BY DEF SessionInv
    <3>2. UNCHANGED <<at, events, timer, copy, home, known, active, cancelled>>
      BY <1>6 DEF vars
    <3> QED BY <3>1, <3>2, RunKept
  <2> QED BY <2>1, <2>2 DEF SessionInv
<1> QED BY <1>1, <1>2, <1>3, <1>4, <1>5, <1>6 DEF Next, AllThreads

\* Once the window was told that a run is cancelled or failed it hears no more of
\* it, whichever callbacks of startRun were waiting for the store, or publishing,
\* when cancelRun or failRun was called, and whatever fails afterwards.
THEOREM EndOfRunIsLast ==
    Spec => []EndIsLast
<1>1. SessionInv => EndIsLast
  <2> SUFFICES ASSUME SessionInv, NEW r \in Runs, NEW i \in DOMAIN events[r],
                      NEW j \in DOMAIN events[r], i < j, events[r][i] \in Ends
               PROVE events[r][j] \in Ends
    BY DEF EndIsLast, Ends
  <2>1. events[r] \in Seq(Names) /\ EndOrder(r) BY DEF SessionInv, TypeInv, RunInv
  <2> QED BY <2>1 DEF EndOrder
<1> QED BY <1>1, SessionInvInit, SessionInvStep, PTL DEF Spec
-------------------------------------------------------------------------------
(* The list that is owed                                                     *)

\* The threads that publish the session list, while they have still to do it.
Owes(t) == t[1] \notin {"step", "chunk", "finish"} /\ at[t] \in 1 .. 3

LEMMA OwesList ==
    ASSUME TypeInv, NEW t \in AllThreads
    PROVE  Owes(t) => at[t] # 0 /\ \E i \in at[t] .. Len(Awaits(t)) : Awaits(t)[i] = "list"
<1> SUFFICES ASSUME Owes(t)
             PROVE \E i \in at[t] .. Len(Awaits(t)) : Awaits(t)[i] = "list"
  BY DEF Owes
<1>1. at[t] \in 1 .. 3 /\ 3 \in at[t] .. 3 BY DEF Owes
<1>2. Len(Awaits(t)) \in {4, 5} /\ Awaits(t)[3] = "list"
  BY ThreadKinds, AwaitsCreate, AwaitsSend, AwaitsEnd DEF Owes, Kinds, Tasks
<1>3. 3 \in at[t] .. Len(Awaits(t)) BY <1>1, <1>2
<1> QED BY <1>2, <1>3

OwedInv == faults = 0 /\ shown # Summaries => \E t \in AllThreads : Owes(t)

\* The other threads go on as they were: what they owe is owed.
LEMMA StillOwed ==
    ASSUME NEW t \in AllThreads, \A u \in AllThreads : u # t => at'[u] = at[u],
           ~Owes(t), OwedInv, shown' = shown, Summaries' = Summaries,
           faults' = 0 => faults = 0
    PROVE  OwedInv'
BY DEF OwedInv, Owes

\* Faults are counted.
LEMMA FaultsCounted ==
    ASSUME faults \in Nat, [Next]_vars PROVE faults' \in Nat /\ (faults' = 0 => faults = 0)
<1>1. faults' = faults \/ faults' = faults + 1
  <2>1. CASE Serve BY <2>1 DEF Serve
  <2>2. CASE Restart BY <2>2 DEF Restart
  <2>3. ASSUME NEW s \in Sessions, CreateSession(s) PROVE faults' = faults
    BY <2>3 DEF CreateSession
  <2>4. ASSUME NEW r \in Runs, SendUserMessage(r) \/ CancelRun(r) \/ Fire(r)
        PROVE faults' = faults
    BY <2>4 DEF SendUserMessage, CancelRun, Fire
  <2>5. ASSUME NEW r \in Runs, PublicationFails(r) PROVE faults' = faults + 1
    BY <2>5 DEF PublicationFails
  <2>6. ASSUME NEW t, Answer(t) \/ Finish(t) PROVE faults' = faults
    BY <2>6 DEF Answer, Finish
  <2>7. ASSUME NEW t, Fault(t) PROVE faults' = faults + 1 BY <2>7 DEF Fault
  <2>8. CASE UNCHANGED vars BY <2>8 DEF vars
  <2> QED BY <2>1, <2>2, <2>3, <2>4, <2>5, <2>6, <2>7, <2>8 DEF Next
<1> QED BY <1>1

\* The store does an operation: what it changes in the list is owed by the thread
\* that asked for it, and is published when the list was read.
LEMMA ServeOwed ==
    ASSUME SessionInv, OwedInv, Serve PROVE OwedInv'
<1>1. TypeInv /\ InOrder(queue, at) BY DEF SessionInv
<1>2. at \in [AllThreads -> 0 .. 5] /\ queue \in Seq(AllThreads) /\ queue # <<>>
  BY <1>1 DEF TypeInv, Serve
<1>3. PICK t \in AllThreads : t = Head(queue) BY <1>1, <1>2, Taken
<1>4. AtStore(t, at[t]) BY <1>1, <1>2, <1>3, Taken
<1>5. PICK s : s = IF t \in Creates THEN t[2] ELSE home[t[2]] OBVIOUS
<1>6. PICK n \in 1 .. 5 : n = at[t] BY <1>2, <1>4 DEF AtStore
<1>7. Stored(t, s) /\ Reach(t, n + 1, Tail(queue)) /\ faults' = faults
  BY <1>3, <1>5, <1>6 DEF Serve, Stored
<1>8. /\ at'[t] = IF n + 1 = Len(Awaits(t)) /\ t[1] \notin {"send", "done"} THEN 0 ELSE n + 1
      /\ \A u \in AllThreads : u # t => at'[u] = at[u]
  BY <1>1, <1>7, ReachMoves
<1>9. CASE t[1] \in {"step", "finish"}
  <2>1. n = 1 /\ Awaits(t)[2] # "snapshot" /\ Awaits(t)[1] = "patch"
    <3>1. Len(Awaits(t)) = 2 /\ Awaits(t)[1] = "patch" /\ Awaits(t)[2] = "event"
      BY <1>9, AwaitsStep
    <3>2. n \in 1 .. 2 /\ Awaits(t)[n] # "event"
      BY <1>4, <1>6, <3>1 DEF AtStore, StoreOps
    <3> QED BY <3>1, <3>2
  <2>2. shown' = shown BY <1>7, <2>1 DEF Reach
  <2>3. store' = [store EXCEPT ![s] = Patched(t, store[s])] BY <1>6, <1>7, <2>1 DEF Stored
  <2>4. s \in Sessions => store[s] \in Session BY <1>1 DEF TypeInv
  <2>5. s \in Sessions =>
           /\ Patched(t, store[s]).messages = store[s].messages
           /\ Patched(t, store[s]).status = store[s].status
    BY <1>9, <2>4 DEF Patched, Session
  <2>6. ASSUME NEW p \in Sessions PROVE Summary(p)' = Summary(p)
    <3>1. store'[p].messages = store[p].messages /\ store'[p].status = store[p].status
      BY <1>1, <2>3, <2>5 DEF TypeInv
    <3> QED BY <3>1 DEF Summary
  <2>7. Summaries' = Summaries BY <2>6 DEF Summaries
  <2>8. ~Owes(t) BY <1>9 DEF Owes
  <2> QED BY <1>7, <1>8, <2>2, <2>7, <2>8, StillOwed
<1>10. CASE t[1] \notin {"step", "finish"}
  <2>1. /\ t[1] # "chunk" /\ n \in 1 .. 3
        /\ Len(Awaits(t)) \in {4, 5}
        /\ n = 3 => Awaits(t)[3] = "list" /\ Awaits(t)[4] = "snapshot"
    <3>1. n \in 1 .. Len(Awaits(t)) /\ Awaits(t)[n] \in {"get", "upsert", "patch", "list"}
      BY <1>4, <1>6 DEF AtStore, StoreOps
    <3>2. CASE t[1] = "chunk"
      <4>1. n = 1 BY <3>1, <3>2, AwaitsChunk
      <4> QED BY <3>1, <3>2, <4>1, AwaitsChunk
    <3>3. CASE t[1] = "create"
      <4>1. n \in {1, 2, 3, 4} BY <3>1, <3>3, AwaitsCreate
      <4> QED BY <3>1, <3>3, <4>1, AwaitsCreate
    <3>4. CASE t[1] = "send"
      <4>1. n \in {1, 2, 3, 4, 5} BY <3>1, <3>4, AwaitsSend
      <4> QED BY <3>1, <3>4, <4>1, AwaitsSend
    <3>5. CASE t[1] \in {"done", "cancel", "fail"}
      <4>1. n \in {1, 2, 3, 4} BY <3>1, <3>5, AwaitsEnd
      <4> QED BY <3>1, <3>5, <4>1, AwaitsEnd
    <3> QED BY <1>10, <3>2, <3>3, <3>4, <3>5, ThreadKinds DEF Kinds, Tasks
  <2>2. CASE n = 3
    <3>1. shown' = Summaries BY <1>7, <2>1, <2>2 DEF Reach
    <3>2. store' = store BY <1>6, <1>7, <2>1, <2>2 DEF Stored
    <3>3. Summaries' = Summaries BY <3>2 DEF Summaries, Summary
    <3> QED BY <3>1, <3>3 DEF OwedInv
  <2>3. CASE n # 3
    <3>1. n + 1 \in 1 .. 3 /\ n + 1 # Len(Awaits(t)) BY <2>1, <2>3
    <3>2. at'[t] \in 1 .. 3 BY <1>8, <3>1
    <3>3. Owes(t)' BY <1>10, <2>1, <3>2 DEF Owes
    <3> QED BY <3>3 DEF OwedInv
  <2> QED BY <2>2, <2>3
<1> QED BY <1>9, <1>10

\* A thread that begins owes the list, or has nothing to do with it.
LEMMA BeginOwed ==
    ASSUME SessionInv, OwedInv, NEW t \in AllThreads, Reach(t, 1, queue),
           store' = store, faults' = faults
    PROVE  OwedInv'
<1>1. TypeInv BY DEF SessionInv
<1>2. /\ at'[t] = IF 1 = Len(Awaits(t)) /\ t[1] \notin {"send", "done"} THEN 0 ELSE 1
      /\ \A u \in AllThreads : u # t => at'[u] = at[u]
  BY <1>1, ReachMoves
<1>3. CASE t[1] \in {"step", "chunk", "finish"}
  <2>1. ~Owes(t) BY <1>3 DEF Owes
  <2>2. Awaits(t)[1] # "snapshot" BY <1>3, AwaitsStep, AwaitsChunk
  <2>3. shown' = shown BY <2>2 DEF Reach
  <2>4. Summaries' = Summaries BY DEF Summaries, Summary
  <2> QED BY <1>2, <2>1, <2>3, <2>4, StillOwed
<1>4. CASE t[1] \notin {"step", "chunk", "finish"}
  <2>1. Len(Awaits(t)) \in {4, 5}
    BY <1>4, ThreadKinds, AwaitsCreate, AwaitsSend, AwaitsEnd DEF Kinds, Tasks
  <2>2. at'[t] = 1 BY <1>2, <2>1
  <2>3. Owes(t)' BY <1>4, <2>2 DEF Owes
  <2> QED BY <2>3 DEF OwedInv
<1> QED BY <1>3, <1>4

\* A thread goes on, or ends, after a publication.
LEMMA AnswerOwed ==
    ASSUME SessionInv, OwedInv, NEW t \in AllThreads, Answer(t) \/ Finish(t) PROVE OwedInv'
<1>1. TypeInv BY DEF SessionInv
<1>2. Summaries' = Summaries BY DEF Answer, Finish, Summaries, Summary
<1>3. PICK n \in 1 .. 5 : n = at[t] /\ Awaits(t)[n] \in {"event", "snapshot"}
  BY <1>1 DEF Answer, Finish, Waits, TypeInv
<1>4. CASE Answer(t)
  <2>1. n < Len(Awaits(t)) /\ Reach(t, n + 1, queue) /\ faults' = faults
    BY <1>3, <1>4 DEF Answer
  <2>2. /\ at'[t] = IF n + 1 = Len(Awaits(t)) /\ t[1] \notin {"send", "done"}
                    THEN 0 ELSE n + 1
        /\ \A u \in AllThreads : u # t => at'[u] = at[u]
    BY <1>1, <2>1, ReachMoves
  <2>3. CASE t[1] = "send"
    <3>0. Len(Awaits(t)) = 5 BY <2>3, AwaitsSend
    <3>1. n = 4
      <4>1. n \in {1, 2, 3, 4} BY <2>1, <3>0
      <4> QED BY <1>3, <2>3, <4>1, AwaitsSend
    <3>2. ~Owes(t) /\ shown' = shown
      BY <1>3, <2>1, <2>3, <3>1, AwaitsSend DEF Owes, Reach
    <3> QED BY <1>2, <2>1, <2>2, <3>2, StillOwed
  <2>4. CASE t[1] # "send"
    <3>1. n = 2 /\ Len(Awaits(t)) = 4 /\ t[1] \notin {"step", "chunk", "finish"}
      <4>1. CASE t[1] \in {"step", "finish"}
        <5>0. Len(Awaits(t)) = 2 BY <4>1, AwaitsStep
        <5>1. n = 1 BY <2>1, <5>0
        <5> QED BY <1>3, <4>1, <5>1, AwaitsStep
      <4>2. CASE t[1] = "chunk"
        <5>1. Len(Awaits(t)) = 1 BY <4>2, AwaitsChunk
        <5> QED BY <2>1, <5>1
      <4>3. CASE t[1] = "create"
        <5>0. Len(Awaits(t)) = 4 BY <4>3, AwaitsCreate
        <5>1. n \in {1, 2, 3} BY <2>1, <5>0
        <5> QED BY <1>3, <4>3, <5>0, <5>1, AwaitsCreate
      <4>4. CASE t[1] \in {"done", "cancel", "fail"}
        <5>0. Len(Awaits(t)) = 4 BY <4>4, AwaitsEnd
        <5>1. n \in {1, 2, 3} BY <2>1, <5>0
        <5> QED BY <1>3, <4>4, <5>0, <5>1, AwaitsEnd
      <4> QED BY <2>4, <4>1, <4>2, <4>3, <4>4, ThreadKinds DEF Kinds, Tasks
    <3>2. at'[t] = 3 BY <2>2, <3>1
    <3>3. Owes(t)' BY <3>1, <3>2 DEF Owes
    <3> QED BY <3>3 DEF OwedInv
  <2> QED BY <2>3, <2>4
<1>5. CASE Finish(t)
  <2>1. at' = Without(t) /\ shown' = shown /\ n = Len(Awaits(t)) /\ faults' = faults
    BY <1>3, <1>5 DEF Finish, Without
  <2>2. \A u \in AllThreads : u # t => at'[u] = at[u]
    BY <1>1, <2>1 DEF Without, TypeInv
  <2>3. ~Owes(t)
    <3>1. t[1] \notin {"step", "chunk", "finish"} => Len(Awaits(t)) \in {4, 5}
      BY ThreadKinds, AwaitsCreate, AwaitsSend, AwaitsEnd DEF Kinds, Tasks
    <3> QED BY <1>3, <2>1, <3>1 DEF Owes
  <2> QED BY <1>2, <2>1, <2>2, <2>3, StillOwed
<1> QED BY <1>4, <1>5

LEMMA OwedStep ==
    ASSUME SessionInv, faults \in Nat, OwedInv, [Next]_vars PROVE OwedInv'
<1>1. CASE Serve BY <1>1, ServeOwed
<1>2. ASSUME NEW s \in Sessions, CreateSession(s) PROVE OwedInv'
  <2>1. PICK t \in AllThreads : t = <<"create", s>> BY ThreadOfSession
  <2> QED BY <1>2, <2>1, BeginOwed DEF CreateSession
<1>3. ASSUME NEW r \in Runs, SendUserMessage(r) PROVE OwedInv'
  <2>1. PICK t \in AllThreads : t = <<"send", r>> BY ThreadOfRun DEF Kinds
  <2> QED BY <1>3, <2>1, BeginOwed DEF SendUserMessage
<1>4. ASSUME NEW r \in Runs, CancelRun(r) PROVE OwedInv'
  <2>1. PICK t \in AllThreads : t = <<"cancel", r>> BY ThreadOfRun DEF Kinds
  <2> QED BY <1>4, <2>1, BeginOwed DEF CancelRun
<1>5. ASSUME NEW r \in Runs, Fire(r) PROVE OwedInv'
  <2>1. timer[r] \in 1 .. Chunks + 3 BY <1>5, TimersListed DEF Fire
  <2>2. Timers[timer[r]] \in Kinds
    <3>1. timer[r] \in {1, Chunks + 2, Chunks + 3} \/ timer[r] \in 2 .. Chunks + 1
      BY <2>1, SessionRuntimeAssumption
    <3> QED BY <3>1, TimersListed DEF Kinds, Tasks
  <2>3. PICK t \in AllThreads : t = <<Timers[timer[r]], r>> BY <2>2, ThreadOfRun
  <2> QED BY <1>5, <2>3, BeginOwed DEF Fire
<1>6. ASSUME NEW t \in AllThreads, Answer(t) \/ Finish(t) PROVE OwedInv'
  BY <1>6, AnswerOwed
<1>7. ASSUME faults' = faults + 1 PROVE OwedInv'
  BY <1>7 DEF OwedInv
<1>8. CASE UNCHANGED vars BY <1>8 DEF vars, OwedInv, Owes, Summaries, Summary
<1> QED
  BY <1>1, <1>2, <1>3, <1>4, <1>5, <1>6, <1>7, <1>8
  DEF Next, Restart, PublicationFails, Fault, AllThreads

\* As long as nothing fails, whatever the window has not been told of the session
\* list a call that is under way will publish, however many calls and callbacks read
\* and publish the list in between.
THEOREM OldListIsOwed == Spec => []ListIsOwed
<1> DEFINE Inv == SessionInv /\ faults \in Nat /\ OwedInv
<1>1. Init => Inv
  <2>1. ASSUME Init PROVE faults \in Nat /\ OwedInv BY <2>1 DEF Init, OwedInv
  <2> QED BY <2>1, SessionInvInit
<1>2. Inv /\ [Next]_vars => Inv' BY SessionInvStep, FaultsCounted, OwedStep
<1>3. Inv => ListIsOwed
  <2>1. ASSUME Inv PROVE ListIsOwed
    <3>1. TypeInv BY <2>1 DEF SessionInv
    <3> QED BY <2>1, <3>1, OwesList DEF OwedInv, ListIsOwed, AllThreads
  <2> QED BY <2>1
<1> QED BY <1>1, <1>2, <1>3, PTL DEF Spec

-------------------------------------------------------------------------------
(* What a step does                                                          *)

\* Only the thread of kind k of run r moves.
OnlyMoves(k, r) ==
    /\ \A p \in Runs, j \in Kinds : p # r \/ j # k => at'[<<j, p>>] = at[<<j, p>>]
    /\ \A s \in Sessions : at'[<<"create", s>>] = at[<<"create", s>>]

\* Nothing is published but for run r.
OnlyHears(r) == \A p \in Runs : p # r => events'[p] = events[p]

\* Thread t joins the queue, goes on from its head, or both.
QueueBy(t) ==
    \/ queue' = queue \/ queue' = Append(queue, t)
    \/ /\ queue # <<>> /\ Head(queue) = t /\ at'[t] # at[t]
       /\ queue' = Tail(queue) \/ queue' = Append(Tail(queue), t)

\* sendUserMessage has read the session, or stored it with the message of r.
Gets(r) ==
    /\ at[<<"send", r>>] = 1 /\ at'[<<"send", r>>] = 2
    /\ store' = store /\ copy' = [copy EXCEPT ![r] = store[home[r]]]
    /\ events'[r] = events[r]
Upserts(r) ==
    /\ at[<<"send", r>>] = 2 /\ at'[<<"send", r>>] = 3
    /\ store' = [store EXCEPT ![home[r]] = WithMessage(copy[r], r)] /\ copy' = copy
    /\ events'[r] = events[r]

\* A callback or a stop has changed the session of r, and publishes.
Patches(k, r) ==
    /\ k \in {"step", "finish", "done", "cancel", "fail"}
    /\ at[<<k, r>>] = 1
    /\ at'[<<k, r>>] = IF k \in {"step", "finish"} THEN 0 ELSE 2
    /\ store' = [store EXCEPT ![home[r]] = Patched(<<k, r>>, store[home[r]])]
    /\ copy' = copy /\ events'[r] = Append(events[r], Event[k])

\* The sessions were listed.
Lists(k, r) ==
    /\ k \in {"send", "done", "cancel", "fail"}
    /\ at[<<k, r>>] = 3 /\ at'[<<k, r>>] = IF k \in {"send", "done"} THEN 4 ELSE 0
    /\ store' = store /\ copy' = copy /\ events'[r] = events[r]

\* The store works for the thread of kind k of run r.
WorksFor(k, r) ==
    /\ queue # <<>> /\ Head(queue) = <<k, r>>
    /\ OnlyMoves(k, r) /\ OnlyHears(r) /\ QueueBy(<<k, r>>)
    /\ UNCHANGED <<home, timer, active, cancelled, known, patient, faults>>
    /\ \/ k = "send" /\ (Gets(r) \/ Upserts(r))
       \/ Patches(k, r)
       \/ Lists(k, r)

\* The thread that creates s goes on.
CreateGoesOn(s) ==
    /\ \A p \in Runs, j \in Kinds : at'[<<j, p>>] = at[<<j, p>>]
    /\ \A p \in Sessions : p # s => at'[<<"create", p>>] = at[<<"create", p>>]
    /\ QueueBy(<<"create", s>>)
    /\ \/ store' = store
       \/ at[<<"create", s>>] = 1 /\ store' = [store EXCEPT ![s].status = "idle"]
    /\ at'[<<"create", s>>] = 1 => at[<<"create", s>>] = 0 /\ store[s].status = "missing"
                                   /\ s \notin known /\ store' = store
    /\ events' = events /\ known \subseteq known'
    /\ UNCHANGED <<home, copy, timer, active, cancelled, patient, faults>>

LEMMA OnlyThread ==
    ASSUME NEW k \in Kinds, NEW r \in Runs, NEW t \in AllThreads, t = <<k, r>>,
           \A u \in AllThreads : u # t => at'[u] = at[u]
    PROVE  OnlyMoves(k, r)
<1>1. ASSUME NEW p \in Runs, NEW j \in Kinds, p # r \/ j # k
      PROVE at'[<<j, p>>] = at[<<j, p>>]
  <2>1. PICK u \in AllThreads : u = <<j, p>> BY ThreadOfRun
  <2> QED BY <1>1, <2>1
<1>2. ASSUME NEW s \in Sessions PROVE at'[<<"create", s>>] = at[<<"create", s>>]
  <2>1. PICK u \in AllThreads : u = <<"create", s>> BY ThreadOfSession
  <2>2. u # t BY <2>1 DEF Kinds, Tasks
  <2> QED BY <2>1, <2>2
<1> QED BY <1>1, <1>2 DEF OnlyMoves

LEMMA ReachMovesOne ==
    ASSUME TypeInv, NEW k \in Kinds, NEW r \in Runs, NEW i, NEW q, Reach(<<k, r>>, i, q)
    PROVE  /\ OnlyMoves(k, r)
           /\ at'[<<k, r>>] = IF i = Len(Awaits(<<k, r>>)) /\ k \notin {"send", "done"}
                              THEN 0 ELSE i
           /\ queue' = q \/ queue' = Append(q, <<k, r>>)
<1>1. PICK t \in AllThreads : t = <<k, r>> /\ t[1] = k BY ThreadOfRun
<1>2. /\ at'[t] = IF i = Len(Awaits(t)) /\ t[1] \notin {"send", "done"} THEN 0 ELSE i
      /\ \A u \in AllThreads : u # t => at'[u] = at[u]
  <2>1. Reach(t, i, q) BY <1>1
  <2> QED BY <2>1, ReachMoves
<1>3. queue' = q \/ queue' = Append(q, <<k, r>>) BY DEF Reach
<1>4. OnlyMoves(k, r) BY <1>1, <1>2, OnlyThread
<1> QED BY <1>1, <1>2, <1>3, <1>4

LEMMA ReachCreates ==
    ASSUME TypeInv, NEW s \in Sessions, NEW i, NEW q, Reach(<<"create", s>>, i, q)
    PROVE  /\ \A p \in Runs, j \in Kinds : at'[<<j, p>>] = at[<<j, p>>]
           /\ \A p \in Sessions : p # s => at'[<<"create", p>>] = at[<<"create", p>>]
           /\ at'[<<"create", s>>] \in {0, i}
           /\ queue' = q \/ queue' = Append(q, <<"create", s>>)
           /\ events' = events /\ known \subseteq known'
<1>1. PICK t \in AllThreads : t = <<"create", s>> /\ t[1] = "create" BY ThreadOfSession
<1>2. at'[t] \in {0, i} /\ \A u \in AllThreads : u # t => at'[u] = at[u]
  <2>1. Reach(t, i, q) BY <1>1
  <2> QED BY <2>1, ReachMoves
<1>3. ASSUME NEW p \in Runs, NEW j \in Kinds PROVE at'[<<j, p>>] = at[<<j, p>>]
  <2>1. PICK u \in AllThreads : u = <<j, p>> BY ThreadOfRun
  <2>2. u # t BY <1>1, <2>1 DEF Kinds, Tasks
  <2> QED BY <1>2, <2>1, <2>2
<1>4. ASSUME NEW p \in Sessions, p # s PROVE at'[<<"create", p>>] = at[<<"create", p>>]
  <2>1. PICK u \in AllThreads : u = <<"create", p>> BY ThreadOfSession
  <2>2. u # t BY <1>1, <1>4, <2>1
  <2> QED BY <1>2, <2>1, <2>2
<1>5. events' = events /\ known \subseteq known' BY DEF Reach
<1>6. queue' = q \/ queue' = Append(q, <<"create", s>>) BY DEF Reach
<1> QED BY <1>1, <1>2, <1>3, <1>4, <1>5, <1>6

\* Every operation of the store is one of these.
LEMMA ServeIs ==
    ASSUME SessionInv, Serve
    PROVE  \/ \E s \in Sessions : CreateGoesOn(s)
           \/ \E k \in Kinds, r \in Runs : WorksFor(k, r)
<1>1. TypeInv /\ InOrder(queue, at) BY DEF SessionInv
<1>2. at \in [AllThreads -> 0 .. 5] /\ queue \in Seq(AllThreads) /\ queue # <<>>
  BY <1>1 DEF TypeInv, Serve
<1>3. PICK t \in AllThreads : t = Head(queue) BY <1>1, <1>2, Taken
<1>4. AtStore(t, at[t]) BY <1>1, <1>2, <1>3, Taken
<1>5. PICK q : q = Tail(queue) OBVIOUS
<1>6. PICK n \in 1 .. 5 : n = at[t] BY <1>2, <1>4 DEF AtStore
<1>7. PICK s : s = IF t \in Creates THEN t[2] ELSE home[t[2]] OBVIOUS
<1>8. /\ Stored(t, s) /\ Reach(t, n + 1, q)
      /\ UNCHANGED <<home, timer, active, cancelled, patient, faults>>
  BY <1>3, <1>5, <1>6, <1>7 DEF Serve, Stored
<1>9. n \in 1 .. Len(Awaits(t)) /\ Awaits(t)[n] \in {"get", "upsert", "patch", "list"}
  BY <1>4, <1>6 DEF AtStore, StoreOps
<1>10. CASE t \in Creates
  <2>1. t = <<"create", s>> /\ s \in Sessions /\ t[1] = "create"
    BY <1>7, <1>10 DEF Creates
  <2>2. Len(Awaits(t)) = 4 BY <2>1, AwaitsCreate
  <2>3. n \in 1 .. 4 BY <1>9, <2>2
  <2>4. Awaits(t)[n] \in {"upsert", "list"} /\ (Awaits(t)[n] = "upsert" => n = 1)
    BY <1>9, <2>1, <2>3, AwaitsCreate
  <2>5. \/ store' = store
        \/ at[<<"create", s>>] = 1 /\ store' = [store EXCEPT ![s].status = "idle"]
    BY <1>6, <1>8, <1>10, <2>1, <2>4 DEF Stored
  <2>6. copy' = copy BY <1>6, <1>8, <2>4 DEF Stored
  <2>7. Reach(<<"create", s>>, n + 1, q) BY <1>8, <2>1
  <2>8. QueueBy(<<"create", s>>)
    <3>1. /\ queue' = q \/ queue' = Append(q, <<"create", s>>)
          /\ at'[<<"create", s>>] \in {0, n + 1}
      BY <1>1, <2>1, <2>7, ReachCreates
    <3>2. at'[t] # at[t] BY <1>6, <2>1, <3>1
    <3> QED BY <1>2, <1>3, <1>5, <2>1, <3>1, <3>2 DEF QueueBy
  <2>9. at'[<<"create", s>>] # 1
    <3>1. at'[<<"create", s>>] \in {0, n + 1} BY <1>1, <2>1, <2>7, ReachCreates
    <3> QED BY <3>1
  <2>10. CreateGoesOn(s)
    BY <1>1, <1>8, <2>1, <2>5, <2>6, <2>7, <2>8, <2>9, ReachCreates DEF CreateGoesOn
  <2> QED BY <2>1, <2>10
<1>11. CASE t \notin Creates
  <2>1. PICK k \in Kinds, r \in Runs : t = <<k, r>> /\ t[1] = k /\ t[2] = r
    BY <1>11, ThreadKinds
  <2>2. s = home[r] BY <1>7, <1>11, <2>1
  <2>3. Reach(<<k, r>>, n + 1, q) BY <1>8, <2>1
  <2>4. OnlyMoves(k, r) /\ QueueBy(<<k, r>>)
    <3>1. /\ OnlyMoves(k, r)
          /\ queue' = q \/ queue' = Append(q, <<k, r>>)
          /\ at'[<<k, r>>] \in {0, n + 1}
      BY <1>1, <2>3, ReachMovesOne
    <3>2. at'[t] # at[t] BY <1>6, <2>1, <3>1
    <3> QED BY <1>2, <1>3, <1>5, <2>1, <3>1, <3>2 DEF QueueBy
  <2>5. at'[<<k, r>>] = IF n + 1 = Len(Awaits(t)) /\ k \notin {"send", "done"} THEN 0 ELSE n + 1
    BY <1>1, <2>1, <2>3, ReachMovesOne
  <2>6. /\ OnlyHears(r) /\ known' = known
        /\ events'[r] = IF Awaits(t)[n + 1] = "event"
                        THEN Append(events[r], Event[k]) ELSE events[r]
    BY <1>1, <2>1, <2>3, ReachPublishes DEF OnlyHears
  <2>7. /\ store' = CASE Awaits(t)[n] = "upsert" ->
                             [store EXCEPT ![home[r]] = WithMessage(copy[r], r)]
                      [] Awaits(t)[n] = "patch" ->
                             [store EXCEPT ![home[r]] = Patched(t, store[home[r]])]
                      [] OTHER -> store
        /\ copy' = IF Awaits(t)[n] = "get" THEN [copy EXCEPT ![r] = store[home[r]]] ELSE copy
    BY <1>6, <1>8, <1>11, <2>1, <2>2 DEF Stored
  <2>8. at[<<k, r>>] = n BY <1>6, <2>1
  <2>9. (k = "send" /\ (Gets(r) \/ Upserts(r))) \/ Patches(k, r) \/ Lists(k, r)
    <3>1. CASE k = "send"
      <4>1. Len(Awaits(t)) = 5 BY <2>1, <3>1, AwaitsSend
      <4>2. n \in {1, 2, 3, 4, 5} BY <1>9, <4>1
      <4>3. n \in {1, 2, 3} BY <1>9, <2>1, <3>1, <4>2, AwaitsSend
      <4>4. CASE n = 1
        BY <2>1, <2>5, <2>6, <2>7, <2>8, <3>1, <4>1, <4>4, AwaitsSend DEF Gets
      <4>5. CASE n = 2
        BY <2>1, <2>5, <2>6, <2>7, <2>8, <3>1, <4>1, <4>5, AwaitsSend DEF Upserts
      <4>6. CASE n = 3
        BY <2>1, <2>5, <2>6, <2>7, <2>8, <3>1, <4>1, <4>6, AwaitsSend DEF Lists
      <4> QED BY <3>1, <4>3, <4>4, <4>5, <4>6
    <3>2. CASE k \in {"step", "finish"}
      <4>1. Len(Awaits(t)) = 2 BY <2>1, <3>2, AwaitsStep
      <4>2. n \in {1, 2} BY <1>9, <4>1
      <4>3. n = 1 BY <1>9, <2>1, <3>2, <4>2, AwaitsStep
      <4> QED BY <2>1, <2>5, <2>6, <2>7, <2>8, <3>2, <4>1, <4>3, AwaitsStep DEF Patches
    <3>3. CASE k \in {"done", "cancel", "fail"}
      <4>1. Len(Awaits(t)) = 4 BY <2>1, <3>3, AwaitsEnd
      <4>2. n \in {1, 2, 3, 4} BY <1>9, <4>1
      <4>3. n \in {1, 3} BY <1>9, <2>1, <3>3, <4>2, AwaitsEnd
      <4>4. CASE n = 1
        BY <2>1, <2>5, <2>6, <2>7, <2>8, <3>3, <4>1, <4>4, AwaitsEnd DEF Patches
      <4>5. CASE n = 3
        BY <2>1, <2>5, <2>6, <2>7, <2>8, <3>3, <4>1, <4>5, AwaitsEnd DEF Lists
      <4> QED BY <4>3, <4>4, <4>5
    <3>4. CASE k = "chunk"
      <4>1. Len(Awaits(t)) = 1 BY <2>1, <3>4, AwaitsChunk
      <4>2. n = 1 BY <1>9, <4>1
      <4> QED BY <1>9, <2>1, <3>4, <4>2, AwaitsChunk
    <3> QED BY <3>1, <3>2, <3>3, <3>4 DEF Kinds, Tasks
  <2>10. WorksFor(k, r) BY <1>2, <1>3, <1>8, <2>1, <2>4, <2>6, <2>9 DEF WorksFor
  <2> QED BY <2>10
<1> QED BY <1>10, <1>11

\* The host has taken what the thread published.
Answered(k, r) ==
    /\ OnlyMoves(k, r) /\ OnlyHears(r) /\ QueueBy(<<k, r>>)
    /\ UNCHANGED <<home, store, copy, timer, active, cancelled, known, patient, faults>>
    /\ \/ /\ k = "send" /\ at[<<k, r>>] = 4 /\ at'[<<k, r>>] = 5
          /\ events'[r] = Append(events[r], "RUN_STARTED")
       \/ /\ k \in {"done", "cancel", "fail"} /\ at[<<k, r>>] = 2 /\ at'[<<k, r>>] = 3
          /\ events'[r] = events[r]

\* The thread ends.
Finished(k, r) ==
    /\ OnlyMoves(k, r) /\ at[<<k, r>>] \notin {0, 1} /\ at'[<<k, r>>] = 0
    /\ UNCHANGED <<home, store, copy, queue, cancelled, events, known, patient, faults>>
    /\ \/ /\ k = "send" /\ at[<<k, r>>] = 5
          /\ active' = active \cup {r} /\ timer' = [timer EXCEPT ![r] = 1]
       \/ /\ k = "done" /\ at[<<k, r>>] = 4
          /\ active' = active \ {r} /\ timer' = timer
       \/ k \notin {"send", "done"} /\ active' = active /\ timer' = timer

\* The thread begins: a request, a stop by the user, or a callback.
Begun(k, r) ==
    /\ OnlyMoves(k, r) /\ OnlyHears(r)
    /\ at[<<k, r>>] = 0 /\ at'[<<k, r>>] = IF k = "chunk" THEN 0 ELSE 1
    /\ queue' = IF k = "chunk" THEN queue ELSE Append(queue, <<k, r>>)
    /\ events'[r] = IF k = "chunk" THEN Append(events[r], "ASSISTANT_DELTA") ELSE events[r]
    /\ UNCHANGED <<home, store, copy, known, patient, faults>>
    /\ \/ k = "send" /\ SendUserMessage(r) /\ UNCHANGED <<timer, active, cancelled>>
       \/ /\ k = "cancel" /\ CancelRun(r) /\ timer' = timer
          /\ active' = active \ {r} /\ cancelled' = cancelled \cup {r}
       \/ /\ k \in Tasks /\ timer[r] \in 1 .. Chunks + 3 /\ r \notin cancelled
          /\ timer' = [timer EXCEPT ![r] = @ + 1] /\ UNCHANGED <<active, cancelled>>

LEMMA AnswerIs ==
    ASSUME SessionInv, NEW t \in AllThreads, Answer(t)
    PROVE  \/ \E s \in Sessions : CreateGoesOn(s)
           \/ \E k \in Kinds, r \in Runs : Answered(k, r)
<1>1. TypeInv /\ InOrder(queue, at) BY DEF SessionInv
<1>2. PICK n \in 1 .. 5 : n = at[t] /\ Awaits(t)[n] \in {"event", "snapshot"}
  BY <1>1 DEF Answer, Waits, TypeInv
<1>3. /\ n < Len(Awaits(t)) /\ Reach(t, n + 1, queue)
      /\ UNCHANGED <<home, store, copy, timer, active, cancelled, patient, faults>>
  BY <1>2 DEF Answer
<1>4. CASE t \in Creates
  <2>1. PICK s \in Sessions : t = <<"create", s>> /\ t[1] = "create" BY <1>4 DEF Creates
  <2>2. Reach(<<"create", s>>, n + 1, queue) BY <1>3, <2>1
  <2>3. at'[<<"create", s>>] # 1
    <3>1. at'[<<"create", s>>] \in {0, n + 1} BY <1>1, <2>2, ReachCreates
    <3> QED BY <3>1
  <2>4. CreateGoesOn(s)
    BY <1>1, <1>3, <2>2, <2>3, ReachCreates DEF CreateGoesOn, QueueBy
  <2> QED BY <2>4
<1>5. CASE t \notin Creates
  <2>1. PICK k \in Kinds, r \in Runs : t = <<k, r>> /\ t[1] = k /\ t[2] = r
    BY <1>5, ThreadKinds
  <2>2. Reach(<<k, r>>, n + 1, queue) BY <1>3, <2>1
  <2>3. /\ OnlyMoves(k, r) /\ QueueBy(<<k, r>>)
        /\ at'[<<k, r>>] = IF n + 1 = Len(Awaits(t)) /\ k \notin {"send", "done"}
                           THEN 0 ELSE n + 1
    BY <1>1, <2>1, <2>2, ReachMovesOne DEF QueueBy
  <2>4. /\ OnlyHears(r) /\ known' = known
        /\ events'[r] = IF Awaits(t)[n + 1] = "event"
                        THEN Append(events[r], Event[k]) ELSE events[r]
    BY <1>1, <2>1, <2>2, ReachPublishes DEF OnlyHears
  <2>5. at[<<k, r>>] = n BY <1>2, <2>1
  <2>6. CASE k = "send"
    <3>1. Len(Awaits(t)) = 5 BY <2>1, <2>6, AwaitsSend
    <3>2. n \in {1, 2, 3, 4} BY <1>3, <3>1
    <3>3. n = 4 BY <1>2, <2>1, <2>6, <3>2, AwaitsSend
    <3>4. Event[k] = "RUN_STARTED" BY <2>6 DEF Event
    <3>5. at'[<<k, r>>] = 5 /\ events'[r] = Append(events[r], "RUN_STARTED")
      BY <2>1, <2>3, <2>4, <2>6, <3>3, <3>4, AwaitsSend
    <3>6. Answered(k, r) BY <1>3, <2>3, <2>4, <2>5, <2>6, <3>3, <3>5 DEF Answered
    <3> QED BY <3>6
  <2>7. CASE k \in {"done", "cancel", "fail"}
    <3>1. Len(Awaits(t)) = 4 BY <2>1, <2>7, AwaitsEnd
    <3>2. n \in {1, 2, 3} BY <1>3, <3>1
    <3>3. n = 2 BY <1>2, <2>1, <2>7, <3>2, AwaitsEnd
    <3>4. at'[<<k, r>>] = 3 /\ events'[r] = events[r]
      BY <2>1, <2>3, <2>4, <2>7, <3>1, <3>3, AwaitsEnd
    <3>5. Answered(k, r) BY <1>3, <2>3, <2>4, <2>5, <2>7, <3>3, <3>4 DEF Answered
    <3> QED BY <3>5
  <2>8. CASE k \in {"step", "finish", "chunk"}
    <3>1. k # "chunk" => Len(Awaits(t)) = 2 /\ Awaits(t)[1] = "patch"
      BY <2>1, <2>8, AwaitsStep
    <3>2. k = "chunk" => Len(Awaits(t)) = 1 BY <2>1, AwaitsChunk
    <3>3. CASE k = "chunk"
      <4>1. n < 1 BY <1>3, <3>2, <3>3
      <4> QED BY <4>1
    <3>4. CASE k # "chunk"
      <4>1. n < 2 BY <1>3, <3>1, <3>4
      <4>2. n = 1 BY <4>1
      <4> QED BY <1>2, <3>1, <3>4, <4>2
    <3> QED BY <3>3, <3>4
  <2> QED BY <2>6, <2>7, <2>8 DEF Kinds, Tasks
<1> QED BY <1>4, <1>5

LEMMA FinishIs ==
    ASSUME SessionInv, NEW t \in AllThreads, Finish(t)
    PROVE  \/ \E s \in Sessions : CreateGoesOn(s)
           \/ \E k \in Kinds, r \in Runs : Finished(k, r)
<1>1. TypeInv BY DEF SessionInv
<1>2. PICK n \in 1 .. 5 : n = at[t] /\ Awaits(t)[n] \in {"event", "snapshot"}
  <2>1. Waits(t) BY DEF Finish
  <2>2. at[t] \in 0 .. 5 /\ at[t] # 0 BY <1>1, <2>1 DEF Waits, TypeInv
  <2>3. at[t] \in 1 .. 5 BY <2>2
  <2> QED BY <2>1, <2>3 DEF Waits
<1>3. n = Len(Awaits(t)) /\ at' = [at EXCEPT ![t] = 0]
  BY <1>2 DEF Finish
<1>4. UNCHANGED <<home, store, copy, queue, cancelled, events, known, patient, faults>>
  BY DEF Finish
<1>5. at'[t] = 0 /\ \A u \in AllThreads : u # t => at'[u] = at[u] BY <1>1, <1>3 DEF TypeInv
<1>6. CASE t \in Creates
  <2>1. PICK s \in Sessions : t = <<"create", s>> /\ t[1] = "create" BY <1>6 DEF Creates
  <2>2. active' = active /\ timer' = timer BY <2>1 DEF Finish
  <2>3. ASSUME NEW p \in Runs, NEW j \in Kinds PROVE at'[<<j, p>>] = at[<<j, p>>]
    <3>1. PICK u \in AllThreads : u = <<j, p>> BY ThreadOfRun
    <3>2. u # t BY <2>1, <3>1 DEF Kinds, Tasks
    <3> QED BY <1>5, <3>1, <3>2
  <2>4. ASSUME NEW p \in Sessions, p # s PROVE at'[<<"create", p>>] = at[<<"create", p>>]
    <3>1. PICK u \in AllThreads : u = <<"create", p>> BY ThreadOfSession
    <3>2. u # t BY <2>1, <2>4, <3>1
    <3> QED BY <1>5, <3>1, <3>2
  <2>5. CreateGoesOn(s) BY <1>4, <1>5, <2>1, <2>2, <2>3, <2>4 DEF CreateGoesOn, QueueBy
  <2> QED BY <2>5
<1>7. CASE t \notin Creates
  <2>1. PICK k \in Kinds, r \in Runs : t = <<k, r>> /\ t[1] = k /\ t[2] = r
    BY <1>7, ThreadKinds
  <2>2. OnlyMoves(k, r) BY <1>5, <2>1, OnlyThread
  <2>3. at[<<k, r>>] = n /\ at'[<<k, r>>] = 0 BY <1>2, <1>5, <2>1
  <2>4. n # 1 /\ (k = "send" => n = 5) /\ (k = "done" => n = 4)
    <3>1. k # "chunk"
      <4>1. RunInv(r) BY DEF SessionInv
      <4> QED BY <2>3, <4>1 DEF RunInv, CallbackInv
    <3> QED BY <1>3, <2>1, <3>1, AwaitsSend, AwaitsStep, AwaitsEnd DEF Kinds, Tasks
  <2>5. \/ k = "send" /\ active' = active \cup {r} /\ timer' = [timer EXCEPT ![r] = 1]
        \/ k = "done" /\ active' = active \ {r} /\ timer' = timer
        \/ k \notin {"send", "done"} /\ active' = active /\ timer' = timer
    BY <2>1 DEF Finish
  <2>6. Finished(k, r) BY <1>4, <2>2, <2>3, <2>4, <2>5 DEF Finished
  <2> QED BY <2>6
<1> QED BY <1>6, <1>7

LEMMA BeginIs ==
    ASSUME SessionInv, NEW r \in Runs
    PROVE  /\ SendUserMessage(r) => Begun("send", r)
           /\ CancelRun(r) => Begun("cancel", r)
           /\ Fire(r) => \E k \in Kinds : Begun(k, r)
<1>1. TypeInv /\ RunInv(r) BY DEF SessionInv
<1>2. ASSUME NEW k \in Kinds, Reach(<<k, r>>, 1, queue)
      PROVE /\ OnlyMoves(k, r) /\ OnlyHears(r) /\ known' = known
            /\ at'[<<k, r>>] = IF k = "chunk" THEN 0 ELSE 1
            /\ queue' = IF k = "chunk" THEN queue ELSE Append(queue, <<k, r>>)
            /\ events'[r] = IF k = "chunk" THEN Append(events[r], "ASSISTANT_DELTA")
                            ELSE events[r]
  <2>1. PICK t \in AllThreads : t = <<k, r>> /\ t[1] = k BY ZenonT(30), ThreadOfRun
  <2>2. /\ OnlyMoves(k, r)
        /\ at'[t] = IF 1 = Len(Awaits(t)) /\ k \notin {"send", "done"} THEN 0 ELSE 1
    BY <1>1, <1>2, <2>1, ReachMovesOne
  <2>3. /\ OnlyHears(r) /\ known' = known
        /\ events'[r] = IF Awaits(t)[1] = "event" THEN Append(events[r], Event[k])
                        ELSE events[r]
    BY <1>1, <1>2, <2>1, ReachPublishes DEF OnlyHears
  <2>4. /\ k # "chunk" => Len(Awaits(t)) # 1 /\ Awaits(t)[1] # "event"
        /\ k = "chunk" => Len(Awaits(t)) = 1 /\ Awaits(t)[1] = "event"
    BY <2>1, FirstAwait
  <2>5. k # "chunk" => Awaits(t)[1] \in StoreOps
    BY <2>1, AwaitsSend, AwaitsStep, AwaitsEnd DEF Kinds, Tasks, StoreOps
  <2>6. queue' = IF Awaits(t)[1] \in StoreOps THEN Append(queue, t) ELSE queue
    BY <1>2, <2>1 DEF Reach
  <2>7. k = "chunk" => Event[k] = "ASSISTANT_DELTA" BY DEF Event
  <2>8. queue' = IF k = "chunk" THEN queue ELSE Append(queue, <<k, r>>)
    BY <2>1, <2>4, <2>5, <2>6 DEF StoreOps
  <2>9. at'[<<k, r>>] = IF k = "chunk" THEN 0 ELSE 1 BY <2>1, <2>2, <2>4
  <2> QED BY <2>2, <2>3, <2>4, <2>7, <2>8, <2>9
<1>3. ASSUME SendUserMessage(r) PROVE Begun("send", r)
  <2>1. "send" \in Kinds BY DEF Kinds
  <2>2. /\ at[<<"send", r>>] = 0 /\ Reach(<<"send", r>>, 1, queue)
        /\ UNCHANGED <<home, store, copy, timer, active, cancelled, patient, faults>>
    BY <1>3 DEF SendUserMessage, Sent
  <2> QED BY <1>2, <1>3, <2>1, <2>2 DEF Begun
<1>4. ASSUME CancelRun(r) PROVE Begun("cancel", r)
  <2>1. "cancel" \in Kinds BY DEF Kinds
  <2>2. /\ r \in active /\ Reach(<<"cancel", r>>, 1, queue)
        /\ active' = active \ {r} /\ cancelled' = cancelled \cup {r}
        /\ UNCHANGED <<home, store, copy, timer, patient, faults>>
    BY <1>4 DEF CancelRun
  <2>3. at[<<"cancel", r>>] = 0 BY <1>1, <2>2 DEF RunInv, RequestInv
  <2> QED BY <1>2, <1>4, <2>1, <2>2, <2>3 DEF Begun
<1>5. ASSUME Fire(r) PROVE \E k \in Kinds : Begun(k, r)
  <2>1. timer[r] \in 1 .. Chunks + 3 /\ r \notin cancelled BY <1>5, TimersListed DEF Fire
  <2>2. PICK k : k = Timers[timer[r]] OBVIOUS
  <2>3. Chunks \in Nat /\ timer[r] \in Nat BY <2>1, SessionRuntimeAssumption
  <2>4. \/ timer[r] = 1 /\ k = "step"
        \/ timer[r] \in 2 .. Chunks + 1 /\ k = "chunk"
        \/ timer[r] = Chunks + 2 /\ k = "finish"
        \/ timer[r] = Chunks + 3 /\ k = "done"
    BY <2>1, <2>2, <2>3, TimersListed
  <2>5. k \in Kinds /\ k \in Tasks BY <2>4 DEF Kinds, Tasks
  <2>6. at[<<k, r>>] = 0
    <3>1. CallbackInv(r) BY <1>1 DEF RunInv
    <3> QED BY <2>3, <2>4, <3>1 DEF CallbackInv
  <2>7. /\ Reach(<<k, r>>, 1, queue) /\ timer' = [timer EXCEPT ![r] = @ + 1]
        /\ UNCHANGED <<home, store, copy, active, cancelled, patient, faults>>
    BY <1>5, <2>2 DEF Fire
  <2>8. Begun(k, r) BY <1>2, <2>1, <2>5, <2>6, <2>7 DEF Begun
  <2> QED BY <2>5, <2>8
<1> QED BY <1>3, <1>4, <1>5

\* Thread t waits for the store, and u behind it.
Ahead(t, u) == \E i, j \in 1 .. Len(queue) : i < j /\ queue[i] = t /\ queue[j] = u

\* Who waits behind t waits behind it as long as t stays where it is.
OrderKept == \A t, u \in AllThreads : Ahead(t, u) /\ at'[t] = at[t] => Ahead(t, u)'

\* Something fails: what is under way goes on, ends, or a failRun begins.
Fails ==
    /\ faults' = faults + 1
    /\ UNCHANGED <<home, store, copy, timer, events, known, patient>>
    /\ \A p \in Runs, j \in Kinds : j # "fail" => at'[<<j, p>>] \in {0, at[<<j, p>>]}
    /\ \A s \in Sessions : at'[<<"create", s>>] \in {0, at[<<"create", s>>]}
    /\ active' \subseteq active /\ cancelled \subseteq cancelled'
    /\ OrderKept

\* A queue that loses its head, or gets longer, keeps the others in order.
LEMMA QueueKept ==
    ASSUME NEW q \in Seq(AllThreads), queue \in Seq(AllThreads), NEW w \in AllThreads,
           \/ q = queue
           \/ queue # <<>> /\ Head(queue) = w /\ at'[w] # at[w] /\ q = Tail(queue),
           InOrder(queue, at),
           queue' = q \/ \E x \in AllThreads : queue' = Append(q, x)
    PROVE  OrderKept
<1> SUFFICES ASSUME NEW t \in AllThreads, NEW u \in AllThreads, Ahead(t, u), at'[t] = at[t]
             PROVE Ahead(t, u)'
  BY DEF OrderKept
<1>1. PICK i \in 1 .. Len(queue), j \in 1 .. Len(queue) : i < j /\ queue[i] = t /\ queue[j] = u
  BY DEF Ahead
<1>2. Len(queue) \in Nat /\ Len(q) \in Nat OBVIOUS
<1>3. \E a, b \in 1 .. Len(q) : a < b /\ q[a] = t /\ q[b] = u
  <2>1. CASE q = queue BY <1>1, <2>1
  <2>2. CASE q # queue
    <3>1. queue # <<>> /\ Head(queue) = w /\ t # w /\ q = Tail(queue) BY <2>2
    <3>2. queue[1] = w /\ Len(q) = Len(queue) - 1 BY <3>1
    <3>3. \A k \in 1 .. Len(q) : q[k] = queue[k + 1] BY <3>1
    <3>4. i # 1 BY <1>1, <3>1, <3>2
    <3>5. i - 1 \in 1 .. Len(q) /\ j - 1 \in 1 .. Len(q) /\ i - 1 < j - 1
      BY <1>1, <1>2, <3>2, <3>4
    <3>6. q[i - 1] = queue[(i - 1) + 1] /\ q[j - 1] = queue[(j - 1) + 1] BY <3>3, <3>5
    <3>7. q[i - 1] = t /\ q[j - 1] = u BY <1>1, <3>6
    <3> QED BY <3>5, <3>7
  <2> QED BY <2>1, <2>2
<1>4. PICK a \in 1 .. Len(q), b \in 1 .. Len(q) : a < b /\ q[a] = t /\ q[b] = u BY <1>3
<1>5. a \in 1 .. Len(queue') /\ b \in 1 .. Len(queue') /\ queue'[a] = t /\ queue'[b] = u
  <2>1. CASE queue' = q BY <1>4, <2>1
  <2>2. CASE queue' # q
    <3>1. PICK x \in AllThreads : queue' = Append(q, x) BY <2>2
    <3>2. Len(queue') = Len(q) + 1 /\ \A k \in 1 .. Len(q) : queue'[k] = q[k] BY <3>1
    <3> QED BY <1>2, <1>4, <3>2
  <2> QED BY <2>1, <2>2
<1> QED BY <1>4, <1>5 DEF Ahead

\* So does a queue that one thread joins or goes on from.
LEMMA QueueByKept ==
    ASSUME SessionInv, NEW t \in AllThreads, QueueBy(t)
    PROVE  OrderKept
<1>1. TypeInv /\ InOrder(queue, at) BY DEF SessionInv
<1>2. queue \in Seq(AllThreads) BY <1>1 DEF TypeInv
<1>3. CASE queue' = queue \/ queue' = Append(queue, t) BY <1>1, <1>2, <1>3, QueueKept
<1>4. CASE ~(queue' = queue \/ queue' = Append(queue, t))
  <2>1. PICK q : q = Tail(queue) OBVIOUS
  <2>2. /\ queue # <<>> /\ Head(queue) = t /\ at'[t] # at[t]
        /\ queue' = q \/ queue' = Append(q, t)
    BY <1>4, <2>1 DEF QueueBy
  <2>3. q \in Seq(AllThreads) BY <1>2, <2>1, <2>2
  <2> QED BY <1>1, <1>2, <2>1, <2>2, <2>3, QueueKept
<1> QED BY <1>3, <1>4

LEMMA RestartIs ==
    ASSUME SessionInv, Restart PROVE Fails
<1>1. TypeInv /\ InOrder(queue, at) BY DEF SessionInv
<1>2. /\ at' = [t \in AllThreads |-> 0] /\ active' = {} /\ cancelled' = cancelled \cup Sent
      /\ faults' = faults + 1
      /\ UNCHANGED <<home, store, copy, timer, events, known, patient>>
  BY DEF Restart, AllThreads
<1>3. /\ \A p \in Runs, j \in Kinds : at'[<<j, p>>] = 0
      /\ \A s \in Sessions : at'[<<"create", s>>] = 0
  BY <1>2, ThreadOfRun, ThreadOfSession
<1>4. OrderKept
  <2> SUFFICES ASSUME NEW t \in AllThreads, NEW u \in AllThreads, Ahead(t, u), at'[t] = at[t]
               PROVE FALSE
    BY DEF OrderKept
  <2>1. at[t] = 0 BY <1>2
  <2>2. ~AtStore(t, at[t]) BY <2>1 DEF AtStore
  <2> QED BY <1>1, <2>2 DEF Ahead, InOrder
<1> QED BY <1>2, <1>3, <1>4 DEF Fails

\* failRun of r begins, of the threads now under way and in the queue q.
LEMMA FailRunIs ==
    ASSUME SessionInv, NEW r \in Runs, NEW now \in [AllThreads -> 0 .. 5], NEW q,
           FailRun(r, now, q)
    PROVE  /\ \A p \in Runs, j \in Kinds : j # "fail" => at'[<<j, p>>] = now[<<j, p>>]
           /\ \A s \in Sessions : at'[<<"create", s>>] = now[<<"create", s>>]
           /\ \A u \in AllThreads : now[u] = 0 => at'[u] \in {0, 1}
           /\ active' \subseteq active /\ cancelled \subseteq cancelled'
           /\ \E t \in AllThreads : queue' = Append(q, t)
<1>1. PICK t \in AllThreads : t = <<"fail", r>> BY ThreadOfRun DEF Kinds
<1>2. at' = [now EXCEPT ![t] = 1] /\ queue' = Append(q, t) BY <1>1 DEF FailRun
<1>3. active' \subseteq active /\ cancelled \subseteq cancelled' BY DEF FailRun
<1>4. ASSUME NEW p \in Runs, NEW j \in Kinds, j # "fail" PROVE at'[<<j, p>>] = now[<<j, p>>]
  <2>1. PICK u \in AllThreads : u = <<j, p>> BY ThreadOfRun
  <2>2. u # t BY <1>1, <1>4, <2>1
  <2> QED BY <1>2, <2>1, <2>2
<1>5. \A u \in AllThreads : now[u] = 0 => at'[u] \in {0, 1} BY <1>2
<1>6. ASSUME NEW s \in Sessions PROVE at'[<<"create", s>>] = now[<<"create", s>>]
  <2>1. PICK u \in AllThreads : u = <<"create", s>> BY ThreadOfSession
  <2>2. u # t BY <1>1, <2>1
  <2> QED BY <1>2, <2>1, <2>2
<1> QED BY <1>2, <1>3, <1>4, <1>5, <1>6

LEMMA PublicationFailsIs ==
    ASSUME SessionInv, NEW r \in Runs, PublicationFails(r) PROVE Fails
<1>1. TypeInv /\ InOrder(queue, at) BY DEF SessionInv
<1>2. at \in [AllThreads -> 0 .. 5] /\ queue \in Seq(AllThreads) BY <1>1 DEF TypeInv
<1>3. /\ FailRun(r, at, queue) /\ faults' = faults + 1
      /\ UNCHANGED <<home, store, copy, timer, events, known, patient>>
  BY DEF PublicationFails
<1>4. OrderKept
  <2>1. PICK t \in AllThreads : queue' = Append(queue, t) BY <1>2, <1>3, FailRunIs
  <2> QED BY <1>1, <1>2, <2>1, QueueKept
<1> QED BY <1>2, <1>3, <1>4, FailRunIs DEF Fails

LEMMA FaultIs ==
    ASSUME SessionInv, NEW t \in AllThreads, Fault(t) PROVE Fails
<1>1. TypeInv /\ InOrder(queue, at) BY DEF SessionInv
<1>2. at \in [AllThreads -> 0 .. 5] /\ queue \in Seq(AllThreads) BY <1>1 DEF TypeInv
<1>3. PICK left : left = IF Waits(t) THEN queue ELSE Tail(queue) OBVIOUS
<1>4. PICK now : now = Without(t) OBVIOUS
<1>5. /\ IF t[1] \in Tasks THEN FailRun(t[2], now, left)
         ELSE at' = now /\ queue' = left /\ UNCHANGED <<active, cancelled>>
      /\ faults' = faults + 1
      /\ UNCHANGED <<home, store, copy, timer, events, known, patient>>
      /\ ~Waits(t) => queue # <<>> /\ Head(queue) = t
  BY <1>3, <1>4 DEF Fault, Without
<1>6. now \in [AllThreads -> 0 .. 5] /\ now[t] = 0 /\ \A u \in AllThreads : now[u] \in {0, at[u]}
  BY <1>2, <1>4 DEF Without
<1>7. /\ \A p \in Runs, j \in Kinds : now[<<j, p>>] \in {0, at[<<j, p>>]}
      /\ \A s \in Sessions : now[<<"create", s>>] \in {0, at[<<"create", s>>]}
  BY <1>6, ThreadOfRun, ThreadOfSession
<1>8. /\ \A p \in Runs, j \in Kinds : j # "fail" => at'[<<j, p>>] = now[<<j, p>>]
      /\ \A s \in Sessions : at'[<<"create", s>>] = now[<<"create", s>>]
      /\ active' \subseteq active /\ cancelled \subseteq cancelled'
      /\ queue' = left \/ \E x \in AllThreads : queue' = Append(left, x)
  <2>1. CASE t[1] \in Tasks
    <3>1. t[2] \in Runs BY <2>1, ThreadKinds DEF Tasks
    <3> QED BY <1>5, <1>6, <2>1, <3>1, FailRunIs
  <2>2. CASE t[1] \notin Tasks BY <1>5, <2>2
  <2> QED BY <2>1, <2>2
<1>9. OrderKept
  <2>1. CASE Waits(t) BY <1>1, <1>2, <1>3, <1>8, <2>1, QueueKept
  <2>2. CASE ~Waits(t)
    <3>1. queue # <<>> /\ Head(queue) = t /\ left = Tail(queue) BY <1>3, <1>5, <2>2
    <3>2. left \in Seq(AllThreads) /\ AtStore(t, at[t]) BY <1>1, <1>2, <3>1, Taken
    <3>3. at'[t] # at[t]
      <4>1. PICK n \in 1 .. 5 : n = at[t] BY <1>2, <3>2 DEF AtStore
      <4>2. CASE t[1] \in Tasks
        <5>1. t \notin Creates /\ t = <<t[1], t[2]>> /\ t[1] \in Kinds /\ t[2] \in Runs
          BY <4>2, ThreadKinds DEF Tasks
        <5>2. t[1] # "fail" BY <4>2 DEF Tasks
        <5>3. at'[t] = now[t] BY <1>8, <5>1, <5>2
        <5> QED BY <1>6, <4>1, <5>3
      <4>3. CASE t[1] \notin Tasks
        <5>1. at'[t] = now[t] BY <1>5, <4>3
        <5> QED BY <1>6, <4>1, <5>1
      <4> QED BY <4>2, <4>3
    <3> QED BY <1>1, <1>2, <1>8, <3>1, <3>2, <3>3, QueueKept
  <2> QED BY <2>1, <2>2
<1> QED BY <1>5, <1>7, <1>8, <1>9 DEF Fails

LEMMA CreateIs ==
    ASSUME SessionInv, NEW s \in Sessions, CreateSession(s) PROVE CreateGoesOn(s)
<1>1. TypeInv BY DEF SessionInv
<1>2. /\ store[s].status = "missing" /\ at[<<"create", s>>] = 0 /\ s \notin known
      /\ Reach(<<"create", s>>, 1, queue)
      /\ UNCHANGED <<home, store, copy, timer, active, cancelled, patient, faults>>
  BY DEF CreateSession
<1> QED BY <1>1, <1>2, ReachCreates DEF CreateGoesOn, QueueBy

\* What the thread of kind k of run r may do in a step.
StepOf(k, r) == WorksFor(k, r) \/ Answered(k, r) \/ Finished(k, r) \/ Begun(k, r)

\* Every step is one of these, and keeps who waits in order.
LEMMA NextIs ==
    ASSUME SessionInv, [Next]_vars
    PROVE  /\ OrderKept
           /\ \/ UNCHANGED vars \/ Fails
              \/ \E s \in Sessions : CreateGoesOn(s)
              \/ \E k \in Kinds, r \in Runs : StepOf(k, r)
<1>1. \/ UNCHANGED vars \/ Fails
      \/ \E s \in Sessions : CreateGoesOn(s)
      \/ \E k \in Kinds, r \in Runs : StepOf(k, r)
  <2> DEFINE P == \/ UNCHANGED vars \/ Fails
                  \/ \E s \in Sessions : CreateGoesOn(s)
                  \/ \E k \in Kinds, r \in Runs : StepOf(k, r)
  <2>1. CASE Serve BY <2>1, ServeIs DEF StepOf
  <2>2. CASE Restart BY <2>2, RestartIs
  <2>3. ASSUME NEW s \in Sessions, CreateSession(s) PROVE P BY <2>3, CreateIs
  <2>4. ASSUME NEW r \in Runs, SendUserMessage(r) \/ CancelRun(r) \/ Fire(r) PROVE P
    <3>1. "send" \in Kinds /\ "cancel" \in Kinds BY DEF Kinds
    <3> QED BY <2>4, <3>1, BeginIs DEF StepOf
  <2>5. ASSUME NEW r \in Runs, PublicationFails(r) PROVE P BY <2>5, PublicationFailsIs
  <2>6. ASSUME NEW t \in AllThreads, Answer(t) \/ Finish(t) PROVE P
    BY <2>6, AnswerIs, FinishIs DEF StepOf
  <2>7. ASSUME NEW t \in AllThreads, Fault(t) PROVE P BY <2>7, FaultIs
  <2> HIDE DEF P
  <2>8. P BY <2>1, <2>2, <2>3, <2>4, <2>5, <2>6, <2>7 DEF Next, AllThreads, P
  <2> QED BY <2>8 DEF P
<1>2. OrderKept
  <2>1. CASE UNCHANGED vars
    BY <2>1 DEF vars, OrderKept, Ahead
  <2>2. ASSUME NEW s \in Sessions, CreateGoesOn(s) PROVE OrderKept
    BY <2>2, ThreadOfSession, QueueByKept DEF CreateGoesOn
  <2>3. ASSUME NEW k \in Kinds, NEW r \in Runs, StepOf(k, r) PROVE OrderKept
    <3>1. QueueBy(<<k, r>>) BY <2>3 DEF StepOf, WorksFor, Answered, Finished, Begun, QueueBy
    <3> QED BY <3>1, ThreadOfRun, QueueByKept
  <2> QED BY <1>1, <2>1, <2>2, <2>3 DEF Fails
<1> QED BY <1>1, <1>2

-------------------------------------------------------------------------------
(* A run that is stored as running                                           *)

\* The call of r, its callbacks or its cancellation has still to come to its end.
Pending(r) ==
    /\ r \in active \/ at[<<"send", r>>] # 0 \/ at[<<"cancel", r>>] = 1
    /\ at[<<"done", r>>] \in {0, 1}

RunningInv ==
    faults = 0 => \A s \in Sessions : store[s].status = "running" =>
        store[s].run \in Runs /\ home[store[s].run] = s /\ Pending(store[s].run)

LEMMA RunningStep ==
    ASSUME SessionInv, faults \in Nat, RunningInv, [Next]_vars PROVE RunningInv'
<1>1. TypeInv /\ \A p \in Runs : RunInv(p) BY DEF SessionInv
<1>2. CASE UNCHANGED vars BY <1>2 DEF vars, RunningInv, Pending
<1>3. CASE Fails BY <1>3 DEF Fails, RunningInv
<1>4. ASSUME NEW s \in Sessions, CreateGoesOn(s) PROVE RunningInv'
  <2>1. "send" \in Kinds /\ "cancel" \in Kinds /\ "done" \in Kinds BY DEF Kinds, Tasks
  <2>2. \A p \in Runs : Pending(p) => Pending(p)' BY <1>4, <2>1 DEF CreateGoesOn, Pending
  <2>3. home' = home /\ faults' = faults BY <1>4 DEF CreateGoesOn
  <2>4. ASSUME NEW u \in Sessions PROVE store'[u] = store[u] \/ store'[u].status # "running"
    BY <1>1, <1>4 DEF CreateGoesOn, TypeInv, Session
  <2> QED BY <2>2, <2>3, <2>4 DEF RunningInv
<1>5. ASSUME NEW k \in Kinds, NEW r \in Runs, StepOf(k, r) PROVE RunningInv'
  <2>1. /\ home' = home /\ faults' = faults /\ home[r] \in Sessions
        /\ \A p \in Runs, j \in Kinds : p # r \/ j # k => at'[<<j, p>>] = at[<<j, p>>]
        /\ \A p \in Runs : p # r => (p \in active') = (p \in active)
    BY <1>1, <1>5 DEF StepOf, WorksFor, Answered, Finished, Begun, OnlyMoves, TypeInv
  <2>2. "send" \in Kinds /\ "cancel" \in Kinds /\ "done" \in Kinds BY DEF Kinds, Tasks
  <2>3. \A p \in Runs : p # r /\ Pending(p) => Pending(p)' BY <2>1, <2>2 DEF Pending
  <2>4. \A u \in Sessions : u # home[r] => store'[u] = store[u]
    BY <1>1, <1>5
    DEF StepOf, WorksFor, Gets, Upserts, Patches, Lists, Answered, Finished, Begun, TypeInv
  <2>5. \/ store'[home[r]].status # "running"
        \/ store'[home[r]].run = r /\ Pending(r)'
        \/ /\ store'[home[r]].status = store[home[r]].status
           /\ store'[home[r]].run = store[home[r]].run
           /\ Pending(r) => Pending(r)'
    <3>1. store[home[r]] \in Session BY <1>1, <2>1 DEF TypeInv
    <3>2. CASE k = "send" /\ Upserts(r) /\ WorksFor(k, r)
      <4>1. store'[home[r]].run = r
        BY <1>1, <2>1, <3>2 DEF Upserts, WithMessage, TypeInv
      <4>2. at'[<<"done", r>>] = 0
        <5>1. at[<<"done", r>>] = 0
          BY <1>1, <3>2 DEF Upserts, RunInv, Started, NotStarted, Tasks
        <5> QED BY <2>1, <2>2, <3>2, <5>1
      <4> QED BY <3>2, <4>1, <4>2 DEF Upserts, Pending
    <3>3. CASE Patches(k, r) /\ WorksFor(k, r)
      <4>1. store'[home[r]] = Patched(<<k, r>>, store[home[r]])
        BY <1>1, <2>1, <3>3 DEF Patches, TypeInv
      <4>2. CASE k \in {"step", "finish"}
        <5>1. /\ store'[home[r]].status = store[home[r]].status
              /\ store'[home[r]].run = store[home[r]].run
          BY <3>1, <4>1, <4>2 DEF Patched, Session
        <5>2. active' = active BY <3>3 DEF WorksFor
        <5>3. Pending(r) => Pending(r)' BY <2>1, <2>2, <4>2, <5>2 DEF Pending
        <5> QED BY <5>1, <5>3
      <4>3. CASE k \in {"done", "cancel", "fail"}
        <5>1. store'[home[r]].status \in {"completed", "cancelled", "failed"}
          BY <3>1, <4>1, <4>3 DEF Patched, EndOf, Session
        <5> QED BY <5>1
      <4> QED BY <3>3, <4>2, <4>3 DEF Patches
    <3>4. CASE WorksFor(k, r) /\ ((k = "send" /\ Gets(r)) \/ Lists(k, r))
      <4>1. store' = store /\ active' = active BY <3>4 DEF WorksFor, Gets, Lists
      <4>2. Pending(r) => Pending(r)'
        BY <2>1, <2>2, <3>4, <4>1 DEF Gets, Lists, Pending
      <4> QED BY <4>1, <4>2
    <3>5. CASE Answered(k, r)
      BY <2>1, <2>2, <3>5 DEF Answered, Pending
    <3>6. CASE Finished(k, r)
      BY <2>1, <2>2, <3>6 DEF Finished, Pending
    <3>7. CASE Begun(k, r)
      BY <2>1, <2>2, <3>7 DEF Begun, Pending
    <3> QED BY <1>5, <3>2, <3>3, <3>4, <3>5, <3>6, <3>7 DEF StepOf, WorksFor
  <2> QED BY <2>1, <2>3, <2>4, <2>5 DEF RunningInv
<1> QED BY <1>2, <1>3, <1>4, <1>5, NextIs

\* As long as nothing fails, a session is not left running: while the file says it
\* is, the call of its run, its callbacks or its cancellation goes on and will store
\* the end, in whichever order they reach the store.
THEOREM RunningGoesOn == Spec => []RunningIsActive
<1> DEFINE Inv == SessionInv /\ faults \in Nat /\ RunningInv
<1>1. Init => Inv
  <2>1. ASSUME Init PROVE faults \in Nat /\ RunningInv
    BY <2>1 DEF Init, NoSession, RunningInv
  <2> QED BY <2>1, SessionInvInit
<1>2. Inv /\ [Next]_vars => Inv' BY SessionInvStep, FaultsCounted, RunningStep
<1>3. Inv => RunningIsActive
  <2> SUFFICES ASSUME RunningInv, faults = 0, NEW s \in Sessions, store[s].status = "running"
               PROVE \/ store[s].run \in active
                     \/ \E k \in {"send", "cancel", "fail"} : at[<<k, store[s].run>>] # 0
    BY DEF RunningIsActive
  <2>1. PICK r : r = store[s].run /\ Pending(r) BY DEF RunningInv
  <2>2. r \in active \/ at[<<"send", r>>] # 0 \/ at[<<"cancel", r>>] # 0
    BY <2>1 DEF Pending
  <2> QED BY <2>1, <2>2
<1> QED BY <1>1, <1>2, <1>3, PTL DEF Spec

-------------------------------------------------------------------------------
(* A user who waits                                                          *)

\* Every run has had its part before the next one of its session is sent: its call
\* is over, nothing of it will begin but what has.
Settled(q) ==
    /\ copy[q] # NoSession /\ at[<<"send", q>>] = 0
    /\ timer[q] = 0 \/ Quiet(q)
    /\ q \notin active \/ IsOver(q)

\* What is to be stored of the end of q is, before the session is read for p.
EndsBefore(q, p) ==
    \A k \in {"done", "cancel"} : at[<<k, q>>] = 1 =>
        at[<<"send", p>>] = 1 /\ Ahead(<<k, q>>, <<"send", p>>)

\* The last callback tells the answer.
DoneInv == \A r \in Runs : Has(r, "ASSISTANT_DONE") => timer[r] = Chunks + 4

TurnsInv ==
    patient => \A q, p \in Runs :
        q < p /\ home[q] = home[p] /\ p \in Sent => Settled(q) /\ EndsBefore(q, p)

\* What was read for a message is what is stored until it is stored with it.
CopyInv ==
    patient => \A p \in Runs : at[<<"send", p>>] = 2 =>
        copy[p].messages = store[home[p]].messages

LEMMA HasMore ==
    ASSUME NEW r \in Runs, events[r] \in Seq(Names), NEW e \in Names,
           events'[r] = Append(events[r], e), NEW name
    PROVE  Has(r, name)' <=> Has(r, name) \/ name = e
<1> DEFINE old == events[r]
           new == Append(old, e)
<1>1. Len(old) \in Nat /\ Len(new) = Len(old) + 1 /\ new[Len(old) + 1] = e OBVIOUS
<1>2. DOMAIN old = 1 .. Len(old) /\ DOMAIN new = 1 .. Len(new) OBVIOUS
<1>3. \A i \in 1 .. Len(old) : new[i] = old[i] /\ i \in 1 .. Len(new) OBVIOUS
<1>4. \A i \in 1 .. Len(new) : i \in 1 .. Len(old) \/ i = Len(old) + 1 BY <1>1
<1>5. Len(old) + 1 \in 1 .. Len(new) BY <1>1
<1> HIDE DEF old, new
<1>6. (\E i \in DOMAIN new : new[i] = name) <=> (\E i \in DOMAIN old : old[i] = name) \/ name = e
  BY <1>1, <1>2, <1>3, <1>4, <1>5
<1> QED BY <1>6 DEF old, new, Has

\* What one thread publishes is heard after what was published.
LEMMA StepHears ==
    ASSUME SessionInv, NEW k \in Kinds, NEW r \in Runs, StepOf(k, r)
    PROVE  /\ \A p \in Runs : p # r => events'[p] = events[p]
           /\ \/ events'[r] = events[r]
              \/ /\ events'[r] = Append(events[r], Event[k]) /\ Event[k] \in Names
                 /\ k # "chunk" => at[<<k, r>>] # 0
<1>1. Event[k] \in Names BY DEF Kinds, Tasks, Event, Names
<1>2. CASE WorksFor(k, r)
  BY <1>1, <1>2 DEF WorksFor, Gets, Upserts, Patches, Lists, OnlyHears
<1>3. CASE Answered(k, r)
  <2>1. k = "send" => Event[k] = "RUN_STARTED" BY DEF Event
  <2> QED BY <1>1, <1>3, <2>1 DEF Answered, OnlyHears
<1>4. CASE Finished(k, r) BY <1>4 DEF Finished
<1>5. CASE Begun(k, r)
  <2>1. k = "chunk" => Event[k] = "ASSISTANT_DELTA" BY DEF Event
  <2> QED BY <1>1, <1>5, <2>1 DEF Begun, OnlyHears
<1> QED BY <1>2, <1>3, <1>4, <1>5 DEF StepOf

\* The other runs stay as they are.
LEMMA StepElse ==
    ASSUME SessionInv, NEW k \in Kinds, NEW r \in Runs, StepOf(k, r)
    PROVE  /\ home' = home /\ patient' = patient /\ faults' = faults /\ known' = known
           /\ OnlyMoves(k, r) /\ cancelled \subseteq cancelled'
           /\ \A q \in Runs : q # r =>
                 /\ copy'[q] = copy[q] /\ timer'[q] = timer[q]
                 /\ (q \in active') = (q \in active)
<1>1. TypeInv BY DEF SessionInv
<1>2. CASE WorksFor(k, r)
  <2>1. \A q \in Runs : q # r => copy'[q] = copy[q]
    BY <1>1, <1>2 DEF WorksFor, Gets, Upserts, Patches, Lists, TypeInv
  <2> QED BY <1>2, <2>1 DEF WorksFor
<1>3. CASE Answered(k, r) BY <1>3 DEF Answered
<1>4. CASE Finished(k, r) BY <1>1, <1>4 DEF Finished, TypeInv
<1>5. CASE Begun(k, r) BY <1>1, <1>5 DEF Begun, TypeInv
<1> QED BY <1>2, <1>3, <1>4, <1>5 DEF StepOf

LEMMA DoneStep ==
    ASSUME SessionInv, DoneInv, [Next]_vars PROVE DoneInv'
<1>1. TypeInv /\ \A p \in Runs : RunInv(p) BY DEF SessionInv
<1>2. CASE events' = events /\ timer' = timer BY <1>2 DEF DoneInv, Has
<1>3. ASSUME NEW k \in Kinds, NEW r \in Runs, StepOf(k, r) PROVE DoneInv'
  <2>1. events[r] \in Seq(Names) /\ timer[r] \in 0 .. Chunks + 4 BY <1>1 DEF TypeInv
  <2>2. \A p \in Runs : p # r => events'[p] = events[p] /\ timer'[p] = timer[p]
    <3>1. \A p \in Runs : p # r => timer'[p] = timer[p]
      BY <1>1, <1>3 DEF StepOf, WorksFor, Answered, Finished, Begun, TypeInv
    <3> QED BY <1>3, <3>1, StepHears
  <2>3. ASSUME Has(r, "ASSISTANT_DONE")' PROVE timer'[r] = Chunks + 4
    <3>1. Has(r, "ASSISTANT_DONE") \/ (k = "done" /\ at[<<k, r>>] # 0)
      <4>1. CASE events'[r] = events[r] BY <2>3, <4>1 DEF Has
      <4>2. CASE events'[r] # events[r]
        <5>1. /\ events'[r] = Append(events[r], Event[k]) /\ Event[k] \in Names
              /\ k # "chunk" => at[<<k, r>>] # 0
          BY <1>3, <4>2, StepHears
        <5>2. Has(r, "ASSISTANT_DONE") \/ Event[k] = "ASSISTANT_DONE"
          BY <2>1, <2>3, <5>1, HasMore
        <5>3. Event[k] = "ASSISTANT_DONE" => k = "done" BY DEF Event, Kinds, Tasks
        <5> QED BY <5>1, <5>2, <5>3
      <4> QED BY <4>1, <4>2
    <3>2. timer[r] = Chunks + 4
      <4>1. CASE Has(r, "ASSISTANT_DONE") BY <4>1 DEF DoneInv
      <4>2. CASE k = "done" /\ at[<<k, r>>] # 0
        <5>1. timer[r] > Chunks + 3 BY <1>1, <4>2 DEF RunInv, CallbackInv
        <5> QED BY <2>1, <5>1, SessionRuntimeAssumption
      <4> QED BY <3>1, <4>1, <4>2
    <3>3. timer'[r] = timer[r]
      <4>1. timer[r] # 0 /\ timer[r] \notin 1 .. Chunks + 3
        BY <3>2, SessionRuntimeAssumption
      <4>2. at[<<"send", r>>] = 0 BY <1>1, <4>1 DEF RunInv, Started
      <4> QED BY <1>3, <4>1, <4>2 DEF StepOf, WorksFor, Answered, Finished, Begun
    <3> QED BY <3>2, <3>3
  <2> QED BY <2>2, <2>3 DEF DoneInv, Has
<1> QED BY <1>2, <1>3, NextIs DEF vars, Fails, CreateGoesOn

\* What has been heard stays heard.
LEMMA OverKept ==
    ASSUME SessionInv, NEW k \in Kinds, NEW r \in Runs, StepOf(k, r), NEW q \in Runs,
           IsOver(q)
    PROVE  IsOver(q)'
<1>1. PICK e \in DOMAIN StatusOf : Has(q, e) BY DEF IsOver
<1>2. Has(q, e)'
  <2>1. CASE events'[q] = events[q] BY <1>1, <2>1 DEF Has
  <2>2. CASE events'[q] # events[q]
    <3>1. events[r] \in Seq(Names) BY DEF SessionInv, TypeInv
    <3>2. q = r /\ events'[r] = Append(events[r], Event[k]) /\ Event[k] \in Names
      BY <2>2, StepHears
    <3> QED BY <1>1, <3>1, <3>2, HasMore
  <2> QED BY <2>1, <2>2
<1> QED BY <1>1, <1>2 DEF IsOver

\* A run that has had its part begins nothing more.
LEMMA SettledKept ==
    ASSUME SessionInv, patient, [Next]_vars, NEW q \in Runs, Settled(q)
    PROVE  /\ Settled(q)'
           /\ \A k \in {"done", "cancel"} : at'[<<k, q>>] = 1 => at[<<k, q>>] = 1
<1>1. TypeInv /\ \A p \in Runs : RunInv(p) BY DEF SessionInv
<1>2. /\ "send" \in Kinds /\ "done" \in Kinds /\ "cancel" \in Kinds
      /\ copy[q] # NoSession /\ at[<<"send", q>>] = 0
      /\ timer[q] = 0 \/ q \in cancelled \/ timer[q] = Chunks + 4
      /\ q \notin active \/ IsOver(q)
  BY DEF Kinds, Tasks, Settled, Quiet
<1>3. CASE UNCHANGED vars BY <1>3 DEF vars, Settled, Quiet, IsOver, Has
<1>4. CASE Fails
  <2>1. IsOver(q)' <=> IsOver(q) BY <1>4 DEF Fails, IsOver, Has
  <2> QED BY <1>2, <1>4, <2>1 DEF Fails, Settled, Quiet
<1>5. ASSUME NEW s \in Sessions, CreateGoesOn(s)
      PROVE Settled(q)' /\ \A k \in {"done", "cancel"} : at'[<<k, q>>] = 1 => at[<<k, q>>] = 1
  <2>1. IsOver(q)' <=> IsOver(q) BY <1>5 DEF CreateGoesOn, IsOver, Has
  <2> QED BY <1>2, <1>5, <2>1 DEF CreateGoesOn, Settled, Quiet
<1>6. ASSUME NEW k \in Kinds, NEW r \in Runs, StepOf(k, r)
      PROVE Settled(q)' /\ \A j \in {"done", "cancel"} : at'[<<j, q>>] = 1 => at[<<j, q>>] = 1
  <2>1. IsOver(q) => IsOver(q)' BY <1>6, OverKept
  <2>2. \A p \in Runs, j \in Kinds : p # r \/ j # k => at'[<<j, p>>] = at[<<j, p>>]
    BY <1>6 DEF StepOf, WorksFor, Answered, Finished, Begun, OnlyMoves
  <2>3. CASE q # r
    <3>1. /\ copy'[q] = copy[q] /\ timer'[q] = timer[q]
          /\ (q \in active') = (q \in active) /\ cancelled \subseteq cancelled'
      BY <1>6, <2>3, StepElse
    <3>2. \A j \in Kinds : at'[<<j, q>>] = at[<<j, q>>] BY <2>2, <2>3
    <3> QED BY <1>2, <2>1, <3>1, <3>2 DEF Settled, Quiet
  <2>4. CASE q = r
    <3>1. k # "send"
      <4> SUFFICES ASSUME k = "send" PROVE FALSE OBVIOUS
      <4>1. CASE Begun(k, r)
        <5>1. SendUserMessage(r) BY <4>1 DEF Begun, Tasks
        <5>2. copy[r] = NoSession BY <5>1 DEF SendUserMessage, Sent
        <5> QED BY <1>2, <2>4, <5>2
      <4>2. CASE WorksFor(k, r)
        BY <1>2, <2>4, <4>2 DEF WorksFor, Gets, Upserts, Patches, Lists
      <4>3. CASE Answered(k, r) BY <1>2, <2>4, <4>3 DEF Answered
      <4>4. CASE Finished(k, r) BY <1>2, <2>4, <4>4 DEF Finished
      <4> QED BY <1>6, <4>1, <4>2, <4>3, <4>4 DEF StepOf
    <3>2. CASE Begun(k, r)
      <4>1. k \notin Tasks BY <1>2, <2>4, <3>2, SessionRuntimeAssumption DEF Begun, Tasks
      <4>2. CancelRun(r) BY <3>1, <3>2, <4>1 DEF Begun
      <4>3. r \in active /\ ~IsOver(r) BY <4>2 DEF CancelRun
      <4> QED BY <1>2, <2>4, <4>3
    <3>3. CASE ~Begun(k, r)
      <4>1. /\ copy' = copy /\ timer' = timer /\ active' \subseteq active
            /\ cancelled' = cancelled /\ at'[<<k, r>>] # 1
        <5>1. CASE WorksFor(k, r) BY <3>1, <5>1 DEF WorksFor, Patches, Lists
        <5>2. CASE Answered(k, r) BY <3>1, <5>2 DEF Answered
        <5>3. CASE Finished(k, r) BY <3>1, <5>3 DEF Finished
        <5> QED BY <1>6, <3>3, <5>1, <5>2, <5>3 DEF StepOf
      <4> QED BY <1>2, <2>1, <2>2, <2>4, <3>1, <4>1 DEF Settled, Quiet
    <3> QED BY <3>2, <3>3
  <2> QED BY <2>3, <2>4
<1> QED BY <1>3, <1>4, <1>5, <1>6, NextIs

\* Whose message is sent first is sent in this step.
LEMMA SentGrows ==
    ASSUME SessionInv, [Next]_vars, NEW p \in Runs, p \in Sent'
    PROVE  p \in Sent \/ Begun("send", p)
<1>1. copy'[p] # NoSession \/ at'[<<"send", p>>] # 0 BY DEF Sent
<1>2. "send" \in Kinds BY DEF Kinds
<1> SUFFICES ASSUME copy[p] = NoSession, at[<<"send", p>>] = 0 PROVE Begun("send", p)
  BY DEF Sent
<1>3. ASSUME copy' = copy, at'[<<"send", p>>] \in {0, at[<<"send", p>>]} PROVE FALSE
  BY <1>1, <1>3
<1>4. ASSUME NEW k \in Kinds, NEW r \in Runs, StepOf(k, r) PROVE Begun("send", p)
  <2>1. OnlyMoves(k, r) /\ (p # r => copy'[p] = copy[p]) BY <1>4, StepElse
  <2>2. p = r /\ (k # "send" => copy'[p] # NoSession) BY <1>1, <1>2, <2>1 DEF OnlyMoves
  <2>3. CASE WorksFor(k, r)
    BY <2>2, <2>3 DEF WorksFor, Gets, Upserts, Patches, Lists
  <2>4. CASE Answered(k, r) BY <2>2, <2>4 DEF Answered
  <2>5. CASE Finished(k, r) BY <2>2, <2>5 DEF Finished
  <2>6. CASE Begun(k, r)
    <3>1. k = "send" BY <2>2, <2>6 DEF Begun
    <3> QED BY <2>2, <2>6, <3>1
  <2> QED BY <1>4, <2>3, <2>4, <2>5, <2>6 DEF StepOf
<1> QED BY <1>2, <1>3, <1>4, NextIs DEF vars, Fails, CreateGoesOn

\* A run of the session the user sends the next message to has had its part.
LEMMA SettledBefore ==
    ASSUME SessionInv, DoneInv, patient, NEW p \in Runs, SendUserMessage(p),
           NEW q \in Runs, q < p, home[q] = home[p]
    PROVE  Settled(q)
<1>1. TypeInv /\ RunInv(q) BY DEF SessionInv
<1>2. q \in 1 .. p - 1 BY SessionRuntimeAssumption DEF Runs
<1>3. q \in Sent /\ (IsOver(q) \/ IsDead(q)) BY <1>2 DEF SendUserMessage
<1>4. CASE IsOver(q)
  <2>1. PICK e \in DOMAIN StatusOf : Has(q, e) BY <1>4 DEF IsOver
  <2>2. e \in {"ASSISTANT_DONE", "RUN_CANCELLED", "RUN_FAILED"} BY DEF StatusOf
  <2>3. PICK i \in 1 .. Len(events[q]) : events[q][i] = e BY <1>1, <2>1 DEF Has, TypeInv
  <2>4. timer[q] # 0 BY <1>1, <2>2, <2>3 DEF RunInv, NotStarted
  <2>5. Quiet(q)
    <3>1. CASE e = "ASSISTANT_DONE" BY <2>1, <3>1 DEF DoneInv, Quiet
    <3>2. CASE e # "ASSISTANT_DONE"
      <4>1. Ended(q) BY <2>2, <2>3, <3>2 DEF Ended, Ends
      <4> QED BY <1>1, <4>1 DEF RunInv, StopInv
    <3> QED BY <3>1, <3>2
  <2> QED BY <1>1, <1>4, <2>4, <2>5 DEF RunInv, Started, Settled
<1>5. CASE IsDead(q)
  <2>1. at[<<"send", q>>] = 0
    <3>1. <<"send", q>> \in Threads /\ <<"send", q>>[2] = q BY ThreadOfRun DEF Kinds
    <3> QED BY <1>5, <3>1 DEF IsDead
  <2>2. q \notin active BY <1>5 DEF IsDead
  <2>3. copy[q] # NoSession BY <1>3, <2>1 DEF Sent
  <2> QED BY <1>1, <2>1, <2>2, <2>3 DEF RunInv, Started, Settled
<1> QED BY <1>3, <1>4, <1>5

\* Nobody joins the queue before the one who is in it.
LEMMA AheadOfNew ==
    ASSUME SessionInv, NEW t \in AllThreads, NEW u \in AllThreads, AtStore(t, at[t]),
           queue' = Append(queue, u)
    PROVE  Ahead(t, u)'
<1>1. queue \in Seq(AllThreads) /\ InOrder(queue, at) BY DEF SessionInv, TypeInv
<1>2. PICK i \in 1 .. Len(queue) : queue[i] = t BY <1>1 DEF InOrder
<1>3. /\ Len(queue) \in Nat /\ Len(queue') = Len(queue) + 1 /\ queue'[Len(queue) + 1] = u
      /\ queue'[i] = queue[i]
  BY <1>1
<1>4. i < Len(queue) + 1 /\ i \in 1 .. Len(queue') /\ Len(queue) + 1 \in 1 .. Len(queue')
  BY <1>3
<1> QED BY <1>2, <1>3, <1>4 DEF Ahead

\* The session is not read for p before what is ahead of it is stored.
LEMMA StillBefore ==
    ASSUME SessionInv, patient, [Next]_vars, NEW q \in Runs, NEW p \in Runs, q < p,
           Settled(q), EndsBefore(q, p)
    PROVE  EndsBefore(q, p)'
<1> SUFFICES ASSUME NEW k \in {"done", "cancel"}, at'[<<k, q>>] = 1
             PROVE (at[<<"send", p>>] = 1 /\ Ahead(<<k, q>>, <<"send", p>>))'
  BY DEF EndsBefore
<1>1. PICK t \in AllThreads : t = <<k, q>> BY ThreadOfRun DEF Kinds, Tasks
<1>2. PICK u \in AllThreads : u = <<"send", p>> BY ThreadOfRun DEF Kinds
<1>3. at[t] = 1 BY <1>1, SettledKept
<1>4. at[u] = 1 /\ Ahead(t, u) BY <1>1, <1>2, <1>3 DEF EndsBefore
<1>5. Ahead(t, u)' BY <1>1, <1>3, <1>4, NextIs DEF OrderKept
<1>6. AtStore(u, at'[u])
  <2>1. InOrder(queue, at)' BY SessionInvStep DEF SessionInv
  <2> QED BY <1>5, <2>1 DEF Ahead, InOrder
<1>7. at'[u] # 0 BY <1>6 DEF AtStore
<1>8. at'[u] = 1
  <2>1. CASE at'[u] \in {0, at[u]} BY <1>4, <1>7, <2>1
  <2>2. ASSUME NEW j \in Kinds, NEW r \in Runs, StepOf(j, r), at'[u] # 1 PROVE FALSE
    <3>1. j = "send" /\ r = p
      <4>1. OnlyMoves(j, r) /\ "send" \in Kinds BY <2>2, StepElse DEF Kinds
      <4> QED BY <1>2, <1>4, <2>2, <4>1 DEF OnlyMoves
    <3>2. WorksFor(j, r)
      <4>1. at[<<j, r>>] = 1 BY <1>2, <1>4, <3>1
      <4>2. ~Answered(j, r) BY <3>1, <4>1 DEF Answered
      <4>3. ~Finished(j, r) BY <4>1 DEF Finished
      <4>4. ~Begun(j, r) BY <4>1 DEF Begun
      <4> QED BY <2>2, <4>2, <4>3, <4>4 DEF StepOf
    <3>3. queue # <<>> /\ Head(queue) = u BY <1>2, <3>1, <3>2 DEF WorksFor
    <3>4. queue \in Seq(AllThreads) /\ InOrder(queue, at) BY DEF SessionInv, TypeInv
    <3>5. queue[1] = u /\ 1 \in 1 .. Len(queue) BY <3>3, <3>4
    <3>6. PICK a \in 1 .. Len(queue), b \in 1 .. Len(queue) : a < b /\ queue[b] = u
      BY <1>4 DEF Ahead
    <3>7. b = 1 BY <3>4, <3>5, <3>6 DEF InOrder
    <3> QED BY <3>4, <3>6, <3>7
  <2>3. "send" \in Kinds BY DEF Kinds
  <2> QED BY <1>2, <2>1, <2>2, <2>3, NextIs DEF vars, Fails, CreateGoesOn
<1> QED BY <1>1, <1>2, <1>5, <1>8

LEMMA TurnsStep ==
    ASSUME SessionInv, DoneInv, TurnsInv, [Next]_vars PROVE TurnsInv'
<1>1. patient' = patient /\ home' = home
  BY StepElse, NextIs DEF vars, Fails, CreateGoesOn
<1> SUFFICES ASSUME patient, NEW q \in Runs, NEW p \in Runs, q < p, home[q] = home[p],
                    p \in Sent'
             PROVE  Settled(q)' /\ EndsBefore(q, p)'
  BY <1>1 DEF TurnsInv
<1>2. CASE p \in Sent
  <2>1. Settled(q) /\ EndsBefore(q, p) BY <1>2 DEF TurnsInv
  <2> QED BY <2>1, SettledKept, StillBefore
<1>3. CASE Begun("send", p)
  <2>1. SendUserMessage(p) BY <1>3 DEF Begun, Tasks
  <2>2. Settled(q) BY <2>1, SettledBefore
  <2>3. EndsBefore(q, p)'
    <3> SUFFICES ASSUME NEW k \in {"done", "cancel"}, at'[<<k, q>>] = 1
                 PROVE (at[<<"send", p>>] = 1 /\ Ahead(<<k, q>>, <<"send", p>>))'
      BY DEF EndsBefore
    <3>0. k \in Kinds BY DEF Kinds, Tasks
    <3>1. PICK t \in AllThreads : t = <<k, q>> /\ t[1] = k BY <3>0, ThreadOfRun
    <3>2. PICK u \in AllThreads : u = <<"send", p>> BY ThreadOfRun DEF Kinds
    <3>3. at[t] = 1 BY <2>2, <3>1, SettledKept
    <3>4. AtStore(t, at[t]) BY <3>1, <3>3, AwaitsEnd DEF AtStore, StoreOps
    <3>5. queue' = Append(queue, u) /\ at'[u] = 1 BY <1>3, <3>2 DEF Begun
    <3> QED BY <3>1, <3>2, <3>4, <3>5, AheadOfNew
  <2> QED BY <2>2, <2>3, SettledKept
<1> QED BY <1>2, <1>3, SentGrows

\* createSession leaves messages and runs alone.
LEMMA CreateKeeps ==
    ASSUME TypeInv, NEW s \in Sessions, CreateGoesOn(s), NEW u \in Sessions
    PROVE  /\ store'[u].messages = store[u].messages /\ store'[u].run = store[u].run
           /\ u # s \/ at[<<"create", s>>] # 1 => store'[u] = store[u]
           /\ store'[u] = store[u] \/ (u = s /\ store'[u].status = "idle")
<1>1. CASE store' = store BY <1>1
<1>2. CASE store' # store
  <2>1. PICK new : new = [store[s] EXCEPT !.status = "idle"] OBVIOUS
  <2>2. store' = [store EXCEPT ![s] = new] /\ at[<<"create", s>>] = 1
    BY <1>2, <2>1 DEF CreateGoesOn
  <2>3. store[s] \in Session BY DEF TypeInv
  <2>4. new.messages = store[s].messages /\ new.run = store[s].run /\ new.status = "idle"
    BY <2>1, <2>3 DEF Session
  <2> QED BY <2>2, <2>4 DEF TypeInv
<1> QED BY <1>1, <1>2

\* No message reaches the session between the reading and the storing of another.
LEMMA CopyStep ==
    ASSUME SessionInv, TurnsInv, CopyInv, [Next]_vars PROVE CopyInv'
<1>1. TypeInv /\ \A p \in Runs : RunInv(p) BY DEF SessionInv
<1>2. patient' = patient /\ home' = home
  BY StepElse, NextIs DEF vars, Fails, CreateGoesOn
<1> SUFFICES ASSUME patient, NEW p \in Runs, at'[<<"send", p>>] = 2
             PROVE  copy'[p].messages = store'[home[p]].messages
  BY <1>2 DEF CopyInv
<1>3. "send" \in Kinds /\ home[p] \in Sessions BY <1>1 DEF Kinds, TypeInv
<1>4. at[<<"send", p>>] = 2 => copy[p].messages = store[home[p]].messages BY DEF CopyInv
<1>5. CASE UNCHANGED vars BY <1>4, <1>5 DEF vars
<1>6. CASE Fails
  <2>1. at'[<<"send", p>>] \in {0, at[<<"send", p>>]} BY <1>3, <1>6 DEF Fails
  <2> QED BY <1>4, <1>6, <2>1 DEF Fails
<1>7. ASSUME NEW s \in Sessions, CreateGoesOn(s)
      PROVE copy'[p].messages = store'[home[p]].messages
  <2>1. at[<<"send", p>>] = 2 /\ copy' = copy BY <1>3, <1>7 DEF CreateGoesOn
  <2>2. store'[home[p]].messages = store[home[p]].messages
    BY <1>1, <1>3, <1>7, CreateKeeps
  <2> QED BY <1>4, <2>1, <2>2
<1>8. ASSUME NEW k \in Kinds, NEW r \in Runs, StepOf(k, r)
      PROVE copy'[p].messages = store'[home[p]].messages
  <2>1. OnlyMoves(k, r) /\ (p # r => copy'[p] = copy[p]) BY <1>8, StepElse
  <2>2. CASE store' = store
    <3>1. CASE p = r /\ k = "send"
      <4>1. Gets(r)
        <5>1. at'[<<k, r>>] = 2 BY <3>1
        <5>2. ~Answered(k, r) BY <3>1, <5>1 DEF Answered
        <5>3. ~Finished(k, r) BY <5>1 DEF Finished
        <5>4. ~Begun(k, r) BY <5>1 DEF Begun
        <5>5. WorksFor(k, r) BY <1>8, <5>2, <5>3, <5>4 DEF StepOf
        <5> QED BY <3>1, <5>1, <5>5 DEF WorksFor, Upserts, Patches, Lists
      <4> QED BY <1>1, <2>2, <3>1, <4>1 DEF Gets, TypeInv
    <3>2. CASE ~(p = r /\ k = "send")
      <4>1. at[<<"send", p>>] = 2 BY <1>3, <2>1, <3>2 DEF OnlyMoves
      <4>2. copy'[p] = copy[p]
        <5>1. p = r => copy' = copy
          BY <1>8, <3>2
          DEF StepOf, WorksFor, Patches, Lists, Answered, Finished, Begun
        <5> QED BY <2>1, <5>1
      <4> QED BY <1>4, <2>2, <4>1, <4>2
    <3> QED BY <3>1, <3>2
  <2>3. CASE store' # store
    <3>1. WorksFor(k, r) /\ copy' = copy /\ ((k = "send" /\ Upserts(r)) \/ Patches(k, r))
      BY <1>8, <2>3
      DEF StepOf, WorksFor, Gets, Upserts, Patches, Lists, Answered, Finished, Begun
    <3>2. at[<<"send", p>>] = 2 /\ p \in Sent
      <4>1. ~(p = r /\ k = "send") BY <3>1 DEF Upserts, Patches
      <4> QED BY <1>3, <2>1, <4>1 DEF OnlyMoves, Sent
    <3>3. home[r] = home[p] => k \in {"step", "finish", "cancel", "fail"}
      <4> SUFFICES ASSUME home[r] = home[p], k \in {"send", "done", "chunk"} PROVE FALSE
        BY DEF Kinds, Tasks
      <4>1. k # "chunk" /\ at[<<k, r>>] \in {1, 2} /\ at[<<k, r>>] # 0
        BY <3>1 DEF Upserts, Patches
      <4>2. r # p
        <5>1. CASE k = "send" BY <2>1, <3>1, <5>1 DEF Upserts, Patches
        <5>2. CASE k = "done"
          <6>1. timer[p] = 0 BY <1>1, <3>2 DEF RunInv, Started
          <6>2. at[<<"done", p>>] = 0 BY <1>1, <6>1 DEF RunInv, NotStarted, Tasks
          <6> QED BY <4>1, <5>2, <6>2
        <5> QED BY <4>1, <5>1, <5>2
      <4>3. r \in Sent
        <5>1. CASE k = "send" BY <4>1, <5>1 DEF Sent
        <5>2. CASE k = "done"
          <6>1. timer[r] # 0 BY <1>1, <4>1, <5>2 DEF RunInv, NotStarted, Tasks
          <6> QED BY <1>1, <6>1 DEF RunInv, Started, Sent
        <5> QED BY <4>1, <5>1, <5>2
      <4>4. CASE p < r BY <3>2, <4>3, <4>4 DEF TurnsInv, Settled
      <4>5. CASE r < p
        <5>1. Settled(r) /\ EndsBefore(r, p) BY <3>2, <4>5 DEF TurnsInv
        <5>2. k = "done" /\ at[<<k, r>>] = 1
          <6>1. k # "send" BY <4>1, <5>1 DEF Settled
          <6> QED BY <3>1, <4>1, <6>1 DEF Patches
        <5> QED BY <3>2, <5>1, <5>2 DEF EndsBefore
      <4> QED BY <4>2, <4>4, <4>5, SessionRuntimeAssumption DEF Runs
    <3>4. store'[home[p]].messages = store[home[p]].messages
      <4>1. CASE home[r] # home[p] BY <1>1, <1>3, <3>1, <4>1 DEF Upserts, Patches, TypeInv
      <4>2. CASE home[r] = home[p]
        <5>1. store'[home[p]] = Patched(<<k, r>>, store[home[p]]) /\ store[home[p]] \in Session
          BY <1>1, <1>3, <3>1, <3>3, <4>2 DEF Patches, TypeInv
        <5> QED BY <3>3, <4>2, <5>1 DEF Patched, Session
      <4> QED BY <4>1, <4>2
    <3> QED BY <1>4, <3>1, <3>2, <3>4
  <2> QED BY <2>2, <2>3
<1> QED BY <1>5, <1>6, <1>7, <1>8, NextIs

LEMMA PrefixOfItself ==
    ASSUME NEW S, NEW a \in Seq(S) PROVE IsPrefix(a, a)
<1>1. Len(a) \in Nat OBVIOUS
<1> QED BY <1>1 DEF IsPrefix

LEMMA PrefixOfLonger ==
    ASSUME NEW S, NEW a \in Seq(S), NEW e \in S PROVE IsPrefix(a, Append(a, e))
<1>1. Len(a) \in Nat /\ Len(Append(a, e)) = Len(a) + 1 OBVIOUS
<1>2. SubSeq(a, 1, Len(a)) = SubSeq(Append(a, e), 1, Len(a)) OBVIOUS
<1> QED BY <1>1, <1>2 DEF IsPrefix

\* What is written to a session continues what it holds.
LEMMA KeptStep ==
    ASSUME SessionInv, CopyInv, patient, [Next]_vars, NEW s \in Sessions
    PROVE  IsPrefix(store[s].messages, store'[s].messages)
<1>1. TypeInv BY DEF SessionInv
<1> DEFINE Messages == {"user", "assistant"} \X Runs
<1>2. store[s] \in Session /\ store[s].messages \in Seq(Messages) BY <1>1 DEF TypeInv, Session
<1>3. ASSUME store'[s].messages = store[s].messages
      PROVE IsPrefix(store[s].messages, store'[s].messages)
  BY <1>2, <1>3, PrefixOfItself
<1>4. ASSUME NEW e \in Messages, store'[s].messages = Append(store[s].messages, e)
      PROVE IsPrefix(store[s].messages, store'[s].messages)
  <2> HIDE DEF Messages
  <2>1. IsPrefix(store[s].messages, Append(store[s].messages, e)) BY <1>2, PrefixOfLonger
  <2> QED BY <1>4, <2>1
<1> HIDE DEF Messages
<1>5. ASSUME NEW u \in Sessions, CreateGoesOn(u)
      PROVE store'[s].messages = store[s].messages
  BY <1>1, <1>5, CreateKeeps
<1>6. ASSUME NEW k \in Kinds, NEW r \in Runs, StepOf(k, r)
      PROVE \/ store'[s].messages = store[s].messages
            \/ \E e \in Messages : store'[s].messages = Append(store[s].messages, e)
  <2>1. CASE store' = store BY <2>1
  <2>2. CASE store' # store
    <3>1. WorksFor(k, r) /\ ((k = "send" /\ Upserts(r)) \/ Patches(k, r))
      BY <1>6, <2>2 DEF StepOf, WorksFor, Gets, Lists, Answered, Finished, Begun
    <3>2. CASE home[r] # s BY <1>1, <3>1, <3>2 DEF Upserts, Patches, TypeInv
    <3>3. CASE home[r] = s /\ k = "send" /\ Upserts(r)
      <4>1. store'[s] = WithMessage(copy[r], r) BY <1>1, <3>3 DEF Upserts, TypeInv
      <4>2. store'[s].messages = Append(copy[r].messages, <<"user", r>>)
        BY <4>1 DEF WithMessage
      <4>3. copy[r].messages = store[s].messages BY <3>3 DEF Upserts, CopyInv
      <4>4. <<"user", r>> \in Messages BY DEF Messages
      <4> QED BY <4>2, <4>3, <4>4
    <3>4. CASE home[r] = s /\ Patches(k, r)
      <4>1. store'[s] = Patched(<<k, r>>, store[s]) /\ k \in {"step", "finish", "done", "cancel", "fail"}
        BY <1>1, <3>4 DEF Patches, TypeInv
      <4>2. CASE k = "done"
        <5>1. store'[s].messages = Append(store[s].messages, <<"assistant", r>>)
          BY <4>1, <4>2 DEF Patched
        <5>2. <<"assistant", r>> \in Messages BY DEF Messages
        <5> QED BY <5>1, <5>2
      <4>3. CASE k # "done"
        <5>1. store'[s].messages = store[s].messages
          BY <1>2, <4>1, <4>3 DEF Patched, Session
        <5> QED BY <5>1
      <4> QED BY <4>2, <4>3
    <3> QED BY <3>1, <3>2, <3>3, <3>4
  <2> QED BY <2>1, <2>2
<1>7. store'[s].messages = store[s].messages
      \/ \E e \in Messages : store'[s].messages = Append(store[s].messages, e)
  BY <1>5, <1>6, NextIs DEF vars, Fails
<1> QED BY <1>3, <1>4, <1>7

LEMMA TurnsInit ==
    ASSUME Init PROVE DoneInv /\ TurnsInv /\ CopyInv
<1>1. \A r \in Runs : events[r] = <<>> /\ copy[r] = NoSession /\ at[<<"send", r>>] = 0
  BY ThreadOfRun DEF Init, Kinds
<1>2. DoneInv
  <2>1. ASSUME NEW r \in Runs PROVE DOMAIN events[r] = 1 .. 0
    <3>1. events[r] = <<>> BY <1>1
    <3>2. Len(events[r]) = 0 BY <3>1
    <3> QED BY <3>1, <3>2
  <2> QED BY <2>1 DEF DoneInv, Has
<1>3. TurnsInv /\ CopyInv BY <1>1 DEF TurnsInv, Sent, CopyInv
<1> QED BY <1>2, <1>3

\* A message that is stored stays stored.  A user who sends the next message of a
\* session when the run before it is over, or dead, never has it stored in a session
\* read before the last answer came, whatever was on its way to the store, and
\* whatever fails.
THEOREM MessagesStay == Spec => MessagesAreKept
<1> DEFINE Inv == SessionInv /\ DoneInv /\ TurnsInv /\ CopyInv
           Kept == patient => \A s \in Sessions :
                      IsPrefix(store[s].messages, store[s].messages')
<1>1. Init => Inv BY SessionInvInit, TurnsInit
<1>2. Inv /\ [Next]_vars => Inv' BY SessionInvStep, DoneStep, TurnsStep, CopyStep
<1>3. Inv /\ [Next]_vars => [Kept]_store BY KeptStep
<1> HIDE DEF Inv
<1>4. Spec => [][Kept]_store BY <1>1, <1>2, <1>3, PTL DEF Spec
<1> QED BY <1>4 DEF MessagesAreKept

-------------------------------------------------------------------------------
(* What is stored of a run                                                   *)

\* A session is not there before it is created, and has no run before it is known.
HomeInv ==
    /\ \A r \in Runs : timer[r] # 0 => home[r] \in known
    /\ \A s \in Sessions :
          /\ at[<<"create", s>>] = 1 => store[s].status = "missing"
          /\ store[s].status = "missing" => store[s].run = 0

\* sendUserMessage has stored the session with r.
Upserted(r) == timer[r] # 0 \/ at[<<"send", r>>] > 2

\* The last run of a session is the last that was stored with it, and the session
\* tells its end.
LastInv ==
    faults = 0 =>
        /\ \A r \in Runs : at[<<"fail", r>>] = 0
        /\ \A s \in Sessions : store[s].run # 0 =>
              \E p \in Runs : p = store[s].run /\ home[p] = s /\ Upserted(p)
        /\ patient => \A r \in Runs : Upserted(r) => store[home[r]].run >= r
        /\ patient => \A s \in Sessions :
              store[s].run # 0 => Told(events[store[s].run], store[s].status)

LEMMA ToldOn ==
    ASSUME NEW published \in Seq(Names), NEW status, Told(published, status),
           NEW e \in Names \ DOMAIN StatusOf
    PROVE  Told(Append(published, e), status)
<1> DEFINE new == Append(published, e)
<1>1. Len(published) \in Nat /\ Len(new) = Len(published) + 1 OBVIOUS
<1>2. new[Len(published) + 1] = e OBVIOUS
<1>3. DOMAIN published = 1 .. Len(published) /\ DOMAIN new = 1 .. Len(new) OBVIOUS
<1>4. \A i \in 1 .. Len(published) : new[i] = published[i] /\ i \in 1 .. Len(new)
  OBVIOUS
<1>5. \A i \in 1 .. Len(new) : i \in 1 .. Len(published) \/ i = Len(published) + 1
  BY <1>1
<1> HIDE DEF new
<1>6. \A i \in DOMAIN new : i \in DOMAIN published \/ new[i] \notin DOMAIN StatusOf
  BY <1>2, <1>3, <1>5
<1>7. CASE status = "running" /\ \A i \in DOMAIN published : published[i] \notin DOMAIN StatusOf
  BY <1>3, <1>4, <1>6, <1>7 DEF Told, new
<1>8. CASE \E i \in DOMAIN published :
             /\ published[i] \in DOMAIN StatusOf /\ StatusOf[published[i]] = status
             /\ \A j \in DOMAIN published : j > i => published[j] \notin DOMAIN StatusOf
  <2>1. PICK i \in DOMAIN published :
             /\ published[i] \in DOMAIN StatusOf /\ StatusOf[published[i]] = status
             /\ \A j \in DOMAIN published : j > i => published[j] \notin DOMAIN StatusOf
    BY <1>8
  <2>2. i \in DOMAIN new /\ new[i] = published[i] BY <1>3, <1>4
  <2>3. \A j \in DOMAIN new : j > i => new[j] \notin DOMAIN StatusOf
    BY <1>3, <1>4, <1>6, <2>1
  <2>4. Told(new, status) BY <2>1, <2>2, <2>3 DEF Told
  <2> QED BY <2>4 DEF new
<1> QED BY <1>7, <1>8 DEF Told

LEMMA ToldNow ==
    ASSUME NEW published \in Seq(Names), NEW e \in DOMAIN StatusOf
    PROVE  Told(Append(published, e), StatusOf[e])
<1> DEFINE new == Append(published, e)
<1>1. Len(published) \in Nat /\ Len(new) = Len(published) + 1 OBVIOUS
<1>2. new[Len(published) + 1] = e OBVIOUS
<1>3. DOMAIN new = 1 .. Len(new) OBVIOUS
<1> HIDE DEF new
<1>4. Len(published) + 1 \in DOMAIN new BY <1>1, <1>3
<1>5. \A j \in DOMAIN new : ~(j > Len(published) + 1) BY <1>1, <1>3
<1>6. Told(new, StatusOf[e]) BY <1>2, <1>4, <1>5 DEF Told
<1> QED BY <1>6 DEF new

\* A thread of a run writes to its session only when the session is known.
LEMMA WritesKnown ==
    ASSUME SessionInv, HomeInv, NEW r \in Runs, NEW k \in Kinds,
           at[<<k, r>>] # 0
    PROVE  home[r] \in known /\ store[home[r]].status # "missing"
<1>1. RunInv(r) /\ KnownInv BY DEF SessionInv
<1>2. home[r] \in known
  <2>1. CASE k = "send" BY <1>1, <2>1 DEF RunInv, RequestInv
  <2>2. CASE k # "send"
    <3>1. timer[r] # 0 BY <1>1, <2>2 DEF RunInv, NotStarted, Kinds, Stops
    <3> QED BY <3>1 DEF HomeInv
  <2> QED BY <2>1, <2>2
<1> QED BY <1>1, <1>2 DEF KnownInv

\* What a step makes of the session of its run, and of the others.
LEMMA StepWrites ==
    ASSUME SessionInv, NEW k \in Kinds, NEW r \in Runs, StepOf(k, r)
    PROVE  /\ \A u \in Sessions : u # home[r] => store'[u] = store[u]
           /\ \/ store' = store
              \/ WorksFor(k, r) /\ k = "send" /\ Upserts(r)
              \/ WorksFor(k, r) /\ Patches(k, r)
<1>1. TypeInv BY DEF SessionInv
<1>2. CASE WorksFor(k, r)
  BY <1>1, <1>2 DEF WorksFor, Gets, Upserts, Patches, Lists, TypeInv
<1> QED BY <1>2 DEF StepOf, Answered, Finished, Begun

LEMMA HomeStep ==
    ASSUME SessionInv, HomeInv, [Next]_vars PROVE HomeInv'
<1>1. TypeInv /\ KnownInv /\ \A p \in Runs : RunInv(p) BY DEF SessionInv
<1>2. CASE UNCHANGED vars BY <1>2 DEF vars, HomeInv
<1>3. CASE Fails
  <2>1. store' = store /\ timer' = timer /\ home' = home /\ known' = known
    BY <1>3 DEF Fails
  <2>2. ASSUME NEW s \in Sessions
        PROVE at'[<<"create", s>>] \in {0, at[<<"create", s>>]}
    BY <1>3 DEF Fails
  <2> QED BY <2>1, <2>2 DEF HomeInv
<1>4. ASSUME NEW s \in Sessions, CreateGoesOn(s) PROVE HomeInv'
  <2>1. timer' = timer /\ home' = home /\ known \subseteq known'
    BY <1>4 DEF CreateGoesOn
  <2>2. ASSUME NEW u \in Sessions, at'[<<"create", u>>] = 1
        PROVE store'[u].status = "missing"
    <3>1. CASE u = s BY <1>4, <2>2, <3>1 DEF CreateGoesOn
    <3>2. CASE u # s
      <4>1. at[<<"create", u>>] = 1 BY <1>4, <2>2, <3>2 DEF CreateGoesOn
      <4> QED BY <1>1, <1>4, <3>2, <4>1, CreateKeeps DEF HomeInv
    <3> QED BY <3>1, <3>2
  <2>3. ASSUME NEW u \in Sessions, store'[u].status = "missing"
        PROVE store'[u].run = 0
    <3>1. store'[u] = store[u] BY <1>1, <1>4, <2>3, CreateKeeps
    <3> QED BY <2>3, <3>1 DEF HomeInv
  <2> QED BY <2>1, <2>2, <2>3 DEF HomeInv
<1>5. ASSUME NEW k \in Kinds, NEW r \in Runs, StepOf(k, r) PROVE HomeInv'
  <2>1. home' = home /\ known' = known /\ home[r] \in Sessions
    BY <1>1, <1>5, StepElse DEF TypeInv
  <2>2. ASSUME NEW p \in Runs, timer'[p] # 0 PROVE home[p] \in known
    <3>1. CASE timer[p] # 0 BY <3>1 DEF HomeInv
    <3>2. CASE timer[p] = 0
      <4>1. p = r BY <1>5, <2>2, <3>2, StepElse
      <4>2. Finished(k, r) /\ k = "send"
        BY <1>5, <2>2, <3>2, <4>1, SessionRuntimeAssumption
        DEF StepOf, WorksFor, Answered, Finished, Begun
      <4>3. at[<<k, r>>] # 0 BY <4>2 DEF Finished
      <4> QED BY <4>1, <4>3, WritesKnown
    <3> QED BY <3>1, <3>2
  <2>3. ASSUME NEW s \in Sessions PROVE at'[<<"create", s>>] = at[<<"create", s>>]
    BY <1>5, StepElse DEF OnlyMoves
  <2>4. /\ \A u \in Sessions : u # home[r] => store'[u] = store[u]
        /\ \/ store' = store
           \/ store[home[r]].status # "missing" /\ store'[home[r]].status # "missing"
    <3>1. CASE store' = store BY <3>1
    <3>2. CASE store' # store
      <4>1. /\ WorksFor(k, r) /\ at[<<k, r>>] # 0
            /\ (k = "send" /\ Upserts(r)) \/ Patches(k, r)
        BY <1>5, <3>2, StepWrites DEF Upserts, Patches
      <4>2. store[home[r]].status # "missing" BY <4>1, WritesKnown
      <4>3. store[home[r]] \in Session BY <1>1, <2>1 DEF TypeInv
      <4>4. CASE k = "send" /\ Upserts(r)
        BY <1>1, <2>1, <4>2, <4>4, <1>5, StepWrites DEF Upserts, WithMessage, TypeInv
      <4>5. CASE Patches(k, r)
        <5>1. store'[home[r]] = Patched(<<k, r>>, store[home[r]])
          BY <1>1, <2>1, <4>5 DEF Patches, TypeInv
        <5>2. k \in {"step", "finish", "done", "cancel", "fail"} BY <4>5 DEF Patches
        <5>3. store'[home[r]].status # "missing"
          BY <4>2, <4>3, <5>1, <5>2 DEF Patched, EndOf, Session
        <5> QED BY <1>5, <4>2, <5>3, StepWrites
      <4> QED BY <4>1, <4>4, <4>5
    <3> QED BY <3>1, <3>2
  <2> QED BY <2>1, <2>2, <2>3, <2>4 DEF HomeInv
<1> QED BY <1>2, <1>3, <1>4, <1>5, NextIs

\* A run that is stored with its message is sent.
LEMMA UpsertedIsSent ==
    ASSUME SessionInv, NEW r \in Runs, Upserted(r)
    PROVE  r \in Sent /\ ~(at[<<"send", r>>] \in {1, 2})
<1>1. RunInv(r) BY DEF SessionInv
<1>2. CASE timer[r] # 0 BY <1>1, <1>2 DEF RunInv, Started, Sent
<1>3. CASE at[<<"send", r>>] > 2
  <2>1. PICK t \in AllThreads : t = <<"send", r>> BY ThreadOfRun DEF Kinds
  <2>2. PICK n \in 0 .. 5 : n = at[t] BY <2>1 DEF SessionInv, TypeInv
  <2>3. n > 2 BY <1>3, <2>1, <2>2
  <2> QED BY <2>1, <2>2, <2>3 DEF Sent
<1> QED BY <1>2, <1>3 DEF Upserted

LEMMA UpsertedKept ==
    ASSUME SessionInv, NEW k \in Kinds, NEW r \in Runs, StepOf(k, r), NEW p \in Runs
    PROVE  Upserted(p)' <=> Upserted(p) \/ (p = r /\ k = "send" /\ Upserts(r))
<1>1. TypeInv BY DEF SessionInv
<1>2. OnlyMoves(k, r) /\ (p # r => timer'[p] = timer[p]) BY StepElse
<1>3. "send" \in Kinds BY DEF Kinds
<1>4. CASE p # r \/ k # "send"
  <2>1. at'[<<"send", p>>] = at[<<"send", p>>] BY <1>2, <1>3, <1>4 DEF OnlyMoves
  <2>2. timer'[p] # 0 <=> timer[p] # 0
    <3>1. CASE p # r BY <1>2, <3>1
    <3>2. CASE p = r /\ k # "send"
      <4>1. CASE timer' = timer BY <4>1
      <4>2. CASE timer' # timer
        <5>1. timer[r] \in 1 .. Chunks + 3 /\ timer' = [timer EXCEPT ![r] = @ + 1]
          BY <3>2, <4>2 DEF StepOf, WorksFor, Answered, Finished, Begun
        <5>2. timer'[r] = timer[r] + 1 BY <1>1, <5>1 DEF TypeInv
        <5> QED BY <3>2, <5>1, <5>2, SessionRuntimeAssumption
      <4> QED BY <4>1, <4>2
    <3> QED BY <1>4, <3>1, <3>2
  <2> QED BY <1>4, <2>1, <2>2 DEF Upserted
<1>5. CASE p = r /\ k = "send"
  <2>1. CASE WorksFor(k, r)
    BY <1>5, <2>1 DEF WorksFor, Gets, Upserts, Patches, Lists, Upserted
  <2>2. CASE Answered(k, r) BY <1>5, <2>2 DEF Answered, Upserted, Upserts
  <2>3. CASE Finished(k, r)
    <3>1. at[<<k, r>>] = 5 /\ timer'[r] = 1 BY <1>1, <1>5, <2>3 DEF Finished, TypeInv
    <3> QED BY <1>5, <3>1 DEF Upserted
  <2>4. CASE Begun(k, r)
    <3>1. at[<<k, r>>] = 0 /\ at'[<<k, r>>] = 1 /\ timer' = timer
      BY <1>5, <2>4 DEF Begun, Tasks
    <3> QED BY <1>5, <3>1 DEF Upserted, Upserts
  <2> QED BY <2>1, <2>2, <2>3, <2>4 DEF StepOf
<1> QED BY <1>4, <1>5

\* A step leaves the last run of a session alone, or stores a new one.
LEMMA StepRuns ==
    ASSUME SessionInv, NEW k \in Kinds, NEW r \in Runs, StepOf(k, r), NEW u \in Sessions
    PROVE  \/ store'[u].run = store[u].run
           \/ /\ WorksFor(k, r) /\ k = "send" /\ Upserts(r) /\ u = home[r]
              /\ store'[u].run = r /\ store'[u].status = "running"
<1>1. TypeInv BY DEF SessionInv
<1>2. CASE u # home[r] \/ store' = store BY <1>2, StepWrites
<1>3. CASE u = home[r] /\ WorksFor(k, r) /\ k = "send" /\ Upserts(r)
  <2>1. store'[u] = WithMessage(copy[r], r) BY <1>1, <1>3 DEF Upserts, TypeInv
  <2> QED BY <1>3, <2>1 DEF WithMessage
<1>4. CASE u = home[r] /\ WorksFor(k, r) /\ Patches(k, r)
  <2>1. store'[u] = Patched(<<k, r>>, store[u]) /\ store[u] \in Session
    BY <1>1, <1>4 DEF Patches, TypeInv
  <2>2. k \in {"step", "finish", "done", "cancel", "fail"} BY <1>4 DEF Patches
  <2> QED BY <2>1, <2>2 DEF Patched, Session
<1> QED BY <1>2, <1>3, <1>4, StepWrites

\* Of two runs of a session the later one is not stored before the end of the first.
LEMMA LaterWaits ==
    ASSUME SessionInv, TurnsInv, patient, NEW r \in Runs, NEW p \in Runs, r < p,
           home[r] = home[p], Upserted(p)
    PROVE  at[<<"send", r>>] = 0 /\ at[<<"done", r>>] # 1 /\ at[<<"cancel", r>>] # 1
<1>1. p \in Sent /\ at[<<"send", p>>] # 1 BY UpsertedIsSent
<1>2. Settled(r) /\ EndsBefore(r, p) BY <1>1 DEF TurnsInv
<1> QED BY <1>1, <1>2 DEF Settled, EndsBefore

LEMMA OnlyWhenStarted ==
    ASSUME NEW r \in Runs, RunInv(r), NEW k \in Tasks \cup Stops, at[<<k, r>>] # 0
    PROVE  timer[r] # 0
BY DEF RunInv, NotStarted

\* The end of a run marks the session when it is the last one of it.
LEMMA LastTold ==
    ASSUME SessionInv, HomeInv, TurnsInv, faults = 0, patient, LastInv,
           NEW k \in Kinds, NEW r \in Runs, StepOf(k, r), NEW u \in Sessions,
           store'[u].run # 0
    PROVE  Told(events'[store'[u].run], store'[u].status)
<1>1. TypeInv /\ \A p \in Runs : RunInv(p) BY DEF SessionInv
<1>2. store[u] \in Session /\ events[r] \in Seq(Names) /\ home[r] \in Sessions
  BY <1>1 DEF TypeInv
<1>3. CASE /\ WorksFor(k, r) /\ k = "send" /\ Upserts(r) /\ u = home[r]
           /\ store'[u].run = r /\ store'[u].status = "running"
  <2>1. at[<<"send", r>>] = 2 /\ events'[r] = events[r] BY <1>3 DEF Upserts
  <2>2. NotStarted(r) BY <1>1, <2>1 DEF RunInv, Started
  <2>3. \A i \in DOMAIN events[r] : events[r][i] = "RUN_STARTED"
    BY <1>2, <2>2 DEF NotStarted
  <2>4. "RUN_STARTED" \notin DOMAIN StatusOf BY DEF StatusOf
  <2> QED BY <1>3, <2>1, <2>3, <2>4 DEF Told
<1>4. CASE store'[u].run = store[u].run
  <2>1. PICK p \in Runs : p = store[u].run /\ home[p] = u /\ Upserted(p)
    BY <1>4 DEF LastInv
  <2>2. /\ p = store[u].run /\ p = store'[u].run /\ home[p] = u /\ Upserted(p)
        /\ Told(events[p], store[u].status) /\ events[p] \in Seq(Names)
    BY <1>1, <1>4, <2>1 DEF LastInv, TypeInv
  <2>3. p = store'[u].run BY <1>4, <2>1
  <2>9. p # r => events'[p] = events[p] BY StepHears
  <2>4. CASE WorksFor(k, r) /\ Patches(k, r) /\ u = home[r]
    <3>1. /\ store'[u] = Patched(<<k, r>>, store[u])
          /\ events'[r] = Append(events[r], Event[k])
          /\ k \in {"step", "finish", "done", "cancel", "fail"} /\ at[<<k, r>>] = 1
      BY <1>1, <2>4 DEF Patches, TypeInv
    <3>2. CASE k \in {"step", "finish"}
      <4>1. store'[u].status = store[u].status BY <1>2, <3>1, <3>2 DEF Patched, Session
      <4>2. Event[k] \in Names \ DOMAIN StatusOf BY <3>2 DEF Event, Names, StatusOf
      <4>3. Told(events'[p], store[u].status)
        <5>1. CASE p = r BY <2>2, <3>1, <4>2, <5>1, ToldOn
        <5>2. CASE p # r BY <2>2, <2>9, <5>2
        <5> QED BY <5>1, <5>2
      <4> QED BY <2>3, <4>1, <4>3
    <3>3. CASE k \in {"done", "cancel"}
      <4>1. timer[r] # 0
        <5>1. k \in Tasks \cup Stops BY <3>3 DEF Tasks, Stops
        <5>2. at[<<k, r>>] # 0 BY <3>1
        <5> QED BY <1>1, <5>1, <5>2, OnlyWhenStarted
      <4>2. p >= r
        <5>1. Upserted(r) BY <4>1 DEF Upserted
        <5>2. store[home[r]].run >= r BY <5>1 DEF LastInv
        <5> QED BY <2>2, <2>4, <5>2
      <4>3. ~(r < p) BY <2>2, <2>4, <3>1, <3>3, LaterWaits
      <4>4. p = r BY <4>2, <4>3, SessionRuntimeAssumption DEF Runs
      <4>5. Event[k] \in DOMAIN StatusOf /\ store'[u].status = StatusOf[Event[k]]
        BY <1>2, <3>1, <3>3 DEF Patched, EndOf, Event, StatusOf, Session
      <4>6. Told(Append(events[r], Event[k]), StatusOf[Event[k]]) BY <1>2, <4>5, ToldNow
      <4> QED BY <2>3, <3>1, <4>4, <4>5, <4>6
    <3>4. k # "fail" BY <3>1 DEF LastInv
    <3> QED BY <3>1, <3>2, <3>3, <3>4
  <2>5. CASE ~(WorksFor(k, r) /\ Patches(k, r) /\ u = home[r])
    <3>1. store'[u].status = store[u].status
      <4>1. CASE u # home[r] \/ store' = store BY <4>1, StepWrites
      <4>2. CASE u = home[r] /\ WorksFor(k, r) /\ k = "send" /\ Upserts(r)
        <5>1. store'[u] = WithMessage(copy[r], r) BY <1>1, <4>2 DEF Upserts, TypeInv
        <5>2. p = r BY <2>3, <5>1 DEF WithMessage
        <5>3. at[<<"send", r>>] = 2 BY <4>2 DEF Upserts
        <5> QED BY <2>2, <5>2, <5>3, UpsertedIsSent
      <4> QED BY <2>5, <4>1, <4>2, StepWrites
    <3>2. p = r => \/ events'[r] = events[r]
                   \/ \E e \in {"RUN_STARTED", "ASSISTANT_DELTA"} :
                         events'[r] = Append(events[r], e)
      <4> SUFFICES ASSUME p = r PROVE \/ events'[r] = events[r]
                   \/ \E e \in {"RUN_STARTED", "ASSISTANT_DELTA"} :
                         events'[r] = Append(events[r], e)
        OBVIOUS
      <4>1. CASE WorksFor(k, r)
        BY <2>2, <2>5, <4>1 DEF WorksFor, Gets, Upserts, Lists
      <4>2. CASE Answered(k, r) BY <4>2 DEF Answered
      <4>3. CASE Finished(k, r) BY <4>3 DEF Finished
      <4>4. CASE Begun(k, r) BY <4>4 DEF Begun
      <4> QED BY <4>1, <4>2, <4>3, <4>4 DEF StepOf
    <3>3. {"RUN_STARTED", "ASSISTANT_DELTA"} \subseteq Names \ DOMAIN StatusOf
      BY DEF Names, StatusOf
    <3>4. Told(events'[p], store[u].status)
      <4>1. CASE events'[p] = events[p] BY <2>2, <4>1
      <4>2. CASE events'[p] # events[p]
        <5>1. PICK e \in Names \ DOMAIN StatusOf : events'[p] = Append(events[p], e)
          BY <2>9, <3>2, <3>3, <4>2
        <5> QED BY <2>2, <5>1, ToldOn
      <4> QED BY <4>1, <4>2
    <3> QED BY <2>3, <3>1, <3>4
  <2> QED BY <2>4, <2>5
<1> QED BY <1>3, <1>4, StepRuns

LEMMA LastStep ==
    ASSUME SessionInv, HomeInv, TurnsInv, faults \in Nat, LastInv, [Next]_vars
    PROVE  LastInv'
<1>1. TypeInv /\ \A p \in Runs : RunInv(p) BY DEF SessionInv
<1> SUFFICES ASSUME faults' = 0 PROVE LastInv' BY DEF LastInv
<1>2. faults = 0 BY FaultsCounted
<1>3. CASE UNCHANGED vars BY <1>3 DEF vars, LastInv, Upserted, Told
<1>4. ~Fails BY <1>2 DEF Fails
<1>5. ASSUME NEW s \in Sessions, CreateGoesOn(s) PROVE LastInv'
  <2>1. /\ home' = home /\ timer' = timer /\ events' = events /\ patient' = patient
        /\ \A p \in Runs, j \in Kinds : at'[<<j, p>>] = at[<<j, p>>]
    BY <1>5 DEF CreateGoesOn
  <2>2. "send" \in Kinds /\ "fail" \in Kinds BY DEF Kinds
  <2>3. \A p \in Runs : Upserted(p)' <=> Upserted(p) BY <2>1, <2>2 DEF Upserted
  <2>4. ASSUME NEW u \in Sessions
        PROVE /\ store'[u].run = store[u].run
              /\ store[u].run # 0 => store'[u] = store[u]
    <3>1. store'[u].run = store[u].run BY <1>1, <1>5, CreateKeeps
    <3>2. CASE u = s /\ at[<<"create", s>>] = 1 BY <3>1, <3>2 DEF HomeInv
    <3>3. CASE ~(u = s /\ at[<<"create", s>>] = 1)
      BY <1>1, <1>5, <3>1, <3>3, CreateKeeps
    <3> QED BY <3>2, <3>3
  <2>5. \A p \in Runs : home[p] \in Sessions BY <1>1 DEF TypeInv
  <2>7. \A p \in Runs : at'[<<"fail", p>>] = 0 BY <1>2, <2>1, <2>2 DEF LastInv
  <2>8. ASSUME NEW u \in Sessions, store'[u].run # 0
        PROVE \E p \in Runs : p = store'[u].run /\ home'[p] = u /\ Upserted(p)'
    <3>1. PICK p \in Runs : p = store[u].run /\ home[p] = u /\ Upserted(p)
      BY <1>2, <2>4, <2>8 DEF LastInv
    <3> QED BY <2>1, <2>3, <2>4, <3>1
  <2>9. patient' => \A p \in Runs : Upserted(p)' => store'[home'[p]].run >= p
    BY <1>2, <2>1, <2>3, <2>4, <2>5 DEF LastInv
  <2>10. patient' => \A u \in Sessions : store'[u].run # 0 =>
            Told(events'[store'[u].run], store'[u].status)
    BY <1>2, <2>1, <2>4 DEF LastInv
  <2> QED BY <2>7, <2>8, <2>9, <2>10 DEF LastInv, Told
<1>6. ASSUME NEW k \in Kinds, NEW r \in Runs, StepOf(k, r) PROVE LastInv'
  <2>1. home' = home /\ patient' = patient /\ OnlyMoves(k, r) BY <1>6, StepElse
  <2>2. "send" \in Kinds /\ "fail" \in Kinds BY DEF Kinds
  <2>3. \A p \in Runs : at'[<<"fail", p>>] = 0
    <3>1. k # "fail"
      <4> SUFFICES ASSUME k = "fail" PROVE FALSE OBVIOUS
      <4>1. at[<<k, r>>] = 0 BY <1>2 DEF LastInv
      <4>2. ~WorksFor(k, r) BY <4>1 DEF WorksFor, Patches, Lists
      <4>3. ~Answered(k, r) /\ ~Finished(k, r) BY <4>1 DEF Answered, Finished
      <4>4. ~Begun(k, r) BY DEF Begun, Tasks
      <4> QED BY <1>6, <4>2, <4>3, <4>4 DEF StepOf
    <3> QED BY <1>2, <2>1, <2>2, <3>1 DEF LastInv, OnlyMoves
  <2>4. ASSUME NEW u \in Sessions, store'[u].run # 0
        PROVE \E p \in Runs : p = store'[u].run /\ home'[p] = u /\ Upserted(p)'
    <3>1. CASE store'[u].run = store[u].run
      <4>1. PICK p \in Runs : p = store[u].run /\ home[p] = u /\ Upserted(p)
        BY <1>2, <2>4, <3>1 DEF LastInv
      <4>2. Upserted(p)' BY <1>6, <4>1, UpsertedKept
      <4> QED BY <2>1, <3>1, <4>1, <4>2
    <3>2. CASE k = "send" /\ Upserts(r) /\ u = home[r] /\ store'[u].run = r
      <4>1. Upserted(r)' BY <1>6, <3>2, UpsertedKept
      <4> QED BY <2>1, <3>2, <4>1
    <3> QED BY <1>6, <3>1, <3>2, StepRuns
  <2>5. ASSUME patient, NEW p \in Runs, Upserted(p)' PROVE store'[home[p]].run >= p
    <3>1. home[p] \in Sessions BY <1>1 DEF TypeInv
    <3>2. CASE k = "send" /\ Upserts(r) /\ p = r
      <4>1. store'[home[r]].run = r
        BY <1>1, <3>1, <3>2 DEF Upserts, WithMessage, TypeInv
      <4> QED BY <3>2, <4>1, SessionRuntimeAssumption DEF Runs
    <3>3. CASE ~(k = "send" /\ Upserts(r) /\ p = r)
      <4>1. Upserted(p) BY <1>6, <2>5, <3>3, UpsertedKept
      <4>2. store[home[p]].run >= p BY <1>2, <2>5, <4>1 DEF LastInv
      <4>3. CASE store'[home[p]].run = store[home[p]].run BY <4>2, <4>3
      <4>4. CASE /\ k = "send" /\ Upserts(r) /\ home[p] = home[r]
                 /\ store'[home[p]].run = r
        <5>1. at[<<"send", r>>] # 0 BY <4>4 DEF Upserts
        <5>2. ~(r < p) BY <2>5, <4>1, <4>4, <5>1, LaterWaits
        <5> QED BY <4>4, <5>2, SessionRuntimeAssumption DEF Runs
      <4> QED BY <1>6, <3>1, <4>3, <4>4, StepRuns
    <3> QED BY <3>2, <3>3
  <2>6. patient' => \A p \in Runs : Upserted(p)' => store'[home'[p]].run >= p
    BY <2>1, <2>5
  <2>7. patient' => \A u \in Sessions : store'[u].run # 0 =>
            Told(events'[store'[u].run], store'[u].status)
    BY <1>2, <1>6, <2>1, LastTold
  <2> QED BY <2>3, <2>4, <2>6, <2>7 DEF LastInv, Told
<1> QED BY <1>3, <1>4, <1>5, <1>6, NextIs

\* What is stored of a run is what the window was told of it last: for a user who
\* waits and as long as nothing fails, the status of a session is the last end that
\* was published of its last run, also when the cancellation and the last callback
\* of it were under way at once.
THEOREM EndsAreStored == Spec => []EndsAgree
<1> DEFINE Inv == /\ SessionInv /\ faults \in Nat
                  /\ DoneInv /\ TurnsInv /\ HomeInv /\ LastInv
<1>1. Init => Inv
  <2>1. ASSUME Init PROVE faults \in Nat /\ DoneInv /\ TurnsInv /\ HomeInv /\ LastInv
    <3>1. faults \in Nat /\ DoneInv /\ TurnsInv BY <2>1, TurnsInit DEF Init
    <3>2. \A s \in Sessions : store[s].run = 0 BY <2>1 DEF Init, NoSession
    <3>3. \A s \in Sessions : at[<<"create", s>>] = 0
      BY <2>1, ThreadOfSession DEF Init, AllThreads
    <3>4. \A r \in Runs : at[<<"send", r>>] = 0 /\ at[<<"fail", r>>] = 0
      BY <2>1, ThreadOfRun DEF Init, Kinds, AllThreads
    <3>5. \A r \in Runs : timer[r] = 0 BY <2>1 DEF Init
    <3>6. HomeInv BY <3>2, <3>3, <3>5 DEF HomeInv
    <3>7. \A r \in Runs : ~Upserted(r)
      <4>1. ~(0 > 2) OBVIOUS
      <4> QED BY <3>4, <3>5, <4>1 DEF Upserted
    <3>8. LastInv BY <3>2, <3>4, <3>7 DEF LastInv
    <3> QED BY <3>1, <3>6, <3>8
  <2> QED BY <2>1, SessionInvInit
<1>2. Inv /\ [Next]_vars => Inv'
  BY SessionInvStep, FaultsCounted, DoneStep, TurnsStep, HomeStep, LastStep
<1>3. Inv => EndsAgree BY DEF LastInv, EndsAgree
<1> QED BY <1>1, <1>2, <1>3, PTL DEF Spec
===============================================================================
