------------------------------ MODULE McpTransport -----------------------------
(***************************************************************************)
(* The MCP tool client (mcpToolClient.ts): calls share one connection,     *)
(* SseSessionJsonRpcToolTransport, made by a client of the MCP SDK over    *)
(* LegacySseMcpSdkTransport, which opens a session with a GET, reads its   *)
(* event stream and posts each message to the endpoint of the session.     *)
(*                                                                         *)
(* The SDK and the server are modelled by what the code here sees of them. *)
(* A client numbers its requests from 0, waits for an answer with the same *)
(* number, and hands every message of the transport on to the clients that *)
(* were connected to it before.                                            *)
(***************************************************************************)
EXTENDS Naturals, FiniteSets

CONSTANTS
    Calls,        \* calls of tools, each made once
    MaxSessions,  \* bound: sessions, the last of which the server always refuses
    MaxFaults     \* bound: what the server, the network and the user do to a connection

ASSUME McpAssumption ==
    IsFiniteSet(Calls) /\ MaxSessions \in Nat \ {0} /\ MaxFaults \in Nat

\* A call makes at most one client.
Clients == 1 .. Cardinality(Calls)
Sessions == 1 .. MaxSessions

\* What an answer is taken for when it comes while there is no endpoint.
Text == MaxSessions + 1

Initialize(n) == <<"initialize", n>>
Initialized(n) == <<"initialized", n>>
Call(c) == <<"call", c>>
Requests == {Call(c) : c \in Calls} \cup {Initialize(n) : n \in Clients}
Messages == Requests \cup {Initialized(n) : n \in Clients}

VARIABLES
    closed,          \* the user has closed the connection
    sdkClient,       \* the client in use, 0 for none
    connectPromise,  \* the client that connects, 0 for none
    down,            \* closed of the transport: up, closing or closed
    startPromise,    \* the session start() has promised, 0 for none
    messageUrl,      \* endpoint (and serverSessionId), the session it is of
    sessionId,       \* the session the SDK was told of
    session,         \* what has become of each session
    gone,            \* sessions the server has forgotten
    phase,           \* what connectSdkClient of each client is at
    awaited,         \* the session a client or a message waits for
    next,            \* the next id of each client
    call,            \* what each call waits for, or how it ended
    via,             \* the client of each call
    pc,              \* what sendWithRetry of each message is at
    to,              \* where a message was posted
    retried,         \* messages sent again in a new session
    id,              \* the id of each request
    answered,        \* requests the server has answered
    faults           \* what MaxFaults bounds

wrapper == <<closed, sdkClient, connectPromise>>
transport == <<startPromise, messageUrl, sessionId, session>>
messages == <<pc, to, retried, id, answered>>
vars == <<wrapper, down, transport, gone, phase, awaited, next, call, via, messages,
          faults>>

\* What start() succeeds or fails with: the GET has failed, or the stream is over
\* before the endpoint.  In a "silent" session start() is never settled.
Unopened == {"failed", "broken"}
Settled == {"open", "ended"} \cup Unopened
Ended == {"ok", "wrong", "failed"}

Init ==
    /\ closed = FALSE /\ sdkClient = 0 /\ connectPromise = 0
    /\ down = "up" /\ startPromise = 0 /\ messageUrl = 0 /\ sessionId = 0
    /\ session = [k \in Sessions |-> "none"] /\ gone = {}
    /\ phase = [n \in Clients |-> "none"] /\ next = [n \in Clients |-> 0]
    /\ awaited = [m \in Messages |-> 0]
    /\ call = [c \in Calls |-> "idle"] /\ via = [c \in Calls |-> 0]
    /\ pc = [m \in Messages |-> "none"] /\ to = [m \in Messages |-> 0]
    /\ retried = {} /\ id = [m \in Requests |-> 0] /\ answered = {}
    /\ faults = 0

Fault == faults < MaxFaults /\ faults' = faults + 1

-------------------------------------------------------------------------------
(* What the handlers below have in common                                    *)

Pending(r) ==
    \/ \E c \in Calls : r = Call(c) /\ call[c] = "waiting"
    \/ \E n \in Clients : r = Initialize(n) /\ phase[n] = "initializing"

\* Mutant of Promised: start() opens a session each time.
PromisedAnew(promise) == FALSE
Promised(promise) == promise # 0

\* The next session to be opened.
New(k) ==
    /\ \A j \in 1 .. k - 1 : session[j] # "none"
    /\ session[k] = "none" \/ k = MaxSessions

\* start(): the messages in M wait for the session promised, or for a new one.
Start(M, promise) ==
    \E k \in Sessions :
        /\ IF Promised(promise)
           THEN k = promise /\ UNCHANGED session
           ELSE New(k) /\ session' = [session EXCEPT ![k] = "requested"]
        /\ startPromise' = k
        /\ awaited' = [m \in Messages |-> IF m \in M THEN k ELSE awaited[m]]

\* The connect of the clients in N fails: whatever client is in use is forgotten,
\* and the transport is closed.
ConnectFails(N) ==
    /\ phase' = [n \in Clients |-> IF n \in N THEN "failed" ELSE phase[n]]
    /\ IF N = {} THEN UNCHANGED <<sdkClient, connectPromise, down>>
       ELSE /\ sdkClient' = 0 /\ connectPromise' = 0
            /\ down' = IF down = "up" THEN "closing" ELSE down

\* A message could not be sent: that fails its call, or the connect it is part of.
SendFails(m) ==
    /\ pc' = [pc EXCEPT ![m] = "failed"]
    /\ call' = [c \in Calls |-> IF m = Call(c) /\ Pending(m) THEN "failed" ELSE call[c]]
    /\ ConnectFails({n \in Clients : \/ m = Initialize(n) /\ Pending(m)
                                     \/ m = Initialized(n) /\ phase[n] = "announcing"})

\* The answer to request m is handed to every client, and settles what waits there
\* for an answer with its id.  The answer to initialize makes a client tell the
\* server; any other is not what initialize waits for.
Deliver(m, sent) ==
    LET settles == {r \in Requests : Pending(r) /\ id[r] = id[m]}
        acked == {n \in Clients : Initialize(n) \in settles}
        told == {Initialized(n) : n \in acked}
    IN /\ call' = [c \in Calls |-> IF Call(c) \notin settles THEN call[c]
                                   ELSE IF m = Call(c) THEN "ok" ELSE "wrong"]
       /\ IF acked = {} \/ down # "up" \/ m \notin {Initialize(n) : n \in Clients}
          THEN /\ ConnectFails(acked)
               /\ pc' = sent
               /\ UNCHANGED <<startPromise, session, awaited, sessionId>>
          ELSE /\ phase' = [n \in Clients |-> IF n \in acked THEN "announcing" ELSE phase[n]]
               /\ sessionId' = messageUrl
               /\ pc' = [x \in Messages |-> IF x \in told THEN "starting" ELSE sent[x]]
               /\ Start(told, startPromise)
               /\ UNCHANGED <<sdkClient, connectPromise, down>>

-------------------------------------------------------------------------------
(* Calls and clients                                                         *)

\* Mutant of Shared: a call does not wait for the client that connects.
SharedOnceConnected == sdkClient
\* The client a new call uses, 0 if it has to make one.
Shared == IF sdkClient # 0 THEN sdkClient ELSE connectPromise

\* A call is made: it uses the client there is, or makes one, which connects.
Send(c) ==
    /\ call[c] = "idle"
    /\ IF closed \/ (Shared = 0 /\ down # "up")
       THEN /\ call' = [call EXCEPT ![c] = "failed"]
            /\ UNCHANGED <<connectPromise, phase, via, awaited, startPromise, session>>
       ELSE /\ call' = [call EXCEPT ![c] = "connecting"]
            /\ IF Shared # 0
               THEN /\ via' = [via EXCEPT ![c] = Shared]
                    /\ UNCHANGED <<connectPromise, phase, awaited, startPromise, session>>
               ELSE \E n \in Clients :
                    /\ phase[n] = "none" /\ \A j \in 1 .. n - 1 : phase[j] # "none"
                    /\ via' = [via EXCEPT ![c] = n]
                    /\ connectPromise' = n
                    /\ phase' = [phase EXCEPT ![n] = "starting"]
                    /\ Start({Initialize(n)}, startPromise)
    /\ UNCHANGED <<closed, sdkClient, down, messageUrl, sessionId, gone, next, messages,
                   faults>>

\* The session a client waits for is open, or has failed: a client of a session
\* the SDK knows is connected, another initializes it.
Started(n) ==
    /\ phase[n] = "starting" /\ session[awaited[Initialize(n)]] \in Settled
    /\ CASE session[awaited[Initialize(n)]] \in Unopened ->
              /\ ConnectFails({n})
              /\ UNCHANGED <<startPromise, session, awaited, next, pc, id>>
         [] session[awaited[Initialize(n)]] \notin Unopened /\ sessionId # 0 ->
              /\ phase' = [phase EXCEPT ![n] = "connected"]
              /\ sdkClient' = n
              /\ UNCHANGED <<connectPromise, down, startPromise, session, awaited, next,
                             pc, id>>
         [] OTHER ->
              /\ id' = [id EXCEPT ![Initialize(n)] = next[n]]
              /\ next' = [next EXCEPT ![n] = @ + 1]
              /\ IF down # "up"
                 THEN ConnectFails({n}) /\ UNCHANGED <<startPromise, session, awaited,
                                                       pc>>
                 ELSE /\ phase' = [phase EXCEPT ![n] = "initializing"]
                      /\ pc' = [pc EXCEPT ![Initialize(n)] = "starting"]
                      /\ Start({Initialize(n)}, startPromise)
                      /\ UNCHANGED <<sdkClient, connectPromise, down>>
    /\ UNCHANGED <<closed, messageUrl, sessionId, gone, call, via, to, retried, answered,
                   faults>>

\* The client of a call is connected, or is not: its request is sent, or the call
\* fails.
Request(c) ==
    /\ call[c] = "connecting" /\ phase[via[c]] \in {"connected", "failed"}
    /\ IF phase[via[c]] = "failed" \/ down # "up"
       THEN /\ call' = [call EXCEPT ![c] = "failed"]
            /\ UNCHANGED <<startPromise, session, awaited, next, pc, id>>
       ELSE /\ call' = [call EXCEPT ![c] = "waiting"]
            /\ id' = [id EXCEPT ![Call(c)] = next[via[c]]]
            /\ next' = [next EXCEPT ![via[c]] = @ + 1]
            /\ pc' = [pc EXCEPT ![Call(c)] = "starting"]
            /\ Start({Call(c)}, startPromise)
    /\ UNCHANGED <<wrapper, down, messageUrl, sessionId, gone, phase, via, to, retried,
                   answered, faults>>

\* No answer for responseTimeoutMs: what is under way goes on, but the call has failed.
Timeout(c) ==
    /\ call[c] = "waiting"
    /\ call' = [call EXCEPT ![c] = "failed"]
    /\ UNCHANGED <<wrapper, down, transport, gone, phase, awaited, next, via, messages,
                   faults>>

\* The SDK gives up on initialize.
InitializeTimeout(n) ==
    /\ phase[n] = "initializing"
    /\ ConnectFails({n})
    /\ UNCHANGED <<closed, transport, gone, awaited, next, call, via, messages, faults>>

\* The user closes the connection.
Close ==
    /\ ~closed /\ Fault
    /\ closed' = TRUE /\ sdkClient' = 0 /\ connectPromise' = 0
    /\ down' = IF down = "up" THEN "closing" ELSE down
    /\ UNCHANGED <<transport, gone, phase, awaited, next, call, via, messages>>

\* The transport forgets the session it has.
ForgetSession == startPromise' = 0 /\ messageUrl' = 0 /\ sessionId' = 0

\* The server has answered that the session is closed, or has not: everything that
\* waits for an answer fails.
CloseDone ==
    /\ down = "closing" /\ down' = "closed"
    /\ ForgetSession
    /\ call' = [c \in Calls |-> IF call[c] = "waiting" THEN "failed" ELSE call[c]]
    /\ LET initializing == {n \in Clients : phase[n] = "initializing"} IN
          /\ phase' = [n \in Clients |-> IF n \in initializing THEN "failed" ELSE phase[n]]
          /\ IF initializing = {} THEN UNCHANGED <<sdkClient, connectPromise>>
             ELSE sdkClient' = 0 /\ connectPromise' = 0
    /\ UNCHANGED <<closed, session, gone, awaited, next, via, messages, faults>>

-------------------------------------------------------------------------------
(* sendWithRetry                                                             *)

\* The session is settled: the message is posted to the endpoint there is now.
Post(m) ==
    /\ pc[m] = "starting" /\ session[awaited[m]] \in Settled
    /\ IF session[awaited[m]] \in Unopened \/ messageUrl = 0
       THEN SendFails(m) /\ UNCHANGED to
       ELSE /\ pc' = [pc EXCEPT ![m] = "posting"]
            /\ to' = [to EXCEPT ![m] = messageUrl]
            /\ UNCHANGED <<call, phase, sdkClient, connectPromise, down>>
    /\ UNCHANGED <<closed, transport, gone, awaited, next, via, retried, id, answered,
                   faults>>

\* The server does not know the session of m.
Unknown(m) == to[m] = Text \/ (to[m] \in gone /\ m \notin answered)

\* 2xx: a request waits for its answer if that is not the body of the response, and
\* the note that a client has initialized connects it.
Accepted(m) ==
    /\ pc[m] = "posting" /\ ~Unknown(m)
    /\ LET sent == [pc EXCEPT ![m] = "sent"] IN
       \/ /\ m \in Requests \ answered
          /\ answered' = answered \cup {m}
          /\ Deliver(m, sent)
       \/ /\ pc' = sent
          /\ phase' = [n \in Clients |->
                          IF m = Initialized(n) /\ phase[n] = "announcing"
                          THEN "connected" ELSE phase[n]]
          /\ sdkClient' = IF phase' = phase THEN sdkClient ELSE m[2]
          /\ UNCHANGED <<connectPromise, down, call, startPromise, session, awaited,
                         sessionId, answered>>
    /\ UNCHANGED <<closed, messageUrl, gone, next, via, to, retried, id, faults>>

\* The server fails, or does not know the session of a message sent again.
Failed(m) ==
    /\ pc[m] = "posting"
    /\ IF Unknown(m) THEN m \in retried /\ UNCHANGED faults ELSE Fault
    /\ SendFails(m)
    /\ UNCHANGED <<closed, transport, gone, awaited, next, via, to, retried, id,
                   answered>>

\* Mutant of Reset: start() goes on with the session it promised before.
ResetKeeping(m) ==
    /\ pc[m] = "posting" /\ Unknown(m) /\ m \notin retried
    /\ retried' = retried \cup {m}
    /\ IF down # "up"
       THEN SendFails(m) /\ UNCHANGED <<startPromise, session, awaited>>
       ELSE /\ Start({m}, startPromise)
            /\ pc' = [pc EXCEPT ![m] = "starting"]
            /\ UNCHANGED <<call, phase, sdkClient, connectPromise, down>>
    /\ UNCHANGED <<closed, messageUrl, sessionId, gone, next, via, to, id, answered,
                   faults>>

\* 404 or 410: the session is given up, and the message is sent again, in a new one.
\* (The wait for the cancel of the stream is left out: the stream is locked by its
\* reader, so that cancel fails at once and the stream is read on.)
Reset(m) ==
    /\ pc[m] = "posting" /\ Unknown(m) /\ m \notin retried
    /\ messageUrl' = 0 /\ sessionId' = 0
    /\ retried' = retried \cup {m}
    /\ IF down # "up"
       THEN SendFails(m) /\ startPromise' = 0 /\ UNCHANGED <<session, awaited>>
       ELSE /\ Start({m}, 0)
            /\ pc' = [pc EXCEPT ![m] = "starting"]
            /\ UNCHANGED <<call, phase, sdkClient, connectPromise, down>>
    /\ UNCHANGED <<closed, gone, next, via, to, id, answered, faults>>

-------------------------------------------------------------------------------
(* Sessions and their streams                                                *)

\* The response to the GET: refused, or a stream, with the id of the session in a
\* header or not.
SessionResponses == {"failed", "waiting", "open"}

GetAnswered(k) ==
    /\ session[k] = "requested"
    /\ \E status \in SessionResponses :
          /\ k = MaxSessions => status = "failed"
          /\ IF k # MaxSessions /\ status = "failed" THEN Fault ELSE UNCHANGED faults
          /\ session' = [session EXCEPT ![k] = status]
          /\ messageUrl' = IF status = "open" THEN k ELSE messageUrl
          /\ startPromise' = IF status = "failed" THEN 0 ELSE startPromise
    /\ UNCHANGED <<wrapper, down, sessionId, gone, phase, awaited, next, call, via,
                   messages>>

\* The endpoint comes over the stream, and is ignored once the transport is closed.
Endpoint(k) ==
    /\ session[k] = "waiting" /\ down = "up"
    /\ session' = [session EXCEPT ![k] = "open"]
    /\ messageUrl' = k
    /\ UNCHANGED <<wrapper, down, startPromise, sessionId, gone, phase, awaited, next,
                   call, via, messages, faults>>

\* Mutant of StreamEnds: nobody is told that there will be no endpoint.
StreamEndsUnseen(k) ==
    /\ session[k] = "open" /\ Fault
    /\ session' = [session EXCEPT ![k] = "ended"]
    /\ UNCHANGED <<wrapper, down, startPromise, messageUrl, sessionId, gone, phase,
                   awaited, next, call, via, messages>>

\* The stream ends or breaks.  Before the endpoint that is what start() fails with;
\* after it, or if it breaks, the next call makes another client.  Once the transport
\* is closed nobody hears of a stream that breaks, start() neither.
StreamEnds(k) ==
    /\ session[k] \in {"waiting", "open"}
    /\ IF down = "up" THEN Fault ELSE UNCHANGED faults
    /\ \E breaks \in BOOLEAN :
          /\ session' = [session EXCEPT ![k] = IF @ = "open" THEN "ended"
                                               ELSE IF breaks /\ down # "up" THEN "silent"
                                               ELSE "broken"]
          /\ startPromise' = IF session'[k] = "broken" THEN 0 ELSE startPromise
          /\ IF down = "up" /\ (session[k] = "open" \/ breaks)
             THEN sdkClient' = 0 /\ connectPromise' = 0
             ELSE UNCHANGED <<sdkClient, connectPromise>>
    /\ UNCHANGED <<closed, down, messageUrl, sessionId, gone, phase, awaited, next, call,
                   via, messages>>

\* The answer to m comes over the stream of its session, which is read even after a
\* reset.  While there is no endpoint it is taken for one if it has no spaces.
Answer(m) ==
    /\ m \in Requests \ answered /\ to[m] \in Sessions
    /\ pc[m] = "sent" \/ (pc[m] = "posting" /\ to[m] \notin gone)
    /\ session[to[m]] = "open" /\ down = "up"
    /\ answered' = answered \cup {m}
    /\ \/ /\ messageUrl = 0 /\ messageUrl' = Text
          /\ UNCHANGED <<wrapper, down, startPromise, sessionId, session, phase, awaited,
                         call, pc>>
       \/ Deliver(m, pc) /\ UNCHANGED <<closed, messageUrl>>
    /\ UNCHANGED <<gone, next, via, to, retried, id, faults>>

\* The server forgets a session.
Forget(k) ==
    /\ session[k] \in {"open", "ended"} /\ k \notin gone /\ Fault
    /\ gone' = gone \cup {k}
    /\ UNCHANGED <<wrapper, down, transport, phase, awaited, next, call, via, messages>>

-------------------------------------------------------------------------------

PostReturns(m) == Accepted(m) \/ Failed(m) \/ Reset(m)

Next ==
    \/ \E c \in Calls : Send(c) \/ Request(c) \/ Timeout(c)
    \/ \E n \in Clients : Started(n) \/ InitializeTimeout(n)
    \/ \E m \in Messages : Post(m) \/ PostReturns(m) \/ Answer(m)
    \/ \E k \in Sessions : GetAnswered(k) \/ Endpoint(k) \/ StreamEnds(k) \/ Forget(k)
    \/ Close \/ CloseDone

Spec == Init /\ [][Next]_vars

\* The engine goes on with what has settled; timers fire; and fetch gives up on a
\* response, and on a stream, that does not come.  The server and the user need not
\* do anything.
SessionSettles(k) == session[k] = "waiting" /\ (Endpoint(k) \/ StreamEnds(k))

Fairness ==
    /\ \A c \in Calls : WF_vars(Request(c)) /\ WF_vars(Timeout(c))
    /\ \A n \in Clients : WF_vars(Started(n)) /\ WF_vars(InitializeTimeout(n))
    /\ \A m \in Messages : WF_vars(Post(m)) /\ WF_vars(PostReturns(m))
    /\ \A k \in Sessions : WF_vars(GetAnswered(k)) /\ WF_vars(SessionSettles(k))
    /\ WF_vars(CloseDone)

FairSpec == Spec /\ Fairness

-------------------------------------------------------------------------------
(* Properties                                                                *)

\* A call gets its own answer, and calls that are made while a client connects
\* share it, as long as no stream has ended, before or after its endpoint: the
\* clients made after that number their requests like the one that still waits.
AnswersMatch ==
    (\A k \in Sessions : session[k] \notin {"ended", "broken"})
        => \A c \in Calls : call[c] # "wrong"

\* One session serves all calls as long as the server knows it and its stream lasts.
SessionIsShared ==
    (retried = {} /\ \A k \in Sessions : session[k] \notin Unopened \cup {"ended"})
        => Cardinality({k \in Sessions : session[k] # "none"}) <= 1

\* A message is never sent again to the session that did not know it.
RetriedElsewhere ==
    [][\A m \in retried :
          pc[m] = "starting" /\ pc'[m] = "posting" /\ to[m] \in Sessions
              => to'[m] # to[m]]_vars

\* The client of a call waits for the endpoint of a session whose connection was closed
\* and whose stream broke after that: nothing settles start(), and no timer runs yet.
Stranded(c) ==
    /\ call[c] = "connecting" /\ down # "up"
    /\ \/ phase[via[c]] = "starting" /\ session[awaited[Initialize(via[c])]] = "silent"
       \/ /\ phase[via[c]] = "announcing" /\ pc[Initialized(via[c])] = "starting"
          /\ session[awaited[Initialized(via[c])]] = "silent"

\* Every call ends, whatever the server does not answer and however the connection
\* fails: there is always a time to come when no call is under way but those that a
\* close of the connection has stranded.
CallsEnd == []<>(\A c \in Calls : call[c] \in {"connecting", "waiting"} => Stranded(c))
===============================================================================
