-------------------------- MODULE McpTransport_proofs --------------------------
(***************************************************************************)
(* Proofs, for any number of calls, sessions and faults: that a message is *)
(* sent again elsewhere, that calls share one session as long as it lasts, *)
(* and that they get their own answers as long as no stream has ended.     *)
(***************************************************************************)
EXTENDS McpTransport, FiniteSetTheorems, TLAPS

\* What has been posted to a session that was opened; sessions are not opened twice.
Opened == {"open", "ended"}

SessionTypes ==
    /\ session \in [Sessions -> {"none", "requested", "waiting", "silent"} \cup Settled]
    /\ startPromise \in 0 .. MaxSessions
    /\ messageUrl \in 0 .. Text
    /\ to \in [Messages -> 0 .. Text]
    /\ pc \in [Messages -> {"none", "starting", "posting", "sent", "failed"}]
    /\ phase \in [Clients -> {"none", "starting", "initializing", "announcing",
                              "connected", "failed"}]
    /\ call \in [Calls -> {"idle", "connecting", "waiting"} \cup Ended]
    /\ retried \in SUBSET Messages

\* The endpoint, and what was posted, is of a session that was opened.
EndpointOpened ==
    /\ session[MaxSessions] \in {"none", "requested", "failed"}
    /\ messageUrl \in Sessions => session[messageUrl] \in Opened
    /\ \A m \in Messages :
          /\ to[m] \in Sessions => session[to[m]] \in Opened
          /\ pc[m] = "posting" => to[m] # 0

\* A message is posted after its turn has come.
Unposted ==
    /\ \A m \in retried : pc[m] # "none"
    /\ \A c \in Calls : call[c] \in {"idle", "connecting"} => pc[Call(c)] = "none"
    /\ \A n \in Clients :
          /\ phase[n] \in {"none", "starting"} => pc[Initialize(n)] = "none"
          /\ phase[n] \in {"none", "starting", "initializing"} => pc[Initialized(n)] = "none"

\* A message that is to be sent again no longer goes where it was.
Elsewhere ==
    \A m \in retried : pc[m] = "starting" /\ to[m] \in Sessions => messageUrl # to[m]

RetryInv == SessionTypes /\ EndpointOpened /\ Unposted /\ Elsewhere

\* What a step that posts a message again does.
Retries ==
    \A m \in retried :
        pc[m] = "starting" /\ pc'[m] = "posting" /\ to[m] \in Sessions => to'[m] # to[m]

-------------------------------------------------------------------------------
(* The helpers                                                               *)

LEMMA MessageKinds ==
    /\ \A c \in Calls : Call(c) \in Requests /\ Call(c) \in Messages
    /\ \A n \in Clients : Initialize(n) \in Requests /\ Initialize(n) \in Messages
    /\ \A n \in Clients : Initialized(n) \in Messages
    /\ \A c \in Calls, n \in Clients :
          Call(c) # Initialize(n) /\ Call(c) # Initialized(n)
    /\ \A n, k \in Clients : Initialize(n) # Initialized(k)
    /\ \A n, k \in Clients : n # k => Initialize(n) # Initialize(k)
    /\ \A n, k \in Clients : n # k => Initialized(n) # Initialized(k)
    /\ \A c, d \in Calls : c # d => Call(c) # Call(d)
BY DEF Messages, Requests, Call, Initialize, Initialized

LEMMA SessionNumbers ==
    /\ MaxSessions \in Sessions /\ Text \notin Sessions /\ 0 \notin Sessions
    /\ 0 .. Text = Sessions \cup {0, Text} /\ 0 .. MaxSessions = Sessions \cup {0}
BY McpAssumption DEF Sessions, Text

\* What becomes of sessions when one is opened, or goes on.
SessionsKept ==
    /\ session' \in [Sessions -> {"none", "requested", "waiting", "silent"} \cup Settled]
    /\ \A k \in Sessions : session[k] \in Opened => session'[k] \in Opened
    /\ session'[MaxSessions] \in {"none", "requested", "failed"}
    /\ startPromise' \in 0 .. MaxSessions

LEMMA StartKeeps ==
    ASSUME RetryInv, NEW M, NEW promise \in 0 .. MaxSessions, Start(M, promise)
    PROVE  SessionsKept
<1>1. PICK k \in Sessions :
         /\ startPromise' = k
         /\ \/ session' = session
            \/ /\ session[k] = "none" \/ k = MaxSessions
               /\ session' = [session EXCEPT ![k] = "requested"]
  BY DEF Start, New
<1> QED
  BY <1>1, SessionNumbers
  DEF RetryInv, SessionTypes, EndpointOpened, SessionsKept, Settled, Unopened, Opened

\* A step after which the calls and clients have gone on, but no message was posted.
GoesOn ==
    /\ call' \in [Calls -> {"idle", "connecting", "waiting"} \cup Ended]
    /\ phase' \in [Clients -> {"none", "starting", "initializing", "announcing",
                               "connected", "failed"}]
    /\ pc' \in [Messages -> {"none", "starting", "posting", "sent", "failed"}]
    /\ \A x \in Messages : pc'[x] = "posting" => pc[x] = "posting"
    /\ \A x \in retried : pc'[x] # "none" /\ (pc'[x] = "starting" => pc[x] = "starting")
    /\ \A c \in Calls : call'[c] \in {"idle", "connecting"} => pc'[Call(c)] = "none"
    /\ \A n \in Clients :
          /\ phase'[n] \in {"none", "starting"} => pc'[Initialize(n)] = "none"
          /\ phase'[n] \in {"none", "starting", "initializing"} => pc'[Initialized(n)] = "none"

LEMMA GoesOnKeeps ==
    ASSUME RetryInv, SessionsKept, GoesOn, UNCHANGED <<to, retried>>,
           messageUrl' \in {messageUrl, 0, Text}
    PROVE  RetryInv' /\ Retries
<1>1. SessionTypes'
  BY SessionNumbers DEF RetryInv, SessionTypes, SessionsKept, GoesOn
<1>2. EndpointOpened'
  BY SessionNumbers DEF RetryInv, SessionTypes, EndpointOpened, SessionsKept, GoesOn
<1>3. Unposted' BY DEF GoesOn, Unposted
<1>4. Elsewhere'
  BY SessionNumbers DEF RetryInv, SessionTypes, Elsewhere, GoesOn
<1>5. Retries BY DEF RetryInv, SessionTypes, GoesOn, Retries
<1> QED BY <1>1, <1>2, <1>3, <1>4, <1>5 DEF RetryInv

\* Nothing happens to sessions.
LEMMA SessionsSame ==
    ASSUME RetryInv, UNCHANGED <<session, startPromise>> PROVE SessionsKept
BY DEF RetryInv, SessionTypes, EndpointOpened, SessionsKept

LEMMA SendFailsGoesOn ==
    ASSUME RetryInv, NEW m \in Messages, pc[m] # "none", SendFails(m)
    PROVE  GoesOn
<1>1. /\ pc' = [pc EXCEPT ![m] = "failed"]
      /\ \A c \in Calls : call'[c] \in {call[c], "failed"}
      /\ DOMAIN call' = Calls /\ call' = [c \in Calls |-> call'[c]]
  BY DEF SendFails
<1>2. /\ phase' = [n \in Clients |-> phase'[n]]
      /\ \A n \in Clients : phase'[n] \in {phase[n], "failed"}
  BY DEF SendFails, ConnectFails
<1>3. call' \in [Calls -> {"idle", "connecting", "waiting"} \cup Ended]
  BY <1>1 DEF RetryInv, SessionTypes, Ended
<1>4. phase' \in [Clients -> {"none", "starting", "initializing", "announcing",
                              "connected", "failed"}]
  BY <1>2 DEF RetryInv, SessionTypes
<1> QED
  BY <1>1, <1>2, <1>3, <1>4, MessageKinds DEF RetryInv, SessionTypes, Unposted, GoesOn

LEMMA DeliverGoesOn ==
    ASSUME RetryInv, NEW m \in Messages, NEW sent, Deliver(m, sent),
           sent = pc \/ (sent = [pc EXCEPT ![m] = "sent"] /\ pc[m] = "posting")
    PROVE  /\ GoesOn
           /\ \/ UNCHANGED <<session, startPromise>>
              \/ \E M : Start(M, startPromise)
<1> DEFINE settles == {r \in Requests : Pending(r) /\ id[r] = id[m]}
           acked == {n \in Clients : Initialize(n) \in settles}
           told == {Initialized(n) : n \in acked}
<1>1. \A n \in acked : phase[n] = "initializing"
  BY DEF Pending, Call, Initialize
<1>2. /\ call' = [c \in Calls |-> IF Call(c) \notin settles THEN call[c]
                                  ELSE IF m = Call(c) THEN "ok" ELSE "wrong"]
      /\ \/ /\ ConnectFails(acked) /\ pc' = sent
            /\ UNCHANGED <<startPromise, session>>
         \/ /\ phase' = [n \in Clients |-> IF n \in acked THEN "announcing" ELSE phase[n]]
            /\ pc' = [x \in Messages |-> IF x \in told THEN "starting" ELSE sent[x]]
            /\ Start(told, startPromise)
  BY DEF Deliver
<1> HIDE DEF settles
<1>3. /\ call' \in [Calls -> {"idle", "connecting", "waiting"} \cup Ended]
      /\ \A c \in Calls : call'[c] \in {"idle", "connecting"} => call'[c] = call[c]
  BY <1>2 DEF RetryInv, SessionTypes, Ended
<1>4. CASE /\ ConnectFails(acked) /\ pc' = sent
           /\ UNCHANGED <<startPromise, session>>
  <2>1. /\ phase' = [n \in Clients |-> phase'[n]]
        /\ \A n \in Clients : phase'[n] \in {phase[n], "failed"}
    BY <1>4 DEF ConnectFails
  <2>2. phase' \in [Clients -> {"none", "starting", "initializing", "announcing",
                                "connected", "failed"}]
    BY <2>1 DEF RetryInv, SessionTypes
  <2>3. GoesOn
    BY ZenonT(30), <1>3, <1>4, <2>1, <2>2, MessageKinds DEF RetryInv, SessionTypes, Unposted, GoesOn
  <2> QED BY <1>4, <2>3
<1>5. CASE /\ phase' = [n \in Clients |-> IF n \in acked THEN "announcing" ELSE phase[n]]
           /\ pc' = [x \in Messages |-> IF x \in told THEN "starting" ELSE sent[x]]
           /\ Start(told, startPromise)
  <2>1. /\ phase' \in [Clients -> {"none", "starting", "initializing", "announcing",
                                   "connected", "failed"}]
        /\ \A n \in Clients : phase'[n] = IF n \in acked THEN "announcing" ELSE phase[n]
    BY <1>5 DEF RetryInv, SessionTypes
  <2>2. /\ pc' \in [Messages -> {"none", "starting", "posting", "sent", "failed"}]
        /\ \A x \in Messages : pc'[x] = IF x \in told THEN "starting" ELSE sent[x]
    BY <1>5 DEF RetryInv, SessionTypes
  <2>3. \A x \in told : pc[x] = "none" /\ x \in Messages
    BY <1>1, MessageKinds DEF RetryInv, Unposted
  <2>4. /\ \A c \in Calls : Call(c) \notin told
        /\ \A n \in Clients : Initialize(n) \notin told
        /\ \A n \in Clients : Initialized(n) \in told => n \in acked
    BY MessageKinds
  <2> HIDE DEF acked, told
  <2>5. \A x \in Messages : sent[x] # pc[x] => sent[x] = "sent" /\ pc[x] = "posting"
    BY DEF RetryInv, SessionTypes
  <2>6. /\ \A x \in Messages : pc'[x] = "posting" => pc[x] = "posting"
        /\ \A x \in retried : pc'[x] # "none" /\ (pc'[x] = "starting" => pc[x] = "starting")
    BY <2>2, <2>3, <2>5 DEF RetryInv, SessionTypes, Unposted
  <2>7. \A c \in Calls : call'[c] \in {"idle", "connecting"} => pc'[Call(c)] = "none"
    BY <1>3, <2>2, <2>4, <2>5, MessageKinds DEF RetryInv, Unposted
  <2>8. \A n \in Clients :
          /\ phase'[n] \in {"none", "starting"} => pc'[Initialize(n)] = "none"
          /\ phase'[n] \in {"none", "starting", "initializing"} => pc'[Initialized(n)] = "none"
    BY <2>1, <2>2, <2>4, <2>5, MessageKinds DEF RetryInv, Unposted
  <2>9. GoesOn BY <1>3, <2>1, <2>2, <2>6, <2>7, <2>8 DEF GoesOn
  <2> QED BY <1>5, <2>9
<1> QED BY <1>2, <1>4, <1>5

\* A step in which messages do not move, and no call or client returns to where it was.
LEMMA SamePlaces ==
    ASSUME RetryInv, UNCHANGED pc,
           call' \in [Calls -> {"idle", "connecting", "waiting"} \cup Ended],
           phase' \in [Clients -> {"none", "starting", "initializing", "announcing",
                                   "connected", "failed"}],
           \A c \in Calls : call'[c] = "idle" => call[c] = "idle",
           \A c \in Calls : call'[c] = "connecting" => call[c] \in {"idle", "connecting"},
           \A n \in Clients : phase'[n] = "none" => phase[n] = "none",
           \A n \in Clients : phase'[n] = "starting" => phase[n] \in {"none", "starting"},
           \A n \in Clients : phase'[n] = "initializing" => phase[n] = "initializing"
    PROVE  GoesOn
BY DEF RetryInv, SessionTypes, Unposted, GoesOn

-------------------------------------------------------------------------------
(* The steps                                                                 *)

LEMMA RetryInit == Init => RetryInv
<1> SUFFICES ASSUME Init PROVE RetryInv
  OBVIOUS
<1>1. SessionTypes BY SessionNumbers DEF Init, SessionTypes, Settled, Unopened, Ended
<1>2. EndpointOpened BY SessionNumbers DEF Init, EndpointOpened
<1>3. Unposted BY MessageKinds DEF Init, Unposted
<1>4. Elsewhere BY DEF Init, Elsewhere
<1> QED BY <1>1, <1>2, <1>3, <1>4 DEF RetryInv

LEMMA CallStep ==
    ASSUME RetryInv, NEW c \in Calls, Send(c) \/ Request(c) \/ Timeout(c)
    PROVE  RetryInv' /\ Retries
<1>1. UNCHANGED <<to, retried, messageUrl>>
  BY DEF Send, Request, Timeout, transport, messages
<1>2. SessionsKept
  <2>1. UNCHANGED <<session, startPromise>> \/ \E M : Start(M, startPromise)
    BY DEF Send, Request, Timeout, transport
  <2> QED BY <2>1, SessionsSame, StartKeeps DEF RetryInv, SessionTypes
<1>3. CASE Send(c)
  <2>1. /\ UNCHANGED pc
        /\ call' = [call EXCEPT ![c] = "failed"] \/ call' = [call EXCEPT ![c] = "connecting"]
        /\ call[c] = "idle"
        /\ \/ phase' = phase
           \/ \E n \in Clients : phase[n] = "none" /\ phase' = [phase EXCEPT ![n] = "starting"]
    BY <1>3 DEF Send, messages
  <2>2. GoesOn BY <2>1, SamePlaces DEF RetryInv, SessionTypes, Ended
  <2> QED BY <1>1, <1>2, <2>2, GoesOnKeeps
<1>4. CASE Request(c)
  <2>1. /\ call[c] = "connecting" /\ phase' = phase
        /\ \/ call' = [call EXCEPT ![c] = "failed"] /\ pc' = pc
           \/ /\ call' = [call EXCEPT ![c] = "waiting"]
              /\ pc' = [pc EXCEPT ![Call(c)] = "starting"]
    BY <1>4 DEF Request
  <2>2. pc[Call(c)] = "none" /\ Call(c) \notin retried
    BY <2>1, MessageKinds DEF RetryInv, Unposted
  <2>3. GoesOn
    BY <2>1, <2>2, MessageKinds DEF RetryInv, SessionTypes, Unposted, GoesOn, Ended
  <2> QED BY <1>1, <1>2, <2>3, GoesOnKeeps
<1>5. CASE Timeout(c)
  <2>1. UNCHANGED <<pc, phase>> /\ call' = [call EXCEPT ![c] = "failed"]
    BY <1>5 DEF Timeout, messages
  <2>2. GoesOn BY <2>1, SamePlaces DEF RetryInv, SessionTypes, Ended
  <2> QED BY <1>1, <1>2, <2>2, GoesOnKeeps
<1> QED BY <1>3, <1>4, <1>5

LEMMA ClientStep ==
    ASSUME RetryInv, NEW n \in Clients, Started(n) \/ InitializeTimeout(n)
    PROVE  RetryInv' /\ Retries
<1>1. UNCHANGED <<to, retried, messageUrl, call>>
  BY DEF Started, InitializeTimeout, transport, messages
<1>2. SessionsKept
  <2>1. UNCHANGED <<session, startPromise>> \/ \E M : Start(M, startPromise)
    BY DEF Started, InitializeTimeout, transport
  <2> QED BY <2>1, SessionsSame, StartKeeps DEF RetryInv, SessionTypes
<1>3. \/ /\ UNCHANGED pc
         /\ \E p \in {"failed", "connected"} : phase' = [phase EXCEPT ![n] = p]
      \/ /\ phase[n] = "starting" /\ phase' = [phase EXCEPT ![n] = "initializing"]
         /\ pc' = [pc EXCEPT ![Initialize(n)] = "starting"]
  <2>1. ASSUME ConnectFails({n}) PROVE phase' = [phase EXCEPT ![n] = "failed"]
    BY <2>1 DEF ConnectFails, RetryInv, SessionTypes
  <2> QED BY <2>1 DEF Started, InitializeTimeout, messages
<1>4. CASE /\ UNCHANGED pc
           /\ \E p \in {"failed", "connected"} : phase' = [phase EXCEPT ![n] = p]
  <2>1. GoesOn BY <1>1, <1>4, SamePlaces DEF RetryInv, SessionTypes
  <2> QED BY <1>1, <1>2, <2>1, GoesOnKeeps
<1>5. CASE /\ phase[n] = "starting" /\ phase' = [phase EXCEPT ![n] = "initializing"]
           /\ pc' = [pc EXCEPT ![Initialize(n)] = "starting"]
  <2>1. pc[Initialize(n)] = "none" /\ Initialize(n) \notin retried
    BY <1>5, MessageKinds DEF RetryInv, Unposted
  <2>2. GoesOn
    BY <1>1, <1>5, <2>1, MessageKinds DEF RetryInv, SessionTypes, Unposted, GoesOn
  <2> QED BY <1>1, <1>2, <2>2, GoesOnKeeps
<1> QED BY <1>3, <1>4, <1>5

\* The message is posted to the endpoint there is, which is not where it was.
LEMMA PostStep == ASSUME RetryInv, NEW m \in Messages, Post(m) PROVE RetryInv' /\ Retries
<1>1. UNCHANGED <<retried, messageUrl, session, startPromise>> /\ pc[m] = "starting"
  BY DEF Post, transport
<1>2. SessionsKept BY <1>1, SessionsSame
<1>3. CASE SendFails(m) /\ UNCHANGED to
  <2>1. GoesOn BY <1>1, <1>3, SendFailsGoesOn
  <2> QED BY <1>1, <1>2, <1>3, <2>1, GoesOnKeeps
<1>4. CASE /\ pc' = [pc EXCEPT ![m] = "posting"] /\ to' = [to EXCEPT ![m] = messageUrl]
           /\ messageUrl # 0 /\ UNCHANGED <<call, phase>>
  <2> USE DEF RetryInv, SessionTypes
  <2>1. SessionTypes' BY <1>1, <1>4
  <2>2. EndpointOpened' BY <1>1, <1>4 DEF EndpointOpened
  <2>3. Unposted' BY <1>1, <1>4, MessageKinds DEF Unposted
  <2>4. Elsewhere' BY <1>1, <1>4 DEF Elsewhere
  <2>5. Retries BY <1>1, <1>4 DEF Elsewhere, Retries
  <2> QED BY <2>1, <2>2, <2>3, <2>4, <2>5
<1> QED BY <1>3, <1>4 DEF Post

LEMMA AcceptedStep == ASSUME RetryInv, NEW m \in Messages, Accepted(m) PROVE RetryInv' /\ Retries
<1>1. UNCHANGED <<to, retried, messageUrl>> /\ pc[m] = "posting"
  BY DEF Accepted
<1> DEFINE sent == [pc EXCEPT ![m] = "sent"]
<1>2. CASE Deliver(m, sent)
  <2>1. GoesOn /\ (UNCHANGED <<session, startPromise>> \/ \E M : Start(M, startPromise))
    BY <1>1, <1>2, DeliverGoesOn
  <2>2. SessionsKept BY <2>1, SessionsSame, StartKeeps DEF RetryInv, SessionTypes
  <2> QED BY <1>1, <2>1, <2>2, GoesOnKeeps
<1>3. CASE /\ pc' = sent /\ UNCHANGED <<call, startPromise, session>>
           /\ phase' = [n \in Clients |->
                          IF m = Initialized(n) /\ phase[n] = "announcing"
                          THEN "connected" ELSE phase[n]]
  <2>1. SessionsKept BY <1>3, SessionsSame
  <2>2. GoesOn
    BY <1>1, <1>3, MessageKinds DEF RetryInv, SessionTypes, Unposted, GoesOn
  <2> QED BY <1>1, <2>1, <2>2, GoesOnKeeps
<1> QED BY <1>2, <1>3 DEF Accepted

LEMMA FailedStep == ASSUME RetryInv, NEW m \in Messages, Failed(m) PROVE RetryInv' /\ Retries
<1>1. /\ UNCHANGED <<to, retried, messageUrl, session, startPromise>>
      /\ pc[m] = "posting" /\ SendFails(m)
  BY DEF Failed, transport
<1> QED BY <1>1, SessionsSame, SendFailsGoesOn, GoesOnKeeps

\* The message that is sent again is the only one that goes back, and there is no
\* endpoint.
LEMMA ResetStep == ASSUME RetryInv, NEW m \in Messages, Reset(m) PROVE RetryInv' /\ Retries
<1>1. /\ pc[m] = "posting" /\ messageUrl' = 0 /\ to' = to
      /\ retried' = retried \cup {m}
  BY DEF Reset
<1>2. /\ SessionsKept
      /\ \/ UNCHANGED <<call, phase>> /\ pc' = [pc EXCEPT ![m] = "starting"]
         \/ GoesOn /\ pc' = [pc EXCEPT ![m] = "failed"]
  <2>1. CASE down # "up"
    <3>1. SendFails(m) /\ startPromise' = 0 /\ session' = session
      BY <2>1 DEF Reset
    <3>2. GoesOn BY <1>1, <3>1, SendFailsGoesOn
    <3>3. SessionsKept
      BY <3>1, SessionNumbers DEF RetryInv, SessionTypes, EndpointOpened, SessionsKept
    <3> QED BY <3>1, <3>2, <3>3 DEF SendFails
  <2>2. CASE down = "up"
    <3>1. /\ Start({m}, 0) /\ UNCHANGED <<call, phase>>
          /\ pc' = [pc EXCEPT ![m] = "starting"]
      BY <2>2 DEF Reset
    <3>2. SessionsKept BY <3>1, StartKeeps, SessionNumbers
    <3> QED BY <3>1, <3>2
  <2> QED BY <2>1, <2>2
<1>3. SessionTypes'
  <2>1. messageUrl' \in 0 .. Text /\ retried' \in SUBSET Messages
    BY <1>1, SessionNumbers DEF RetryInv, SessionTypes
  <2>2. pc' \in [Messages -> {"none", "starting", "posting", "sent", "failed"}]
    BY <1>2 DEF RetryInv, SessionTypes
  <2> QED BY <1>1, <1>2, <2>1, <2>2 DEF RetryInv, SessionTypes, SessionsKept, GoesOn
<1>4. EndpointOpened'
  BY <1>1, <1>2, SessionNumbers
  DEF RetryInv, SessionTypes, EndpointOpened, SessionsKept, GoesOn
<1>5. Unposted'
  BY <1>1, <1>2, MessageKinds DEF RetryInv, SessionTypes, Unposted, GoesOn
<1>6. Elsewhere'
  BY <1>1, SessionNumbers DEF Elsewhere
<1>7. Retries BY <1>1, <1>2 DEF RetryInv, SessionTypes, GoesOn, Retries
<1> QED BY <1>3, <1>4, <1>5, <1>6, <1>7 DEF RetryInv

LEMMA AnswerStep == ASSUME RetryInv, NEW m \in Messages, Answer(m) PROVE RetryInv' /\ Retries
<1>1. UNCHANGED <<to, retried>> BY DEF Answer
<1>2. CASE /\ messageUrl' = Text
           /\ UNCHANGED <<startPromise, session, phase, call, pc>>
  <2>1. GoesOn BY <1>2, SamePlaces DEF RetryInv, SessionTypes
  <2> QED BY <1>1, <1>2, <2>1, SessionsSame, GoesOnKeeps
<1>3. CASE Deliver(m, pc) /\ UNCHANGED messageUrl
  <2>1. GoesOn /\ (UNCHANGED <<session, startPromise>> \/ \E M : Start(M, startPromise))
    BY <1>3, DeliverGoesOn
  <2>2. SessionsKept BY <2>1, SessionsSame, StartKeeps DEF RetryInv, SessionTypes
  <2> QED BY <1>1, <1>3, <2>1, <2>2, GoesOnKeeps
<1> QED BY <1>2, <1>3 DEF Answer

\* What becomes of a session whose stream ends.
LEMMA StreamMoves ==
    ASSUME RetryInv, NEW k \in Sessions, StreamEnds(k)
    PROVE  \/ /\ session[k] = "open" /\ session' = [session EXCEPT ![k] = "ended"]
              /\ startPromise' = startPromise
           \/ session[k] = "waiting" /\ session' = [session EXCEPT ![k] = "broken"]
           \/ /\ session[k] = "waiting" /\ session' = [session EXCEPT ![k] = "silent"]
              /\ UNCHANGED <<startPromise, sdkClient, connectPromise>>
<1>1. PICK breaks \in BOOLEAN :
        /\ session' = [session EXCEPT ![k] = IF @ = "open" THEN "ended"
                                             ELSE IF breaks /\ down # "up" THEN "silent"
                                             ELSE "broken"]
        /\ startPromise' = IF session'[k] = "broken" THEN 0 ELSE startPromise
        /\ down # "up" => UNCHANGED <<sdkClient, connectPromise>>
  BY DEF StreamEnds
<1>2. session[k] \in {"waiting", "open"} BY DEF StreamEnds
<1>3. CASE session[k] = "open"
  <2>1. session' = [session EXCEPT ![k] = "ended"] BY <1>1, <1>3
  <2>2. session'[k] = "ended" BY <2>1 DEF RetryInv, SessionTypes
  <2> QED BY <1>1, <1>3, <2>1, <2>2
<1>4. CASE session[k] = "waiting" /\ breaks /\ down # "up"
  <2>1. session' = [session EXCEPT ![k] = "silent"] BY <1>1, <1>4
  <2>2. session'[k] = "silent" BY <2>1 DEF RetryInv, SessionTypes
  <2> QED BY <1>1, <1>4, <2>1, <2>2
<1>5. CASE session[k] = "waiting" /\ ~(breaks /\ down # "up") BY <1>1, <1>5
<1> QED BY <1>2, <1>3, <1>4, <1>5

\* A session that opens is none to which anything was posted before.
LEMMA SessionStep ==
    ASSUME RetryInv, NEW k \in Sessions,
           GetAnswered(k) \/ Endpoint(k) \/ StreamEnds(k) \/ Forget(k)
    PROVE  RetryInv' /\ Retries
<1>1. UNCHANGED <<to, retried, pc, phase, call>>
  BY DEF GetAnswered, Endpoint, StreamEnds, Forget, messages
<1>2. GoesOn BY <1>1, SamePlaces DEF RetryInv, SessionTypes
<1>3. \/ UNCHANGED <<session, startPromise, messageUrl>>
      \/ /\ startPromise' \in {startPromise, 0} /\ messageUrl' = messageUrl
         /\ \/ session[k] = "requested" /\ session' = [session EXCEPT ![k] = "failed"]
            \/ /\ session[k] = "requested" /\ k # MaxSessions
               /\ session' = [session EXCEPT ![k] = "waiting"]
            \/ session[k] = "waiting" /\ session' = [session EXCEPT ![k] = "broken"]
            \/ session[k] = "waiting" /\ session' = [session EXCEPT ![k] = "silent"]
            \/ session[k] = "open" /\ session' = [session EXCEPT ![k] = "ended"]
      \/ /\ session[k] \in {"requested", "waiting"} /\ k # MaxSessions
         /\ session' = [session EXCEPT ![k] = "open"]
         /\ messageUrl' = k /\ startPromise' = startPromise
  <2>1. session[MaxSessions] \in {"none", "requested", "failed"}
    BY DEF RetryInv, EndpointOpened
  <2>2. CASE GetAnswered(k) BY <2>2 DEF GetAnswered, SessionResponses
  <2>3. CASE Endpoint(k) BY <2>1, <2>3 DEF Endpoint
  <2>4. CASE StreamEnds(k)
    <3>1. /\ messageUrl' = messageUrl /\ startPromise' \in {startPromise, 0}
          /\ session[k] \in {"waiting", "open"}
      BY <2>4 DEF StreamEnds
    <3>2. \/ session[k] = "open" /\ session' = [session EXCEPT ![k] = "ended"]
          \/ session[k] = "waiting" /\ session' = [session EXCEPT ![k] = "broken"]
          \/ session[k] = "waiting" /\ session' = [session EXCEPT ![k] = "silent"]
      BY <2>4, StreamMoves
    <3> QED BY <3>1, <3>2
  <2>5. CASE Forget(k) BY <2>5 DEF Forget, transport
  <2> QED BY <2>2, <2>3, <2>4, <2>5
<1>4. SessionsKept
  BY <1>3, SessionNumbers
  DEF RetryInv, SessionTypes, EndpointOpened, SessionsKept, Settled, Unopened, Opened
<1>5. CASE messageUrl' = messageUrl BY <1>1, <1>2, <1>4, <1>5, GoesOnKeeps
<1>6. CASE /\ session[k] \in {"requested", "waiting"}
           /\ session' = [session EXCEPT ![k] = "open"] /\ messageUrl' = k
  <2> USE DEF RetryInv, SessionTypes
  <2>1. SessionTypes' BY <1>1, <1>4, <1>6, SessionNumbers DEF SessionsKept
  <2>2. EndpointOpened'
    BY <1>1, <1>4, <1>6, SessionNumbers DEF EndpointOpened, SessionsKept, Opened
  <2>3. Unposted' BY <1>1 DEF Unposted
  <2>4. Elsewhere' BY <1>1, <1>6 DEF Elsewhere, EndpointOpened, Opened
  <2>5. Retries BY <1>1 DEF Retries
  <2> QED BY <2>1, <2>2, <2>3, <2>4, <2>5
<1> QED BY <1>3, <1>5, <1>6

LEMMA CloseStep == ASSUME RetryInv, Close \/ CloseDone PROVE RetryInv' /\ Retries
<1>1. UNCHANGED <<to, retried, pc>> BY DEF Close, CloseDone, messages
<1>2. CASE Close
  <2>1. UNCHANGED <<session, startPromise, messageUrl, phase, call>>
    BY <1>2 DEF Close, transport
  <2>2. GoesOn BY <1>1, <2>1, SamePlaces DEF RetryInv, SessionTypes
  <2> QED BY <1>1, <2>1, <2>2, SessionsSame, GoesOnKeeps
<1>3. CASE CloseDone
  <2>1. /\ startPromise' = 0 /\ messageUrl' = 0 /\ session' = session
        /\ call' = [c \in Calls |-> IF call[c] = "waiting" THEN "failed" ELSE call[c]]
        /\ phase' = [n \in Clients |->
                       IF n \in {j \in Clients : phase[j] = "initializing"}
                       THEN "failed" ELSE phase[n]]
    BY <1>3 DEF CloseDone, ForgetSession
  <2>2. SessionsKept
    BY <2>1, SessionNumbers DEF RetryInv, SessionTypes, EndpointOpened, SessionsKept
  <2>3. GoesOn BY <1>1, <2>1, SamePlaces DEF RetryInv, SessionTypes, Ended
  <2> QED BY <1>1, <2>1, <2>2, <2>3, GoesOnKeeps
<1> QED BY <1>2, <1>3

LEMMA RetryStep == RetryInv /\ [Next]_vars => RetryInv' /\ Retries
<1> SUFFICES ASSUME RetryInv, [Next]_vars PROVE RetryInv' /\ Retries
  OBVIOUS
<1>1. CASE UNCHANGED vars
  BY <1>1 DEF vars, transport, messages, RetryInv, SessionTypes, EndpointOpened,
              Unposted, Elsewhere, Retries
<1>2. CASE \E c \in Calls : Send(c) \/ Request(c) \/ Timeout(c) BY <1>2, CallStep
<1>3. CASE \E n \in Clients : Started(n) \/ InitializeTimeout(n) BY <1>3, ClientStep
<1>4. CASE \E m \in Messages : Post(m) \/ PostReturns(m) \/ Answer(m)
  BY <1>4, PostStep, AcceptedStep, FailedStep, ResetStep, AnswerStep DEF PostReturns
<1>5. CASE \E k \in Sessions :
             GetAnswered(k) \/ Endpoint(k) \/ StreamEnds(k) \/ Forget(k)
  BY <1>5, SessionStep
<1>6. CASE Close \/ CloseDone BY <1>6, CloseStep
<1> QED BY <1>1, <1>2, <1>3, <1>4, <1>5, <1>6 DEF Next

\* However many messages find their session gone at the same time, none of them is
\* sent again to the session that did not know it.
THEOREM SentAgainElsewhere == Spec => RetriedElsewhere
<1>1. RetryInv /\ [Next]_vars =>
        [\A m \in retried :
            pc[m] = "starting" /\ pc'[m] = "posting" /\ to[m] \in Sessions
                => to'[m] # to[m]]_vars
  BY RetryStep DEF Retries
<1> QED BY <1>1, RetryInit, RetryStep, PTL DEF Spec, RetriedElsewhere

-------------------------------------------------------------------------------
(* One session                                                               *)

\* Until a message is sent again there is the first session only, or it was lost:
\* start() has promised it, and promises nothing else before the transport is closed.
SharedInv ==
    retried = {} =>
        \/ session[1] \in Unopened \cup {"ended"}
        \/ /\ \A k \in Sessions : k # 1 => session[k] = "none"
           /\ IF session[1] = "none" THEN startPromise = 0
              ELSE startPromise = 1 \/ down = "closed"

\* What a step does to the sessions when no message is sent again.
SessionMoves ==
    \/ UNCHANGED <<session, startPromise>> /\ (down = "closed" => down' = "closed")
    \/ down = "up" /\ down' = "up" /\ \E M : Start(M, startPromise)
    \/ session' = session /\ startPromise' = 0 /\ down' = "closed"
    \/ \E k \in Sessions, v \in {"waiting", "silent", "open"} \cup Unopened \cup {"ended"} :
          /\ session[k] # "none" /\ session' = [session EXCEPT ![k] = v] /\ down' = down
          /\ startPromise' = startPromise \/ v \in Unopened
          /\ session[k] \in Unopened \cup {"ended"} => v \in Unopened \cup {"ended"}

LEMMA SessionMovesNext ==
    ASSUME RetryInv, [Next]_vars
    PROVE  (retried' = retried /\ SessionMoves) \/ retried' # {}
<1>1. CASE UNCHANGED vars BY <1>1 DEF vars, transport, messages, SessionMoves
<1>2. ASSUME NEW c \in Calls, Send(c) \/ Request(c) \/ Timeout(c)
      PROVE retried' = retried /\ SessionMoves
  <2>1. CASE Send(c)
    <3>1. down' = down /\ retried' = retried BY <2>1 DEF Send, messages
    <3>2. \/ UNCHANGED <<session, startPromise>>
          \/ down = "up" /\ \E M : Start(M, startPromise)
      BY <2>1 DEF Send
    <3> QED BY <3>1, <3>2 DEF SessionMoves
  <2>2. CASE Request(c)
    <3>1. down' = down /\ retried' = retried BY <2>2 DEF Request
    <3>2. \/ UNCHANGED <<session, startPromise>>
          \/ down = "up" /\ \E M : Start(M, startPromise)
      BY <2>2 DEF Request
    <3> QED BY <3>1, <3>2 DEF SessionMoves
  <2>3. CASE Timeout(c) BY <2>3 DEF Timeout, transport, messages, SessionMoves
  <2> QED BY <1>2, <2>1, <2>2, <2>3
<1>3. ASSUME NEW n \in Clients, Started(n) \/ InitializeTimeout(n)
      PROVE retried' = retried /\ SessionMoves
  <2>1. ASSUME ConnectFails({n}) PROVE down = "closed" => down' = "closed"
    BY <2>1 DEF ConnectFails
  <2>2. CASE Started(n)
    <3>1. retried' = retried BY <2>2 DEF Started
    <3>2. \/ UNCHANGED <<session, startPromise>> /\ (down' = down \/ ConnectFails({n}))
          \/ down = "up" /\ down' = down /\ \E M : Start(M, startPromise)
      BY <2>2 DEF Started
    <3> QED BY <2>1, <3>1, <3>2 DEF SessionMoves
  <2>3. CASE InitializeTimeout(n)
    BY <2>1, <2>3 DEF InitializeTimeout, transport, messages, SessionMoves
  <2> QED BY <1>3, <2>2, <2>3
<1>4. ASSUME NEW m \in Messages, Post(m) \/ PostReturns(m) \/ Answer(m)
      PROVE (retried' = retried /\ SessionMoves) \/ retried' # {}
  <2>1. ASSUME SendFails(m) PROVE down = "closed" => down' = "closed"
    BY <2>1 DEF SendFails, ConnectFails
  <2>2. ASSUME NEW sent, Deliver(m, sent)
        PROVE \/ UNCHANGED <<session, startPromise>> /\ (down = "closed" => down' = "closed")
              \/ down = "up" /\ down' = "up" /\ \E M : Start(M, startPromise)
    BY <2>2 DEF Deliver, ConnectFails
  <2>3. CASE Post(m) BY <2>1, <2>3 DEF Post, transport, SessionMoves
  <2>4. CASE Accepted(m)
    <3>1. \/ Deliver(m, [pc EXCEPT ![m] = "sent"])
          \/ UNCHANGED <<session, startPromise, down>>
      BY <2>4 DEF Accepted
    <3>2. retried' = retried BY <2>4 DEF Accepted
    <3> QED BY <2>2, <3>1, <3>2 DEF SessionMoves
  <2>5. CASE Failed(m) BY <2>1, <2>5 DEF Failed, transport, SessionMoves
  <2>6. CASE Reset(m) BY <2>6 DEF Reset
  <2>7. CASE Answer(m)
    <3>1. Deliver(m, pc) \/ UNCHANGED <<session, startPromise, down>> BY <2>7 DEF Answer
    <3>2. retried' = retried BY <2>7 DEF Answer
    <3> QED BY <2>2, <3>1, <3>2 DEF SessionMoves
  <2> QED BY <1>4, <2>3, <2>4, <2>5, <2>6, <2>7 DEF PostReturns
<1>5. ASSUME NEW k \in Sessions,
             GetAnswered(k) \/ Endpoint(k) \/ StreamEnds(k) \/ Forget(k)
      PROVE retried' = retried /\ SessionMoves
  <2>1. retried' = retried
    BY <1>5 DEF GetAnswered, Endpoint, StreamEnds, Forget, messages
  <2>2. CASE GetAnswered(k)
    BY <2>1, <2>2 DEF GetAnswered, SessionResponses, SessionMoves, Unopened
  <2>3. CASE Endpoint(k) BY <2>1, <2>3 DEF Endpoint, SessionMoves, Unopened
  <2>4. CASE StreamEnds(k)
    <3>1. /\ session[k] \in {"waiting", "open"} /\ down' = down
          /\ \/ session[k] = "waiting" /\ session' = [session EXCEPT ![k] = "broken"]
             \/ /\ session[k] = "waiting" /\ session' = [session EXCEPT ![k] = "silent"]
                /\ startPromise' = startPromise
             \/ /\ session[k] = "open" /\ session' = [session EXCEPT ![k] = "ended"]
                /\ startPromise' = startPromise
      <4>1. session[k] \in {"waiting", "open"} /\ down' = down BY <2>4 DEF StreamEnds
      <4> QED BY <2>4, <4>1, StreamMoves
    <3> QED BY <2>1, <3>1 DEF SessionMoves, Unopened
  <2>5. CASE Forget(k) BY <2>1, <2>5 DEF Forget, transport, SessionMoves
  <2> QED BY <1>5, <2>2, <2>3, <2>4, <2>5
<1>6. CASE Close \/ CloseDone
  <2>1. CASE Close BY <2>1 DEF Close, transport, messages, SessionMoves
  <2>2. CASE CloseDone BY <2>2 DEF CloseDone, ForgetSession, messages, SessionMoves
  <2> QED BY <1>6, <2>1, <2>2
<1> QED BY <1>1, <1>2, <1>3, <1>4, <1>5, <1>6 DEF Next

LEMMA SharedStep ==
    ASSUME RetryInv, SharedInv, [Next]_vars
    PROVE  SharedInv'
<1>1. \A m \in retried : m \in retried'
  BY DEF Next, vars, messages, Send, Request, Timeout, Started, InitializeTimeout, Post,
         PostReturns, Accepted, Failed, Reset, Answer, GetAnswered, Endpoint, StreamEnds,
         Forget, Close, CloseDone
<1> SUFFICES ASSUME retried' = {} PROVE SharedInv'
  BY DEF SharedInv
<1>2. retried = {} /\ SessionMoves BY <1>1, SessionMovesNext
<1>3. /\ session \in [Sessions -> {"none", "requested", "waiting", "silent"} \cup Settled]
      /\ 1 \in Sessions
  BY McpAssumption DEF RetryInv, SessionTypes, Sessions
<1> USE DEF SharedInv
<1>4. CASE UNCHANGED <<session, startPromise>> /\ (down = "closed" => down' = "closed")
  BY <1>2, <1>4
<1>5. CASE down = "up" /\ down' = "up" /\ \E M : Start(M, startPromise)
  <2>1. PICK k \in Sessions :
          /\ startPromise' = k
          /\ \/ startPromise # 0 /\ k = startPromise /\ session' = session
             \/ /\ startPromise = 0 /\ New(k)
                /\ session' = [session EXCEPT ![k] = "requested"]
    BY <1>5 DEF Start, Promised
  <2>2. CASE session[1] \in Unopened \cup {"ended"}
    <3>1. session'[1] = session[1] \/ k = 1
      BY <1>3, <2>1
    <3>2. k = 1 => session'[1] = session[1] \/ MaxSessions = 1
      BY <1>3, <2>1, <2>2 DEF New, Unopened
    <3>3. MaxSessions = 1 /\ k = 1 /\ session'[1] # session[1]
          => /\ session'[1] = "requested" /\ startPromise' = 1
             /\ \A j \in Sessions : j = 1
      BY <1>3, <2>1 DEF Sessions
    <3> QED BY <2>2, <3>1, <3>2, <3>3
  <2>3. CASE session[1] \notin Unopened \cup {"ended"}
    <3>1. /\ \A j \in Sessions : j # 1 => session[j] = "none"
          /\ IF session[1] = "none" THEN startPromise = 0 ELSE startPromise = 1
      BY <1>2, <1>5, <2>3
    <3>2. CASE startPromise = 0
      <4>1. session[1] = "none" /\ New(k) BY <2>1, <3>1, <3>2
      <4>2. k = 1
        <5>1. k # 1 => 1 \in 1 .. k - 1 BY DEF Sessions
        <5> QED BY <4>1, <5>1 DEF New
      <4> QED BY <1>3, <2>1, <3>1, <3>2, <4>2
    <3>3. CASE startPromise # 0 BY <2>1, <3>1, <3>3
    <3> QED BY <3>2, <3>3
  <2> QED BY <2>2, <2>3
<1>6. CASE session' = session /\ startPromise' = 0 /\ down' = "closed"
  BY <1>2, <1>6
<1>7. CASE \E k \in Sessions,
             v \in {"waiting", "silent", "open"} \cup Unopened \cup {"ended"} :
             /\ session[k] # "none" /\ session' = [session EXCEPT ![k] = v] /\ down' = down
             /\ startPromise' = startPromise \/ v \in Unopened
             /\ session[k] \in Unopened \cup {"ended"} => v \in Unopened \cup {"ended"}
  BY <1>2, <1>3, <1>7
<1> QED BY <1>2, <1>4, <1>5, <1>6, <1>7 DEF SessionMoves

LEMMA SharedInit == Init => SharedInv
BY McpAssumption DEF Init, SharedInv, Sessions

\* Calls and clients, however many and whenever they come, use one session as long as
\* it was opened, the server knows it and its stream lasts.
THEOREM OneSessionServes == Spec => []SessionIsShared
<1>1. RetryInv /\ SharedInv => SessionIsShared
  <2> SUFFICES ASSUME RetryInv, SharedInv, retried = {},
                      \A k \in Sessions : session[k] \notin Unopened \cup {"ended"}
               PROVE Cardinality({k \in Sessions : session[k] # "none"}) <= 1
    BY DEF SessionIsShared
  <2> DEFINE used == {k \in Sessions : session[k] # "none"}
  <2>1. 1 \in Sessions BY McpAssumption DEF Sessions
  <2>2. used \subseteq {1} BY <2>1 DEF SharedInv
  <2>3. Cardinality({1}) = 1 /\ IsFiniteSet({1}) BY FS_Singleton
  <2>4. Cardinality(used) \in Nat /\ Cardinality(used) <= 1 BY <2>2, <2>3, FS_Subset, FS_CardinalityType
  <2> QED BY <2>4
<1>2. Init => RetryInv /\ SharedInv BY RetryInit, SharedInit
<1>3. RetryInv /\ SharedInv /\ [Next]_vars => RetryInv' /\ SharedInv'
  BY RetryStep, SharedStep
<1> QED BY <1>1, <1>2, <1>3, PTL DEF Spec

-------------------------------------------------------------------------------
(* One client                                                                *)

\* No stream has ended.
Intact == \A k \in Sessions : session[k] \notin {"ended", "broken"}

ClientTypes ==
    /\ down \in {"up", "closing", "closed"}
    /\ sdkClient \in Clients \cup {0} /\ connectPromise \in Clients \cup {0}
    /\ via \in [Calls -> Clients \cup {0}]
    /\ next \in [Clients -> Nat] /\ id \in [Requests -> Nat]

\* A client in use has been made, and what waits for an answer was started.
ClientsMade ==
    /\ sdkClient # 0 => phase[sdkClient] # "none"
    /\ connectPromise # 0 => phase[connectPromise] # "none"
    /\ \A c \in Calls :
          /\ call[c] = "connecting" => via[c] # 0 /\ phase[via[c]] # "none"
          /\ call[c] = "waiting" => pc[Call(c)] # "none"
    /\ \A n \in Clients : phase[n] = "initializing" => pc[Initialize(n)] # "none"

\* There is one client, which calls can use until the transport is closed.
Single == \A n \in Clients : phase[n] # "none" => n = 1 /\ (down = "up" => Shared # 0)

\* It has given every request a number of its own.
NumbersFit ==
    /\ \A r \in Requests : pc[r] # "none" => id[r] < next[1]
    /\ \A r, q \in Requests : pc[r] # "none" /\ pc[q] # "none" /\ id[r] = id[q] => r = q

OneClient == Single /\ NumbersFit /\ \A c \in Calls : call[c] # "wrong"

ClientInv == ClientTypes /\ ClientsMade /\ (Intact => OneClient)

\* The request r gets the next number of client n and is started, or fails.
Numbered(r, n) ==
    /\ phase[n] # "none" /\ pc[r] = "none"
    /\ id' = [id EXCEPT ![r] = next[n]] /\ next' = [next EXCEPT ![n] = @ + 1]
    /\ \A q \in Requests : q # r => (pc'[q] = "none" <=> pc[q] = "none")

\* What a step does to the numbers of requests.
NumbersMove ==
    \/ UNCHANGED <<id, next>> /\ \A q \in Requests : pc'[q] = "none" <=> pc[q] = "none"
    \/ \E r \in Requests, n \in Clients : Numbered(r, n)

\* A client is made.
Made(n) ==
    /\ Shared = 0 /\ down = "up"
    /\ phase[n] = "none" /\ \A j \in 1 .. n - 1 : phase[j] # "none"
    /\ phase' = [phase EXCEPT ![n] = "starting"] /\ connectPromise' = n
    /\ UNCHANGED <<sdkClient, down>>

\* What a step does to the clients.  The one in use is given up when the transport is
\* closed, or a stream has ended.
ClientsMove ==
    \/ \E n \in Clients : Made(n)
    \/ /\ \A n \in Clients : phase'[n] = "none" <=> phase[n] = "none"
       /\ down' \in {down, "closing", "closed"} /\ (down # "up" => down' # "up")
       /\ \/ UNCHANGED <<sdkClient, connectPromise>>
          \/ \E n \in Clients :
                sdkClient' = n /\ phase[n] # "none" /\ connectPromise' = connectPromise
          \/ sdkClient' = 0 /\ connectPromise' = 0 /\ (down' # "up" \/ ~Intact')

\* What a step does to the calls.
CallsMove ==
    /\ \A c \in Calls :
          /\ call'[c] = "connecting" =>
                \/ call[c] = "connecting" /\ via'[c] = via[c]
                \/ via'[c] \in Clients /\ phase'[via'[c]] # "none"
          /\ call'[c] = "waiting" => pc'[Call(c)] # "none"
          /\ call'[c] = "wrong" =>
                \/ call[c] = "wrong"
                \/ /\ pc[Call(c)] # "none"
                   /\ \E m \in Requests :
                         m # Call(c) /\ pc[m] # "none" /\ id[m] = id[Call(c)]
    /\ \A n \in Clients : phase'[n] = "initializing" => pc'[Initialize(n)] # "none"
    /\ via' \in [Calls -> Clients \cup {0}]

\* A stream that has ended does not come back.
LEMMA StaysBroken == ASSUME RetryInv, [Next]_vars, Intact' PROVE Intact
<1>1. ASSUME NEW k \in Sessions, session[k] \in {"ended", "broken"}
      PROVE  session'[k] = session[k]
  <2> USE DEF RetryInv, SessionTypes
  <2>1. ASSUME NEW M, NEW promise, Start(M, promise) PROVE session'[k] = session[k]
    <3>1. \/ session' = session
          \/ \E j \in Sessions : /\ session[j] = "none" \/ j = MaxSessions
                                 /\ session' = [session EXCEPT ![j] = "requested"]
      BY <2>1 DEF Start, New
    <3> QED BY <1>1, <3>1 DEF EndpointOpened
  <2>2. ASSUME NEW m, NEW sent, Deliver(m, sent)
        PROVE session' = session \/ \E M : Start(M, startPromise)
    BY <2>2 DEF Deliver
  <2>3. CASE UNCHANGED vars BY <2>3 DEF vars, transport
  <2>4. ASSUME NEW c \in Calls, Send(c) \/ Request(c) \/ Timeout(c)
        PROVE session' = session \/ \E M : Start(M, startPromise)
    BY <2>4 DEF Send, Request, Timeout, transport
  <2>5. ASSUME NEW n \in Clients, Started(n) \/ InitializeTimeout(n)
        PROVE session' = session \/ \E M : Start(M, startPromise)
    BY <2>5 DEF Started, InitializeTimeout, transport
  <2>6. ASSUME NEW m \in Messages, Post(m) \/ PostReturns(m) \/ Answer(m)
        PROVE session' = session \/ \E M, promise : Start(M, promise)
    <3>1. CASE Post(m) \/ Failed(m) BY <3>1 DEF Post, Failed, transport
    <3>2. CASE Accepted(m) BY <2>2, <3>2 DEF Accepted
    <3>3. CASE Reset(m) BY <3>3 DEF Reset
    <3>4. CASE Answer(m) BY <2>2, <3>4 DEF Answer
    <3> QED BY <2>6, <3>1, <3>2, <3>3, <3>4 DEF PostReturns
  <2>7. ASSUME NEW j \in Sessions,
               GetAnswered(j) \/ Endpoint(j) \/ StreamEnds(j) \/ Forget(j)
        PROVE session'[k] = session[k]
    BY <1>1, <2>7 DEF GetAnswered, Endpoint, StreamEnds, Forget, transport
  <2>8. CASE Close \/ CloseDone BY <2>8 DEF Close, CloseDone, transport
  <2> QED BY <2>1, <2>3, <2>4, <2>5, <2>6, <2>7, <2>8 DEF Next
<1> QED BY <1>1 DEF Intact

\* What is neither made nor started stays so.
NoneMade == \A n \in Clients : phase'[n] = "none" <=> phase[n] = "none"
NoneStarted == \A q \in Requests : pc'[q] = "none" <=> pc[q] = "none"
NoneInitializes ==
    \A n \in Clients : phase'[n] = "initializing" => phase[n] = "initializing"

Moves == NumbersMove /\ ClientsMove /\ CallsMove

LEMMA ConnectFailsMoves ==
    ASSUME RetryInv, ClientInv, NEW N \in SUBSET Clients, ConnectFails(N),
           \A n \in N : phase[n] # "none"
    PROVE  ClientsMove /\ NoneMade /\ NoneInitializes
<1>1. \A n \in Clients : phase'[n] = IF n \in N THEN "failed" ELSE phase[n]
  BY DEF ConnectFails
<1>2. NoneMade /\ NoneInitializes BY <1>1 DEF NoneMade, NoneInitializes
<1>3. \/ UNCHANGED <<sdkClient, connectPromise, down>>
      \/ /\ sdkClient' = 0 /\ connectPromise' = 0
         /\ down' = IF down = "up" THEN "closing" ELSE down
  BY DEF ConnectFails
<1>4. ClientsMove BY <1>2, <1>3 DEF ClientsMove, NoneMade, ClientInv, ClientTypes
<1> QED BY <1>2, <1>4

LEMMA CallsGoOn ==
    ASSUME RetryInv, ClientInv, via' = via, NoneMade, NoneStarted, NoneInitializes,
           \A c \in Calls : call'[c] \in {call[c], "ok", "failed"}
    PROVE  CallsMove
<1>1. \A c \in Calls :
        /\ call'[c] = "connecting" => call[c] = "connecting"
        /\ call'[c] = "waiting" => call[c] = "waiting"
        /\ call'[c] = "wrong" => call[c] = "wrong"
  OBVIOUS
<1>2. \A c \in Calls : call'[c] = "waiting" => pc'[Call(c)] # "none"
  BY <1>1, MessageKinds DEF ClientInv, ClientsMade, NoneStarted
<1>3. \A n \in Clients : phase'[n] = "initializing" => pc'[Initialize(n)] # "none"
  BY MessageKinds DEF ClientInv, ClientsMade, NoneStarted, NoneInitializes
<1> QED BY <1>1, <1>2, <1>3 DEF CallsMove, ClientInv, ClientTypes

LEMMA SendFailsMoves ==
    ASSUME RetryInv, ClientInv, NEW m \in Messages, pc[m] # "none", SendFails(m),
           UNCHANGED <<id, next, via>>
    PROVE  Moves
<1> DEFINE N == {n \in Clients : \/ m = Initialize(n) /\ Pending(m)
                                 \/ m = Initialized(n) /\ phase[n] = "announcing"}
<1>1. \A n \in N : phase[n] # "none"
  <2>1. \A n \in Clients : Pending(Initialize(n)) => phase[n] = "initializing"
    BY MessageKinds DEF Pending
  <2> QED BY <2>1
<1>2. ConnectFails(N) BY DEF SendFails
<1>3. N \in SUBSET Clients OBVIOUS
<1> HIDE DEF N
<1>4. ClientsMove /\ NoneMade /\ NoneInitializes BY <1>1, <1>2, <1>3, ConnectFailsMoves
<1>5. NoneStarted
  BY DEF SendFails, NoneStarted, RetryInv, SessionTypes, Messages
<1>6. \A c \in Calls : call'[c] \in {call[c], "ok", "failed"} BY DEF SendFails
<1>7. CallsMove BY <1>4, <1>5, <1>6, CallsGoOn
<1>8. NumbersMove BY <1>5 DEF NumbersMove, NoneStarted
<1> QED BY <1>4, <1>7, <1>8 DEF Moves

\* An answer that settles another call than its own has the number of that call.
LEMMA DeliverMoves ==
    ASSUME RetryInv, ClientInv, NEW m \in Requests, NEW sent, Deliver(m, sent),
           pc[m] # "none", sent = pc \/ sent = [pc EXCEPT ![m] = "sent"],
           UNCHANGED <<id, next, via>>
    PROVE  Moves
<1> DEFINE settles == {r \in Requests : Pending(r) /\ id[r] = id[m]}
           acked == {n \in Clients : Initialize(n) \in settles}
           told == {Initialized(n) : n \in acked}
<1>1. \A n \in acked : phase[n] = "initializing"
  BY MessageKinds DEF Pending
<1>2. \A c \in Calls : Call(c) \in settles => call[c] = "waiting" /\ id[Call(c)] = id[m]
  BY MessageKinds DEF Pending
<1>3. /\ call' = [c \in Calls |-> IF Call(c) \notin settles THEN call[c]
                                  ELSE IF m = Call(c) THEN "ok" ELSE "wrong"]
      /\ \/ ConnectFails(acked) /\ pc' = sent
         \/ /\ phase' = [n \in Clients |-> IF n \in acked THEN "announcing" ELSE phase[n]]
            /\ pc' = [x \in Messages |-> IF x \in told THEN "starting" ELSE sent[x]]
            /\ UNCHANGED <<sdkClient, connectPromise, down>>
  BY DEF Deliver
<1>4. \A q \in Requests : q \notin told /\ q \in Messages
  BY MessageKinds DEF Requests, Messages
<1>5. acked \in SUBSET Clients OBVIOUS
<1> HIDE DEF settles, acked, told
<1>6. \A q \in Requests : pc'[q] = sent[q] BY <1>3, <1>4
<1>7. NoneStarted BY <1>4, <1>6 DEF NoneStarted, RetryInv, SessionTypes
<1>8. ClientsMove /\ NoneMade /\ NoneInitializes
  <2>1. CASE ConnectFails(acked) BY <1>1, <1>5, <2>1, ConnectFailsMoves
  <2>2. CASE /\ phase' = [n \in Clients |-> IF n \in acked THEN "announcing" ELSE phase[n]]
             /\ UNCHANGED <<sdkClient, connectPromise, down>>
    <3>1. NoneMade /\ NoneInitializes BY <1>1, <2>2 DEF NoneMade, NoneInitializes
    <3> QED BY <2>2, <3>1 DEF ClientsMove, NoneMade
  <2> QED BY <1>3, <2>1, <2>2
<1>9. \A c \in Calls :
        /\ call'[c] = "connecting" => call[c] = "connecting"
        /\ call'[c] = "waiting" => call[c] = "waiting"
        /\ call'[c] = "wrong" => call[c] = "wrong" \/ (Call(c) \in settles /\ m # Call(c))
  BY <1>3
<1>10. CallsMove
  <2>1. \A c \in Calls : call[c] = "waiting" => pc[Call(c)] # "none" /\ pc'[Call(c)] # "none"
    BY <1>7, MessageKinds DEF ClientInv, ClientsMade, NoneStarted
  <2>2. \A n \in Clients : phase'[n] = "initializing" => pc'[Initialize(n)] # "none"
    BY <1>7, <1>8, MessageKinds DEF ClientInv, ClientsMade, NoneStarted, NoneInitializes
  <2>3. \A c \in Calls :
          call'[c] = "wrong" =>
             \/ call[c] = "wrong"
             \/ /\ pc[Call(c)] # "none"
                /\ m # Call(c) /\ id[m] = id[Call(c)]
    BY <1>2, <1>9, <2>1
  <2> QED BY <1>9, <2>1, <2>2, <2>3 DEF CallsMove, ClientInv, ClientTypes
<1>11. NumbersMove BY <1>7 DEF NumbersMove, NoneStarted
<1> QED BY <1>8, <1>10, <1>11 DEF Moves

LEMMA CallMoves ==
    ASSUME RetryInv, ClientInv, NEW c \in Calls, Send(c) \/ Request(c) \/ Timeout(c)
    PROVE  Moves
<1>1. CASE Send(c)
  <2>1. /\ call[c] = "idle" /\ UNCHANGED <<sdkClient, down, next, id, pc>>
        /\ call' = [call EXCEPT ![c] = "failed"] \/ call' = [call EXCEPT ![c] = "connecting"]
    BY <1>1 DEF Send, messages
  <2>2. NumbersMove BY <2>1 DEF NumbersMove
  <2>3. \A d \in Calls : /\ call'[d] = "connecting" => call[d] = "connecting" \/ d = c
                         /\ call'[d] = "waiting" => call[d] = "waiting"
                         /\ call'[d] = "wrong" => call[d] = "wrong"
    BY <2>1 DEF RetryInv, SessionTypes
  <2>4. \A d \in Calls : call'[d] = "waiting" => pc'[Call(d)] # "none"
    BY <2>1, <2>3 DEF ClientInv, ClientsMade
  <2>5. CASE /\ call' = [call EXCEPT ![c] = "failed"]
             /\ UNCHANGED <<connectPromise, phase, via>>
    <3>1. NoneMade /\ NoneInitializes /\ NoneStarted
      BY <2>1, <2>5 DEF NoneMade, NoneInitializes, NoneStarted
    <3>2. ClientsMove BY <2>1, <2>5 DEF ClientsMove
    <3>3. \A d \in Calls : call'[d] \in {call[d], "ok", "failed"}
      BY <2>5 DEF RetryInv, SessionTypes
    <3> QED BY <2>2, <2>5, <3>1, <3>2, <3>3, CallsGoOn DEF Moves
  <2>6. CASE /\ Shared # 0 /\ via' = [via EXCEPT ![c] = Shared]
             /\ UNCHANGED <<connectPromise, phase>>
    <3>1. ClientsMove BY <2>1, <2>6 DEF ClientsMove
    <3>2. Shared \in Clients /\ phase[Shared] # "none"
      BY <2>6 DEF Shared, ClientInv, ClientTypes, ClientsMade
    <3>3. \A d \in Calls : call'[d] = "connecting" =>
             \/ call[d] = "connecting" /\ via'[d] = via[d]
             \/ via'[d] \in Clients /\ phase'[via'[d]] # "none"
      BY <2>3, <2>6, <3>2 DEF ClientInv, ClientTypes
    <3>4. \A n \in Clients : phase'[n] = "initializing" => pc'[Initialize(n)] # "none"
      BY <2>1, <2>6 DEF ClientInv, ClientsMade
    <3>5. via' \in [Calls -> Clients \cup {0}]
      BY <2>6, <3>2 DEF ClientInv, ClientTypes
    <3>6. CallsMove BY <2>3, <2>4, <3>3, <3>4, <3>5 DEF CallsMove
    <3> QED BY <2>2, <3>1, <3>6 DEF Moves
  <2>7. CASE \E n \in Clients :
               /\ Shared = 0 /\ down = "up"
               /\ phase[n] = "none" /\ \A j \in 1 .. n - 1 : phase[j] # "none"
               /\ via' = [via EXCEPT ![c] = n] /\ connectPromise' = n
               /\ phase' = [phase EXCEPT ![n] = "starting"]
    <3>1. PICK n \in Clients :
               /\ Shared = 0 /\ down = "up"
               /\ phase[n] = "none" /\ \A j \in 1 .. n - 1 : phase[j] # "none"
               /\ via' = [via EXCEPT ![c] = n] /\ connectPromise' = n
               /\ phase' = [phase EXCEPT ![n] = "starting"]
      BY <2>7
    <3>2. ClientsMove BY <2>1, <3>1 DEF ClientsMove, Made
    <3>3. \A d \in Calls : call'[d] = "connecting" =>
             \/ call[d] = "connecting" /\ via'[d] = via[d]
             \/ via'[d] \in Clients /\ phase'[via'[d]] # "none"
      BY <2>3, <3>1 DEF ClientInv, ClientTypes, RetryInv, SessionTypes
    <3>4. \A j \in Clients : phase'[j] = "initializing" => phase[j] = "initializing"
      BY <3>1 DEF RetryInv, SessionTypes
    <3>5. \A j \in Clients : phase'[j] = "initializing" => pc'[Initialize(j)] # "none"
      BY <2>1, <3>4 DEF ClientInv, ClientsMade
    <3>6. via' \in [Calls -> Clients \cup {0}]
      BY <3>1 DEF ClientInv, ClientTypes
    <3>7. CallsMove BY <2>3, <2>4, <3>3, <3>5, <3>6 DEF CallsMove
    <3> QED BY <2>2, <3>2, <3>7 DEF Moves
  <2> QED BY <1>1, <2>5, <2>6, <2>7 DEF Send
<1>2. CASE Request(c)
  <2>1. /\ call[c] = "connecting" /\ UNCHANGED <<phase, via, down, sdkClient, connectPromise>>
        /\ \/ call' = [call EXCEPT ![c] = "failed"] /\ UNCHANGED <<next, pc, id>>
           \/ /\ call' = [call EXCEPT ![c] = "waiting"]
              /\ id' = [id EXCEPT ![Call(c)] = next[via[c]]]
              /\ next' = [next EXCEPT ![via[c]] = @ + 1]
              /\ pc' = [pc EXCEPT ![Call(c)] = "starting"]
    BY <1>2 DEF Request, wrapper
  <2>2. /\ pc[Call(c)] = "none" /\ via[c] \in Clients /\ phase[via[c]] # "none"
        /\ Call(c) \in Requests /\ Call(c) \in Messages
    BY <2>1, MessageKinds DEF RetryInv, Unposted, ClientInv, ClientTypes, ClientsMade
  <2>3. NoneMade /\ NoneInitializes /\ ClientsMove
    BY <2>1 DEF NoneMade, NoneInitializes, ClientsMove
  <2>4. CASE call' = [call EXCEPT ![c] = "failed"] /\ UNCHANGED <<next, pc, id>>
    <3>1. NoneStarted /\ NumbersMove BY <2>4 DEF NoneStarted, NumbersMove
    <3>2. \A d \in Calls : call'[d] \in {call[d], "ok", "failed"}
      BY <2>4 DEF RetryInv, SessionTypes
    <3> QED BY <2>1, <2>3, <3>1, <3>2, CallsGoOn DEF Moves
  <2>5. CASE /\ call' = [call EXCEPT ![c] = "waiting"]
             /\ id' = [id EXCEPT ![Call(c)] = next[via[c]]]
             /\ next' = [next EXCEPT ![via[c]] = @ + 1]
             /\ pc' = [pc EXCEPT ![Call(c)] = "starting"]
    <3>1. \A q \in Messages : pc'[q] = IF q = Call(c) THEN "starting" ELSE pc[q]
      BY <2>2, <2>5 DEF RetryInv, SessionTypes
    <3>2. \A q \in Requests : q \in Messages BY DEF Messages
    <3>3. NumbersMove
      BY ZenonT(30), <2>2, <2>5, <3>1, <3>2 DEF NumbersMove, Numbered
    <3>4. \A d \in Calls : /\ call'[d] = "connecting" => call[d] = "connecting"
                           /\ call'[d] = "waiting" => call[d] = "waiting" \/ d = c
                           /\ call'[d] = "wrong" => call[d] = "wrong"
      BY <2>5 DEF RetryInv, SessionTypes
    <3>5. \A d \in Calls : call'[d] = "waiting" => pc'[Call(d)] # "none"
      BY <3>1, <3>4, MessageKinds DEF ClientInv, ClientsMade
    <3>6. \A n \in Clients : phase'[n] = "initializing" => pc'[Initialize(n)] # "none"
      BY <2>1, <3>1, MessageKinds DEF ClientInv, ClientsMade
    <3>7. CallsMove BY <2>1, <3>4, <3>5, <3>6 DEF CallsMove, ClientInv, ClientTypes
    <3> QED BY <2>3, <3>3, <3>7 DEF Moves
  <2> QED BY <2>1, <2>4, <2>5
<1>3. CASE Timeout(c)
  <2>1. /\ UNCHANGED <<sdkClient, connectPromise, down, phase, next, via, pc, id>>
        /\ call' = [call EXCEPT ![c] = "failed"]
    BY <1>3 DEF Timeout, wrapper, messages
  <2>2. NoneMade /\ NoneInitializes /\ NoneStarted /\ ClientsMove /\ NumbersMove
    BY <2>1 DEF NoneMade, NoneInitializes, NoneStarted, ClientsMove, NumbersMove
  <2>3. \A d \in Calls : call'[d] \in {call[d], "ok", "failed"}
    BY <2>1 DEF RetryInv, SessionTypes
  <2> QED BY <2>1, <2>2, <2>3, CallsGoOn DEF Moves
<1> QED BY <1>1, <1>2, <1>3

LEMMA ClientMoves ==
    ASSUME RetryInv, ClientInv, NEW n \in Clients, Started(n) \/ InitializeTimeout(n)
    PROVE  Moves
<1>1. /\ phase[n] # "none" /\ UNCHANGED <<call, via>>
      /\ phase[n] = "starting" => pc[Initialize(n)] = "none"
  BY MessageKinds DEF Started, InitializeTimeout, RetryInv, Unposted
<1>2. ASSUME ConnectFails({n})
      PROVE  ClientsMove /\ NoneMade /\ NoneInitializes
  <2>1. {n} \in SUBSET Clients /\ \A j \in {n} : phase[j] # "none" BY <1>1
  <2> QED BY <1>2, <2>1, ConnectFailsMoves
<1>3. \A d \in Calls : call'[d] \in {call[d], "ok", "failed"}
  BY <1>1 DEF RetryInv, SessionTypes
<1>4. CASE /\ phase' = [phase EXCEPT ![n] = "connected"] /\ sdkClient' = n
           /\ UNCHANGED <<connectPromise, down, next, pc, id>>
  <2>1. NoneMade /\ NoneInitializes /\ NoneStarted /\ NumbersMove
    BY <1>1, <1>4
    DEF NoneMade, NoneInitializes, NoneStarted, NumbersMove, RetryInv, SessionTypes
  <2>2. ClientsMove BY <1>1, <1>4, <2>1 DEF ClientsMove, NoneMade
  <2> QED BY <1>1, <1>3, <2>1, <2>2, CallsGoOn DEF Moves
<1>5. CASE ConnectFails({n}) /\ UNCHANGED pc
  <2>1. NoneStarted BY <1>5 DEF NoneStarted
  <2>2. CallsMove BY <1>1, <1>2, <1>3, <1>5, <2>1, CallsGoOn
  <2>3. \/ UNCHANGED <<next, id>>
        \/ /\ id' = [id EXCEPT ![Initialize(n)] = next[n]]
           /\ next' = [next EXCEPT ![n] = @ + 1]
           /\ phase[n] = "starting"
    BY DEF Started, InitializeTimeout, messages
  <2>4. NumbersMove
    BY <1>1, <1>5, <2>3, MessageKinds DEF NumbersMove, Numbered
  <2> QED BY <1>2, <1>5, <2>2, <2>4 DEF Moves
<1>6. CASE /\ phase[n] = "starting" /\ phase' = [phase EXCEPT ![n] = "initializing"]
           /\ id' = [id EXCEPT ![Initialize(n)] = next[n]]
           /\ next' = [next EXCEPT ![n] = @ + 1]
           /\ pc' = [pc EXCEPT ![Initialize(n)] = "starting"]
           /\ UNCHANGED <<sdkClient, connectPromise, down>>
  <2>1. \A q \in Messages : pc'[q] = IF q = Initialize(n) THEN "starting" ELSE pc[q]
    BY <1>6, MessageKinds DEF RetryInv, SessionTypes
  <2>2. \A q \in Requests : q \in Messages BY DEF Messages
  <2>3. NumbersMove
    BY <1>1, <1>6, <2>1, <2>2, MessageKinds DEF NumbersMove, Numbered
  <2>4. NoneMade BY <1>1, <1>6 DEF NoneMade, RetryInv, SessionTypes
  <2>5. ClientsMove BY <1>6, <2>4 DEF ClientsMove, NoneMade
  <2>6. \A j \in Clients : phase'[j] = "initializing" => phase[j] = "initializing" \/ j = n
    BY <1>6 DEF RetryInv, SessionTypes
  <2>7. \A j \in Clients : phase'[j] = "initializing" => pc'[Initialize(j)] # "none"
    BY <2>1, <2>6, MessageKinds DEF ClientInv, ClientsMade
  <2>8. \A c \in Calls : call'[c] = "waiting" => pc'[Call(c)] # "none"
    BY <1>1, <2>1, MessageKinds DEF ClientInv, ClientsMade
  <2>9. CallsMove BY <1>1, <2>7, <2>8 DEF CallsMove, ClientInv, ClientTypes
  <2> QED BY <2>3, <2>5, <2>9 DEF Moves
<1> QED
  <2>1. InitializeTimeout(n) => ConnectFails({n}) /\ UNCHANGED pc
    BY DEF InitializeTimeout, messages
  <2>2. Started(n) =>
          \/ ConnectFails({n}) /\ UNCHANGED pc
          \/ /\ phase' = [phase EXCEPT ![n] = "connected"] /\ sdkClient' = n
             /\ UNCHANGED <<connectPromise, down, next, pc, id>>
          \/ /\ phase[n] = "starting" /\ phase' = [phase EXCEPT ![n] = "initializing"]
             /\ id' = [id EXCEPT ![Initialize(n)] = next[n]]
             /\ next' = [next EXCEPT ![n] = @ + 1]
             /\ pc' = [pc EXCEPT ![Initialize(n)] = "starting"]
             /\ UNCHANGED <<sdkClient, connectPromise, down>>
    BY DEF Started
  <2> QED BY <1>4, <1>5, <1>6, <2>1, <2>2

LEMMA MessageMoves ==
    ASSUME RetryInv, ClientInv, NEW m \in Messages, Post(m) \/ PostReturns(m) \/ Answer(m)
    PROVE  Moves
<1>1. UNCHANGED <<id, next, via>>
  BY DEF Post, PostReturns, Accepted, Failed, Reset, Answer
<1>2. CASE SendFails(m) /\ pc[m] # "none"
  BY <1>1, <1>2, SendFailsMoves
<1>3. CASE /\ pc[m] # "none" /\ \E v \in {"posting", "starting"} : pc' = [pc EXCEPT ![m] = v]
           /\ UNCHANGED <<call, phase, sdkClient, connectPromise, down>>
  <2>1. NoneStarted /\ NoneMade /\ NoneInitializes
    BY <1>3 DEF NoneStarted, NoneMade, NoneInitializes, RetryInv, SessionTypes, Messages
  <2>2. ClientsMove /\ NumbersMove
    BY <1>1, <1>3, <2>1 DEF ClientsMove, NumbersMove, NoneMade, NoneStarted
  <2>3. \A c \in Calls : call'[c] \in {call[c], "ok", "failed"} BY <1>3
  <2> QED BY <1>1, <2>1, <2>2, <2>3, CallsGoOn DEF Moves
<1>4. CASE Post(m) BY <1>2, <1>3, <1>4 DEF Post
<1>5. CASE Accepted(m)
  <2> DEFINE sent == [pc EXCEPT ![m] = "sent"]
  <2>1. pc[m] = "posting" BY <1>5 DEF Accepted
  <2>2. CASE m \in Requests /\ Deliver(m, sent)
    BY <1>1, <2>1, <2>2, DeliverMoves
  <2>3. CASE /\ pc' = sent
             /\ phase' = [n \in Clients |->
                            IF m = Initialized(n) /\ phase[n] = "announcing"
                            THEN "connected" ELSE phase[n]]
             /\ sdkClient' = IF phase' = phase THEN sdkClient ELSE m[2]
             /\ UNCHANGED <<connectPromise, down, call>>
    <3>1. NoneStarted BY <2>1, <2>3 DEF NoneStarted, RetryInv, SessionTypes, Messages
    <3>2. NoneMade /\ NoneInitializes BY <2>3 DEF NoneMade, NoneInitializes
    <3>3. ClientsMove
      <4>1. CASE \A n \in Clients : phase'[n] = phase[n]
        <5>1. phase' = phase BY <2>3, <4>1 DEF RetryInv, SessionTypes
        <5> QED BY <2>3, <3>2, <5>1 DEF ClientsMove, NoneMade
      <4>2. CASE \E n \in Clients : phase'[n] # phase[n]
        <5>1. PICK n \in Clients : phase'[n] # phase[n] BY <4>2
        <5>2. m = Initialized(n) /\ phase[n] = "announcing" BY <2>3, <5>1
        <5>3. m[2] = n BY <5>2 DEF Initialized
        <5>4. sdkClient' = n /\ phase[n] # "none" BY <2>3, <5>1, <5>2, <5>3
        <5> QED BY <2>3, <3>2, <5>4 DEF ClientsMove, NoneMade
      <4> QED BY <4>1, <4>2
    <3>4. NumbersMove BY <1>1, <3>1 DEF NumbersMove, NoneStarted
    <3>5. \A c \in Calls : call'[c] \in {call[c], "ok", "failed"} BY <2>3
    <3> QED BY <1>1, <3>1, <3>2, <3>3, <3>4, <3>5, CallsGoOn DEF Moves
  <2> QED BY <1>5, <2>2, <2>3 DEF Accepted
<1>6. CASE Failed(m) BY <1>2, <1>6 DEF Failed
<1>7. CASE Reset(m) BY <1>2, <1>3, <1>7 DEF Reset
<1>8. CASE Answer(m)
  <2>1. m \in Requests /\ pc[m] # "none" BY <1>8 DEF Answer
  <2>2. CASE Deliver(m, pc) BY <1>1, <2>1, <2>2, DeliverMoves
  <2>3. CASE UNCHANGED <<wrapper, down, phase, call, pc>>
    <3>1. NoneStarted /\ NoneMade /\ NoneInitializes
      BY <2>3 DEF NoneStarted, NoneMade, NoneInitializes
    <3>2. ClientsMove /\ NumbersMove
      BY <1>1, <2>3, <3>1 DEF ClientsMove, NumbersMove, NoneMade, NoneStarted, wrapper
    <3>3. \A c \in Calls : call'[c] \in {call[c], "ok", "failed"} BY <2>3
    <3> QED BY <1>1, <3>1, <3>2, <3>3, CallsGoOn DEF Moves
  <2> QED BY <1>8, <2>2, <2>3 DEF Answer
<1> QED BY <1>4, <1>5, <1>6, <1>7, <1>8 DEF PostReturns

\* The client in use is given up without a close only when a stream has ended.
LEMMA SessionStepMoves ==
    ASSUME RetryInv, ClientInv, NEW k \in Sessions,
           GetAnswered(k) \/ Endpoint(k) \/ StreamEnds(k) \/ Forget(k)
    PROVE  Moves
<1>1. UNCHANGED <<id, next, via, pc, call, phase, down>>
  BY DEF GetAnswered, Endpoint, StreamEnds, Forget, messages
<1>2. \/ UNCHANGED <<sdkClient, connectPromise>>
      \/ sdkClient' = 0 /\ connectPromise' = 0 /\ ~Intact'
  <2>1. StreamEnds(k) => \/ session'[k] \in {"broken", "ended"}
                         \/ UNCHANGED <<sdkClient, connectPromise>>
    BY StreamMoves DEF RetryInv, SessionTypes
  <2>2. StreamEnds(k) => ~Intact' \/ UNCHANGED <<sdkClient, connectPromise>>
    BY <2>1 DEF Intact
  <2> QED BY <2>2 DEF GetAnswered, Endpoint, StreamEnds, Forget, wrapper
<1>3. NoneStarted /\ NoneMade /\ NoneInitializes
  BY <1>1 DEF NoneStarted, NoneMade, NoneInitializes
<1>4. ClientsMove /\ NumbersMove
  BY <1>1, <1>2, <1>3 DEF ClientsMove, NumbersMove, NoneMade, NoneStarted
<1>5. \A c \in Calls : call'[c] \in {call[c], "ok", "failed"} BY <1>1
<1> QED BY <1>1, <1>3, <1>4, <1>5, CallsGoOn DEF Moves

LEMMA CloseMoves == ASSUME RetryInv, ClientInv, Close \/ CloseDone PROVE Moves
<1>1. UNCHANGED <<id, next, via, pc>> BY DEF Close, CloseDone, messages
<1>2. NoneStarted BY <1>1 DEF NoneStarted
<1>3. \A c \in Calls : call'[c] \in {call[c], "ok", "failed"}
  BY DEF Close, CloseDone
<1>4. NoneMade /\ NoneInitializes
  BY DEF Close, CloseDone, NoneMade, NoneInitializes
<1>5. ClientsMove
  <2>1. down' \in {"closing", "closed", down} /\ down' # "up"
    BY DEF Close, CloseDone, ClientInv, ClientTypes
  <2>2. \/ UNCHANGED <<sdkClient, connectPromise>>
        \/ sdkClient' = 0 /\ connectPromise' = 0
    BY DEF Close, CloseDone
  <2> QED BY <1>4, <2>1, <2>2 DEF ClientsMove, NoneMade
<1>6. NumbersMove BY <1>1, <1>2 DEF NumbersMove, NoneStarted
<1> QED BY <1>1, <1>2, <1>3, <1>4, <1>5, <1>6, CallsGoOn DEF Moves

LEMMA NextMoves == ASSUME RetryInv, ClientInv, [Next]_vars PROVE Moves
<1>1. CASE UNCHANGED vars
  <2>1. NoneStarted /\ NoneMade /\ NoneInitializes
    BY <1>1 DEF vars, messages, NoneStarted, NoneMade, NoneInitializes
  <2>2. ClientsMove /\ NumbersMove
    BY <1>1, <2>1 DEF ClientsMove, NumbersMove, NoneMade, NoneStarted, vars, wrapper, messages
  <2>3. \A c \in Calls : call'[c] \in {call[c], "ok", "failed"} BY <1>1 DEF vars
  <2>4. via' = via BY <1>1 DEF vars
  <2> QED BY <2>1, <2>2, <2>3, <2>4, CallsGoOn DEF Moves
<1>2. CASE \E c \in Calls : Send(c) \/ Request(c) \/ Timeout(c) BY <1>2, CallMoves
<1>3. CASE \E n \in Clients : Started(n) \/ InitializeTimeout(n) BY <1>3, ClientMoves
<1>4. CASE \E m \in Messages : Post(m) \/ PostReturns(m) \/ Answer(m) BY <1>4, MessageMoves
<1>5. CASE \E k \in Sessions :
             GetAnswered(k) \/ Endpoint(k) \/ StreamEnds(k) \/ Forget(k)
  BY <1>5, SessionStepMoves
<1>6. CASE Close \/ CloseDone BY <1>6, CloseMoves
<1> QED BY <1>1, <1>2, <1>3, <1>4, <1>5, <1>6 DEF Next

\* As long as there is one client no number is given twice.
LEMMA NumbersStep ==
    ASSUME ClientTypes, NumbersMove
    PROVE  /\ next' \in [Clients -> Nat] /\ id' \in [Requests -> Nat]
           /\ (\A n \in Clients : phase[n] # "none" => n = 1) /\ NumbersFit => NumbersFit'
<1>1. CASE UNCHANGED <<id, next>> /\ \A q \in Requests : pc'[q] = "none" <=> pc[q] = "none"
  BY <1>1 DEF ClientTypes, NumbersFit
<1>2. CASE \E r \in Requests, n \in Clients : Numbered(r, n)
  <2>1. PICK r \in Requests, n \in Clients : Numbered(r, n) BY <1>2
  <2>2. /\ next[n] \in Nat /\ id' = [id EXCEPT ![r] = next[n]]
        /\ next' = [next EXCEPT ![n] = next[n] + 1]
    BY <2>1 DEF Numbered, ClientTypes
  <2>3. next' \in [Clients -> Nat] /\ id' \in [Requests -> Nat]
    BY <2>2 DEF ClientTypes
  <2>4. ASSUME \A j \in Clients : phase[j] # "none" => j = 1, NumbersFit
        PROVE  NumbersFit'
    <3>1. n = 1 /\ next'[1] = next[1] + 1 /\ next[1] \in Nat
      BY <2>1, <2>2, <2>4 DEF Numbered, ClientTypes
    <3>2. \A q \in Requests : id'[q] = IF q = r THEN next[1] ELSE id[q]
      BY <2>2, <3>1 DEF ClientTypes
    <3>3. \A q \in Requests : id[q] \in Nat BY DEF ClientTypes
    <3>4. \A q \in Requests : q # r /\ pc'[q] # "none" => id[q] < next[1]
      BY <2>1, <2>4 DEF Numbered, NumbersFit
    <3>5. \A q \in Requests : pc'[q] # "none" => id'[q] < next'[1]
      BY <3>1, <3>2, <3>3, <3>4
    <3>6. \A p, q \in Requests : p # r /\ q # r /\ pc'[p] # "none" /\ pc'[q] # "none"
             /\ id'[p] = id'[q] => p = q
      BY <2>1, <2>4, <3>2 DEF Numbered, NumbersFit
    <3>7. \A q \in Requests : q # r /\ pc'[q] # "none" => id'[q] # id'[r]
      BY <3>1, <3>2, <3>3, <3>4
    <3> QED BY <3>5, <3>6, <3>7 DEF NumbersFit
  <2> QED BY <2>3, <2>4
<1> QED BY <1>1, <1>2 DEF NumbersMove

\* A client is made when there is none, and the one in use is given up only when no
\* other can be made.
LEMMA ClientsStep ==
    ASSUME RetryInv, ClientTypes, ClientsMade, ClientsMove
    PROVE  /\ down' \in {"up", "closing", "closed"}
           /\ sdkClient' \in Clients \cup {0} /\ connectPromise' \in Clients \cup {0}
           /\ \A n \in Clients : phase[n] # "none" => phase'[n] # "none"
           /\ sdkClient' # 0 => phase'[sdkClient'] # "none"
           /\ connectPromise' # 0 => phase'[connectPromise'] # "none"
           /\ Single /\ Intact' => Single'
<1>1. 0 \notin Clients BY DEF Clients
<1>2. CASE \E n \in Clients : Made(n)
  <2>1. PICK n \in Clients : Made(n) BY <1>2
  <2>2. /\ connectPromise' = n /\ sdkClient' = sdkClient /\ down' = down
        /\ \A j \in Clients : phase'[j] = IF j = n THEN "starting" ELSE phase[j]
    BY <2>1 DEF Made, RetryInv, SessionTypes
  <2>3. ASSUME Single PROVE Single'
    <3>1. \A j \in Clients : phase[j] = "none" BY <2>1, <2>3 DEF Made, Single
    <3>2. n = 1
      <4>1. 1 \in Clients /\ n \in Nat /\ (n # 1 => 1 \in 1 .. n - 1)
        BY McpAssumption, FS_CardinalityType DEF Clients
      <4> QED BY <2>1, <3>1, <4>1 DEF Made
    <3>3. Shared' # 0 BY <1>1, <2>2 DEF Shared
    <3> QED BY <2>2, <3>1, <3>2, <3>3 DEF Single
  <2> QED BY <1>1, <2>2, <2>3 DEF ClientTypes, ClientsMade
<1>3. CASE /\ \A n \in Clients : phase'[n] = "none" <=> phase[n] = "none"
           /\ down' \in {down, "closing", "closed"} /\ (down # "up" => down' # "up")
           /\ \/ UNCHANGED <<sdkClient, connectPromise>>
              \/ \E n \in Clients :
                    sdkClient' = n /\ phase[n] # "none" /\ connectPromise' = connectPromise
              \/ sdkClient' = 0 /\ connectPromise' = 0 /\ (down' # "up" \/ ~Intact')
  <2>1. /\ down' \in {"up", "closing", "closed"}
        /\ sdkClient' \in Clients \cup {0} /\ connectPromise' \in Clients \cup {0}
    BY <1>3 DEF ClientTypes
  <2>2. /\ sdkClient' # 0 => phase'[sdkClient'] # "none"
        /\ connectPromise' # 0 => phase'[connectPromise'] # "none"
    BY <1>1, <1>3 DEF ClientTypes, ClientsMade
  <2>3. ASSUME Single, Intact' PROVE Single'
    BY <1>1, <1>3, <2>3 DEF Single, Shared
  <2> QED BY <1>3, <2>1, <2>2, <2>3
<1> QED BY <1>2, <1>3 DEF ClientsMove

LEMMA ClientStepKeeps ==
    ASSUME RetryInv, ClientInv, [Next]_vars PROVE ClientInv'
<1>1. NumbersMove /\ ClientsMove /\ CallsMove BY NextMoves DEF Moves
<1>2. ClientTypes' BY <1>1, NumbersStep, ClientsStep DEF ClientInv, ClientTypes, CallsMove
<1>3. ClientsMade'
  <2>1. \A c \in Calls : call'[c] = "connecting" => via'[c] # 0 /\ phase'[via'[c]] # "none"
    <3> SUFFICES ASSUME NEW c \in Calls, call'[c] = "connecting"
                 PROVE via'[c] # 0 /\ phase'[via'[c]] # "none"
      OBVIOUS
    <3>1. \/ call[c] = "connecting" /\ via'[c] = via[c]
          \/ via'[c] \in Clients /\ phase'[via'[c]] # "none"
      BY <1>1 DEF CallsMove
    <3>2. CASE call[c] = "connecting" /\ via'[c] = via[c]
      <4>1. via[c] \in Clients /\ phase[via[c]] # "none" /\ 0 \notin Clients
        BY <3>2 DEF ClientInv, ClientTypes, ClientsMade, Clients
      <4> QED BY <1>1, <3>2, <4>1, ClientsStep DEF ClientInv
    <3>3. CASE via'[c] \in Clients /\ phase'[via'[c]] # "none" BY <3>3 DEF Clients
    <3> QED BY <3>1, <3>2, <3>3
  <2> QED BY <1>1, <2>1, ClientsStep DEF ClientInv, ClientsMade, CallsMove
<1>4. ASSUME Intact' PROVE OneClient'
  <2>1. Single /\ NumbersFit /\ \A c \in Calls : call[c] # "wrong"
    <3>1. OneClient BY <1>4, StaysBroken DEF ClientInv
    <3> QED BY <3>1 DEF OneClient, Single, NumbersFit
  <2>2. Single' BY <1>1, <1>4, <2>1, ClientsStep DEF ClientInv
  <2>3. NumbersFit' BY <1>1, <2>1, NumbersStep DEF ClientInv, Single
  <2>4. \A c \in Calls : call'[c] # "wrong"
    BY <1>1, <2>1, MessageKinds DEF CallsMove, NumbersFit
  <2> QED BY <2>2, <2>3, <2>4 DEF OneClient, Single, NumbersFit
<1> QED BY <1>2, <1>3, <1>4 DEF ClientInv

LEMMA ClientInit == ASSUME Init PROVE ClientInv
<1>1. ClientTypes BY DEF Init, ClientTypes
<1>2. ClientsMade BY DEF Init, ClientsMade
<1>3. OneClient
  <2>1. \A q \in Requests : pc[q] = "none" BY DEF Init, Messages
  <2> QED BY <2>1 DEF Init, OneClient, Single, NumbersFit
<1> QED BY <1>1, <1>2, <1>3 DEF ClientInv

\* However answers, retries, timeouts and closes interleave, a call gets its own
\* answer or fails, as long as no stream has ended.
THEOREM OwnAnswers == Spec => []AnswersMatch
<1>1. RetryInv /\ ClientInv => AnswersMatch
  BY DEF ClientInv, OneClient, Intact, AnswersMatch
<1>2. Init => RetryInv /\ ClientInv BY RetryInit, ClientInit
<1>3. RetryInv /\ ClientInv /\ [Next]_vars => RetryInv' /\ ClientInv'
  BY RetryStep, ClientStepKeeps
<1> QED BY <1>1, <1>2, <1>3, PTL DEF Spec
===============================================================================
