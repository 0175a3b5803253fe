---------------------------- MODULE JsonStore_proofs ----------------------------
(***************************************************************************)
(* Proofs about a service over RumJsJsonStore, for any number of calls and *)
(* faults: what was answered is stored, and the service implements the     *)
(* atomic store, whose promise ends with the first loss.                   *)
(***************************************************************************)
EXTENDS JsonStore, TLAPS

-------------------------------------------------------------------------------
(* The chain of operations                                                   *)

\* The types of all variables.
Types ==
    /\ file \in {{}} \cup {{S} : S \in SUBSET Calls} /\ default \in SUBSET Calls
    /\ queue \in Seq(Calls) /\ value \in {{}} \cup {{S} : S \in SUBSET Calls}
    /\ call \in [Calls -> {"idle", "waiting", "done", "failed"}]
    /\ op \in [Calls -> {"add", "list"}] /\ result \in [Calls -> SUBSET Calls]
    /\ faults \in [read : Nat, write : Nat, early : Nat, crash : Nat]

\* The chain holds the calls that wait, each once.
Chain ==
    /\ \A i \in 1 .. Len(queue) : call[queue[i]] = "waiting"
    /\ \A i, j \in 1 .. Len(queue) : queue[i] = queue[j] => i = j
    /\ \A c \in Calls : call[c] = "waiting" => \E i \in 1 .. Len(queue) : queue[i] = c

\* Only the first operation of the chain has a value at hand, with its entry in it.
Working ==
    value # {} => /\ queue # <<>> /\ op[Head(queue)] = "add"
                  /\ Head(queue) \in UNION value

Inv == Types /\ Chain /\ Working

\* The first of a chain is a call that waits.
LEMMA HeadWaits ==
    ASSUME Types, Chain, queue # <<>>
    PROVE  /\ Head(queue) \in Calls /\ call[Head(queue)] = "waiting"
           /\ Head(queue) = queue[1] /\ 1 \in 1 .. Len(queue)
<1>1. queue \in Seq(Calls) BY DEF Types
<1>2. Len(queue) \in Nat /\ Len(queue) # 0 BY <1>1
<1>3. Head(queue) = queue[1] /\ 1 \in 1 .. Len(queue) BY <1>1, <1>2
<1>4. Head(queue) \in Calls BY <1>1, <1>3
<1> QED BY <1>3, <1>4 DEF Chain

\* When the first operation is over, the chain holds the calls that still wait.
LEMMA OverChain ==
    ASSUME Types, Chain, queue # <<>>,
           NEW how \in {"done", "failed"}, Over(Head(queue), how)
    PROVE  /\ queue' \in Seq(Calls) /\ value' = {}
           /\ call' \in [Calls -> {"idle", "waiting", "done", "failed"}]
           /\ Chain'
<1>1. /\ Head(queue) \in Calls /\ Head(queue) = queue[1] /\ 1 \in 1 .. Len(queue)
  BY HeadWaits
<1>2. /\ queue \in Seq(Calls) /\ queue' = Tail(queue) /\ value' = {}
      /\ call' = [call EXCEPT ![Head(queue)] = how]
  BY DEF Types, Over
<1>3. /\ queue' \in Seq(Calls) /\ Len(queue') = Len(queue) - 1
      /\ \A i \in 1 .. Len(queue') : queue'[i] = queue[i + 1] /\ i + 1 \in 1 .. Len(queue)
  BY <1>1, <1>2
<1>4. call' \in [Calls -> {"idle", "waiting", "done", "failed"}]
  BY <1>1, <1>2 DEF Types
<1>5. ASSUME NEW i \in 1 .. Len(queue') PROVE call'[queue'[i]] = "waiting"
  <2>1. queue'[i] = queue[i + 1] /\ i + 1 \in 1 .. Len(queue) /\ i + 1 # 1 BY <1>3
  <2>2. queue[i + 1] # queue[1] BY <1>1, <2>1 DEF Chain
  <2>3. queue[i + 1] \in Calls BY <1>2, <2>1
  <2> QED BY <1>1, <1>2, <2>1, <2>2, <2>3 DEF Chain, Types
<1>6. ASSUME NEW i \in 1 .. Len(queue'), NEW j \in 1 .. Len(queue'), queue'[i] = queue'[j]
      PROVE  i = j
  <2>1. queue[i + 1] = queue[j + 1] BY <1>3, <1>6
  <2>2. i + 1 = j + 1 BY <1>3, <2>1 DEF Chain
  <2> QED BY <2>2
<1>7. ASSUME NEW c \in Calls, call'[c] = "waiting"
      PROVE  \E i \in 1 .. Len(queue') : queue'[i] = c
  <2>1. c # Head(queue) /\ call[c] = "waiting" BY <1>1, <1>2, <1>7 DEF Types
  <2>2. PICK k \in 1 .. Len(queue) : queue[k] = c BY <2>1 DEF Chain
  <2>3. k # 1 BY <1>1, <2>1, <2>2
  <2>4. Len(queue) \in Nat BY <1>2
  <2>5. k - 1 \in 1 .. Len(queue') /\ (k - 1) + 1 = k BY <1>3, <2>2, <2>3, <2>4
  <2> QED BY <1>3, <2>2, <2>5
<1> QED BY <1>2, <1>3, <1>4, <1>5, <1>6, <1>7 DEF Chain

\* A request is the last of the chain, and the first one stays where it is.
LEMMA RequestChain ==
    ASSUME Types, Chain, NEW c \in Calls, Request(c)
    PROVE  /\ queue' \in Seq(Calls) /\ Chain'
           /\ queue # <<>> => queue' # <<>> /\ Head(queue') = Head(queue)
                              /\ Head(queue) # c
<1>1. /\ queue \in Seq(Calls) /\ queue' = Append(queue, c) /\ call[c] = "idle"
      /\ call' = [call EXCEPT ![c] = "waiting"]
      /\ call \in [Calls -> {"idle", "waiting", "done", "failed"}]
  BY DEF Types, Request
<1>2. /\ queue' \in Seq(Calls) /\ Len(queue') = Len(queue) + 1 /\ Len(queue) \in Nat
      /\ \A i \in 1 .. Len(queue) : queue'[i] = queue[i] /\ queue[i] \in Calls
      /\ queue'[Len(queue) + 1] = c
  BY <1>1
<1>3. \A i \in 1 .. Len(queue) : queue[i] # c BY <1>1 DEF Chain
<1>4. ASSUME NEW i \in 1 .. Len(queue') PROVE call'[queue'[i]] = "waiting"
  <2>1. CASE i = Len(queue) + 1 BY <1>1, <1>2, <2>1
  <2>2. CASE i \in 1 .. Len(queue) BY <1>1, <1>2, <1>3, <2>2 DEF Chain
  <2> QED BY <1>2, <2>1, <2>2
<1>5. ASSUME NEW i \in 1 .. Len(queue'), NEW j \in 1 .. Len(queue'), queue'[i] = queue'[j]
      PROVE  i = j
  <2>1. CASE i \in 1 .. Len(queue) /\ j \in 1 .. Len(queue)
    BY <1>2, <1>5, <2>1 DEF Chain
  <2>2. CASE i = Len(queue) + 1 \/ j = Len(queue) + 1 BY <1>2, <1>3, <1>5, <2>2
  <2> QED BY <1>2, <2>1, <2>2
<1>6. ASSUME NEW d \in Calls, call'[d] = "waiting"
      PROVE  \E i \in 1 .. Len(queue') : queue'[i] = d
  <2>1. CASE d = c BY <1>2, <2>1
  <2>2. CASE d # c
    <3>1. PICK k \in 1 .. Len(queue) : queue[k] = d BY <1>1, <1>6, <2>2 DEF Chain
    <3> QED BY <1>2, <3>1
  <2> QED BY <2>1, <2>2
<1>7. queue # <<>> => queue' # <<>> /\ Head(queue') = Head(queue) /\ Head(queue) # c
  <2> SUFFICES ASSUME queue # <<>>
               PROVE queue' # <<>> /\ Head(queue') = Head(queue) /\ Head(queue) # c
    OBVIOUS
  <2>1. Head(queue) = queue[1] /\ 1 \in 1 .. Len(queue) BY HeadWaits
  <2>2. Head(queue') = queue'[1] /\ queue' # <<>> BY <1>1, <1>2
  <2> QED BY <1>2, <1>3, <2>1, <2>2
<1> QED BY <1>2, <1>4, <1>5, <1>6, <1>7 DEF Chain

-------------------------------------------------------------------------------
(* What was answered is stored                                               *)

\* While no read failed, an operation has the stored entries in its value, so that
\* writing the value loses none; and the entry of a call that was answered is stored.
Keeping ==
    faults.read = 0 => /\ value # {} => Entries \subseteq UNION value
                       /\ \A c \in Calls : call[c] = "done" /\ op[c] = "add" => c \in Entries

\* What the file holds at first was added by calls that are done.
LEMMA StoreInit == Init => Inv /\ Keeping
<1> SUFFICES ASSUME Init PROVE Inv /\ Keeping OBVIOUS
<1>1. file \in {{}} \cup {{S} : S \in SUBSET Calls} BY JsonStoreAssumption DEF Init
<1>2. queue = <<>> /\ queue \in Seq(Calls) /\ Len(queue) = 0 /\ value = {} BY DEF Init
<1>3. /\ call \in [Calls -> {"idle", "waiting", "done", "failed"}]
      /\ op \in [Calls -> {"add", "list"}] /\ result \in [Calls -> SUBSET Calls]
      /\ faults \in [read : Nat, write : Nat, early : Nat, crash : Nat] /\ default \in SUBSET Calls
  BY DEF Init
<1>4. Types BY <1>1, <1>2, <1>3 DEF Types
<1>5. \A c \in Calls : call[c] # "waiting" BY DEF Init
<1>6. Chain /\ Working BY <1>2, <1>5 DEF Chain, Working
<1>7. Keeping BY <1>2 DEF Keeping, Init
<1> QED BY <1>4, <1>6, <1>7 DEF Inv

\* What an operation reads is a set of entries.
LEMMA GotEntries ==
    ASSUME Types, Chain, value = {}, queue # <<>>, NEW content \in SUBSET Calls,
           NEW isDefault \in BOOLEAN, Got(content, isDefault), UNCHANGED <<file, op>>,
           faults' \in [read : Nat, write : Nat, early : Nat, crash : Nat],
           faults'.read = 0 => Entries \subseteq content /\ faults.read = 0
    PROVE  Inv' /\ (Keeping => Keeping')
<1> DEFINE c == Head(queue)
<1>1. c \in Calls /\ call[c] = "waiting" BY HeadWaits
<1>2. op[c] \in {"add", "list"} BY <1>1 DEF Types
<1>3. CASE op[c] = "list"
  <2>1. /\ result' = [result EXCEPT ![c] = content] /\ Over(c, "done")
        /\ UNCHANGED default
    BY <1>3 DEF Got
  <2>2. /\ queue' \in Seq(Calls) /\ value' = {} /\ Chain'
        /\ call' \in [Calls -> {"idle", "waiting", "done", "failed"}]
    BY <2>1, OverChain
  <2>3. Types' BY <1>1, <2>1, <2>2 DEF Types
  <2>4. Working' BY <2>2 DEF Working
  <2>5. ASSUME Keeping, faults'.read = 0, NEW d \in Calls, call'[d] = "done",
               op'[d] = "add"
        PROVE  d \in Entries'
    <3>1. d # c BY <1>3, <2>5
    <3>2. call[d] = "done" BY <2>1, <2>5, <3>1 DEF Over, Types
    <3> QED BY <2>5, <3>2 DEF Keeping, Entries
  <2> QED BY <2>2, <2>3, <2>4, <2>5 DEF Inv, Keeping
<1>4. CASE op[c] = "add"
  <2>1. /\ value' = {content \cup {c}} /\ UNCHANGED <<queue, call, result>>
        /\ default' = IF isDefault THEN content \cup {c} ELSE default
    BY <1>4 DEF Got
  <2>2. content \cup {c} \in SUBSET Calls BY <1>1
  <2>3. Types' BY <2>1, <2>2 DEF Types
  <2>4. Chain' BY <2>1 DEF Chain
  <2>5. UNION value' = content \cup {c} BY <2>1
  <2>6. Working' BY <1>4, <2>1, <2>5 DEF Working
  <2>7. Keeping => Keeping' BY <2>1, <2>5 DEF Keeping, Entries
  <2> QED BY <2>3, <2>4, <2>6, <2>7 DEF Inv
<1> QED BY <1>2, <1>3, <1>4

\* A failing write is counted, and as an early one if there is no file.
LEMMA FaultCounts ==
    ASSUME Types, WriteFault
    PROVE  /\ faults' \in [read : Nat, write : Nat, early : Nat, crash : Nat]
           /\ faults'.read = faults.read
           /\ faults'.early = IF file = {} THEN faults.early + 1 ELSE faults.early
<1>1. faults \in [read : Nat, write : Nat, early : Nat, crash : Nat] BY DEF Types
<1>2. CASE file = {}
  <2>1. faults' = [faults EXCEPT !.early = @ + 1] BY <1>2 DEF WriteFault
  <2> QED BY <1>1, <1>2, <2>1
<1>3. CASE file # {}
  <2>1. faults' = [faults EXCEPT !.write = @ + 1] BY <1>3 DEF WriteFault
  <2> QED BY <1>1, <1>3, <2>1
<1> QED BY <1>2, <1>3

\* Every step keeps the chain in order and what was answered stored.
LEMMA StoreNext == Inv /\ [Next]_vars => Inv' /\ (Keeping => Keeping')
<1> SUFFICES ASSUME Inv, [Next]_vars PROVE Inv' /\ (Keeping => Keeping') OBVIOUS
<1>0. Types /\ Chain /\ Working BY DEF Inv
<1>1. faults \in [read : Nat, write : Nat, early : Nat, crash : Nat] BY <1>0 DEF Types
<1>2. ASSUME NEW c \in Calls, Request(c) PROVE Inv' /\ (Keeping => Keeping')
  <2>1. /\ queue' \in Seq(Calls) /\ Chain'
        /\ queue # <<>> => queue' # <<>> /\ Head(queue') = Head(queue) /\ Head(queue) # c
    BY <1>0, <1>2, RequestChain
  <2>2. /\ call[c] = "idle" /\ call' = [call EXCEPT ![c] = "waiting"]
        /\ UNCHANGED <<file, default, value, result, faults>>
    BY <1>2 DEF Request
  <2>3. PICK o \in {"add", "list"} : op' = [op EXCEPT ![c] = o] BY <1>2 DEF Request
  <2>4. Types' BY <1>0, <2>1, <2>2, <2>3 DEF Types
  <2>5. Working'
    <3> SUFFICES ASSUME value' # {}
                 PROVE  /\ queue' # <<>> /\ op'[Head(queue')] = "add"
                        /\ Head(queue') \in UNION value'
      BY DEF Working
    <3>1. /\ queue # <<>> /\ op[Head(queue)] = "add" /\ Head(queue) \in UNION value
      BY <1>0, <2>2 DEF Working
    <3>2. Head(queue) \in Calls BY <1>0, <3>1, HeadWaits
    <3> QED BY <1>0, <2>1, <2>2, <2>3, <3>1, <3>2 DEF Types
  <2>6. Keeping => Keeping' BY <1>0, <2>2, <2>3 DEF Types, Keeping, Entries
  <2> QED BY <2>1, <2>4, <2>5, <2>6 DEF Inv
<1>3. CASE Read
  <2>1. queue # <<>> /\ value = {} /\ UNCHANGED <<file, op, faults>> BY <1>3 DEF Read
  <2>2. CASE file = {}
    <3>1. Got(default, TRUE) BY <1>3, <2>2 DEF Read
    <3>2. default \in SUBSET Calls BY <1>0 DEF Types
    <3>3. Entries = {} BY <2>2 DEF Entries
    <3> QED BY <1>0, <1>1, <2>1, <3>1, <3>2, <3>3, GotEntries
  <2>3. CASE file # {}
    <3>1. Got(Entries, FALSE) BY <1>3, <2>3 DEF Read
    <3>2. Entries \in SUBSET Calls BY <1>0 DEF Types, Entries
    <3> QED BY <1>0, <1>1, <2>1, <3>1, <3>2, GotEntries
  <2> QED BY <2>2, <2>3
<1>4. CASE ReadFails
  <2>1. /\ queue # <<>> /\ value = {} /\ faults' = [faults EXCEPT !.read = @ + 1]
        /\ Got(default, TRUE) /\ UNCHANGED <<file, op>>
    BY <1>4 DEF ReadFails
  <2>2. /\ faults' \in [read : Nat, write : Nat, early : Nat, crash : Nat]
        /\ faults'.read # 0
    BY <1>1, <2>1
  <2>3. default \in SUBSET Calls BY <1>0 DEF Types
  <2> QED BY <1>0, <2>1, <2>2, <2>3, GotEntries
<1>5. CASE Write
  <2>1. /\ queue # <<>> /\ value # {} /\ file' = value /\ Over(Head(queue), "done")
        /\ UNCHANGED <<default, op, result, faults>>
    BY <1>5 DEF Write
  <2>2. /\ queue' \in Seq(Calls) /\ value' = {} /\ Chain'
        /\ call' \in [Calls -> {"idle", "waiting", "done", "failed"}]
    BY <1>0, <2>1, OverChain
  <2>3. Types' BY <1>0, <2>1, <2>2 DEF Types
  <2>4. Working' BY <2>2 DEF Working
  <2>5. ASSUME Keeping, faults'.read = 0, NEW d \in Calls, call'[d] = "done",
               op'[d] = "add"
        PROVE  d \in Entries'
    <3>1. Entries' = UNION value /\ Entries \subseteq UNION value
      BY <2>1, <2>5 DEF Entries, Keeping
    <3>2. CASE d = Head(queue) BY <1>0, <2>1, <3>1, <3>2 DEF Working
    <3>3. CASE d # Head(queue)
      <4>1. call[d] = "done" /\ op[d] = "add" BY <1>0, <2>1, <2>5, <3>3 DEF Over, Types
      <4> QED BY <2>1, <2>5, <3>1, <4>1 DEF Keeping
    <3> QED BY <3>2, <3>3
  <2> QED BY <2>2, <2>3, <2>4, <2>5 DEF Inv, Keeping
<1>6. CASE WriteFails
  <2>1. /\ queue # <<>> /\ value # {} /\ WriteFault
        /\ Over(Head(queue), "failed") /\ UNCHANGED <<file, default, op, result>>
    BY <1>6 DEF WriteFails
  <2>2. /\ queue' \in Seq(Calls) /\ value' = {} /\ Chain'
        /\ call' \in [Calls -> {"idle", "waiting", "done", "failed"}]
    BY <1>0, <2>1, OverChain
  <2>3. /\ faults' \in [read : Nat, write : Nat, early : Nat, crash : Nat]
        /\ faults'.read = faults.read
    BY <1>0, <2>1, FaultCounts
  <2>4. Types' BY <1>0, <2>1, <2>2, <2>3 DEF Types
  <2>5. Working' BY <2>2 DEF Working
  <2>6. \A d \in Calls : call'[d] = "done" => call[d] = "done"
    BY <1>0, <2>1 DEF Over, Types
  <2>7. Keeping => Keeping' BY <2>1, <2>2, <2>3, <2>6 DEF Keeping, Entries
  <2> QED BY <2>2, <2>4, <2>5, <2>7 DEF Inv
<1>7. CASE Crash
  <2>1. /\ faults' = [faults EXCEPT !.crash = @ + 1]
        /\ (file' = file \/ (value # {} /\ file' = value))
        /\ default' = {} /\ queue' = <<>> /\ value' = {} /\ UNCHANGED <<op, result>>
        /\ call' = [c \in Calls |-> IF call[c] = "waiting" THEN "failed" ELSE call[c]]
    BY <1>7 DEF Crash
  <2>2. /\ faults' \in [read : Nat, write : Nat, early : Nat, crash : Nat]
        /\ faults'.read = faults.read
    BY <1>1, <2>1
  <2>3. queue' \in Seq(Calls) /\ Len(queue') = 0 BY <2>1
  <2>4. call' \in [Calls -> {"idle", "waiting", "done", "failed"}] BY <1>0, <2>1 DEF Types
  <2>5. Types' BY <1>0, <2>1, <2>2, <2>3, <2>4 DEF Types
  <2>6. \A d \in Calls : call'[d] # "waiting" /\ (call'[d] = "done" => call[d] = "done")
    BY <1>0, <2>1 DEF Types
  <2>7. Chain' /\ Working' BY <2>1, <2>3, <2>6 DEF Chain, Working
  <2>8. Keeping => Keeping' BY <2>1, <2>2, <2>6 DEF Keeping, Entries
  <2> QED BY <2>5, <2>7, <2>8 DEF Inv
<1>8. CASE UNCHANGED vars
  <2>1. UNCHANGED <<file, default, queue, value, call, op, result, faults>>
    BY <1>8 DEF vars
  <2> QED BY <1>0, <2>1 DEF Inv, Types, Chain, Working, Keeping, Entries
<1> QED BY <1>2, <1>3, <1>4, <1>5, <1>6, <1>7, <1>8 DEF Next

\* Whatever reads, writes and processes fail and whatever the file held at first, a
\* call that was answered has its entry in the file, unless a read failed before
\* (RumJsJsonStore.read answers with the default value).
THEOREM AnsweredIsStored == Spec => []DoneIsStored
<1>1. Inv /\ Keeping /\ [Next]_vars => (Inv /\ Keeping)' BY StoreNext
<1>2. Keeping => DoneIsStored BY DEF Keeping, DoneIsStored
<1> QED BY <1>1, <1>2, StoreInit, PTL DEF Spec

-------------------------------------------------------------------------------
(* The service implements the atomic store                                   *)

\* As long as nothing is lost, the value at hand is what the file holds and the entry
\* of the first operation, and without a file one that has not read yet finds nothing.
Faithful ==
    \/ Lost
    \/ /\ value # {} => value = {Entries \cup {Head(queue)}}
       /\ file = {} /\ value = {} => default = {}

\* The conditions on the value and the file hold at first.
LEMMA FaithfulInit == Init => Faithful
BY DEF Init, Faithful

\* What is lost stays lost.
LEMMA LostStays ==
    ASSUME Types, [Next]_vars, ~Lost'
    PROVE  ~Lost /\ ~ReadFails
<1>0. faults \in [read : Nat, write : Nat, early : Nat, crash : Nat] BY DEF Types
<1>1. faults' = faults \/ Read \/ ReadFails \/ Write \/ WriteFails \/ Crash
  BY DEF Next, Request, vars
<1>2. ~ReadFails
  <2> SUFFICES ASSUME ReadFails PROVE FALSE OBVIOUS
  <2>1. faults'.read = faults.read + 1 /\ faults.read \in Nat BY <1>0 DEF ReadFails
  <2> QED BY <2>1 DEF Lost
<1>3. CASE faults' = faults \/ Read \/ Write
  <2>1. faults' = faults BY <1>3 DEF Read, Write
  <2> QED BY <1>2, <2>1 DEF Lost
<1>4. CASE WriteFails
  <2>1. /\ faults'.read = faults.read
        /\ faults'.early = faults.early \/ faults'.early = faults.early + 1
    BY <1>4, FaultCounts DEF WriteFails
  <2> QED BY <1>0, <1>2, <2>1 DEF Lost
<1>5. CASE Crash
  <2>1. faults'.read = faults.read /\ faults'.early = faults.early
    BY <1>0, <1>5 DEF Crash
  <2> QED BY <1>2, <2>1 DEF Lost
<1> QED BY <1>1, <1>2, <1>3, <1>4, <1>5

\* A write that fails and loses nothing fails over a file.
LEMMA FailsOverFile ==
    ASSUME Types, WriteFails, ~Lost'
    PROVE  file # {}
<1> SUFFICES ASSUME file = {} PROVE FALSE OBVIOUS
<1>1. faults \in [read : Nat, write : Nat, early : Nat, crash : Nat] BY DEF Types
<1>2. faults'.early = faults.early + 1 /\ faults.early \in Nat
  BY <1>1, FaultCounts DEF WriteFails
<1> QED BY <1>2 DEF Lost

\* What is read when all reads succeed is what is stored.
LEMMA GotStored ==
    ASSUME Inv, Faithful, ~Lost, Read
    PROVE  \/ /\ op[Head(queue)] = "list"
              /\ result' = [result EXCEPT ![Head(queue)] = Entries]
              /\ Over(Head(queue), "done") /\ UNCHANGED default
           \/ /\ op[Head(queue)] = "add" /\ value' = {Entries \cup {Head(queue)}}
              /\ UNCHANGED <<queue, call, result>>
<1>1. queue # <<>> /\ value = {} /\ UNCHANGED <<file, op, faults>> BY DEF Read
<1>2. op[Head(queue)] \in {"add", "list"} BY <1>1, HeadWaits DEF Inv, Types
<1>3. Got(Entries, TRUE) \/ Got(Entries, FALSE)
  <2>1. CASE file = {}
    <3>1. default = Entries BY <1>1, <2>1 DEF Faithful, Entries
    <3> QED BY <2>1, <3>1 DEF Read
  <2>2. CASE file # {} BY <2>2 DEF Read
  <2> QED BY <2>1, <2>2
<1> QED BY <1>2, <1>3 DEF Got

\* Every step keeps the value and the file in agreement.
LEMMA FaithfulNext == Inv /\ Faithful /\ [Next]_vars => Faithful'
<1> SUFFICES ASSUME Inv, Faithful, [Next]_vars, ~Lost' PROVE Faithful'
  BY DEF Faithful
<1>0. Types /\ Working /\ ~Lost /\ ~ReadFails BY LostStays DEF Inv
<1>1. ASSUME NEW c \in Calls, Request(c) PROVE Faithful'
  <2>1. value # {} => Head(queue') = Head(queue)
    BY <1>1, RequestChain DEF Inv, Working
  <2>2. UNCHANGED <<file, default, value>> BY <1>1 DEF Request
  <2> QED BY <1>0, <2>1, <2>2 DEF Faithful, Entries
<1>2. CASE Read
  <2>1. queue # <<>> /\ value = {} /\ UNCHANGED file BY <1>2 DEF Read
  <2>2. CASE Over(Head(queue), "done") /\ UNCHANGED default
    BY <1>0, <2>1, <2>2 DEF Over, Faithful
  <2>3. CASE value' = {Entries \cup {Head(queue)}} /\ UNCHANGED queue
    BY <2>1, <2>3 DEF Faithful, Entries
  <2> QED BY <1>0, <1>2, <2>2, <2>3, GotStored
<1>4. CASE Write
  <2>1. value # {} /\ file' = value /\ value' = {} BY <1>4 DEF Write, Over
  <2> QED BY <2>1 DEF Faithful
<1>5. CASE WriteFails
  <2>1. value' = {} /\ file' = file /\ file # {}
    BY <1>0, <1>5, FailsOverFile DEF WriteFails, Over
  <2> QED BY <2>1 DEF Faithful
<1>6. CASE Crash BY <1>6 DEF Crash, Faithful
<1>7. CASE UNCHANGED vars BY <1>0, <1>7 DEF vars, Faithful, Entries
<1> QED BY <1>0, <1>1, <1>2, <1>4, <1>5, <1>6, <1>7 DEF Next

\* At first the abstract store holds what the file holds.
LEMMA AtomicInit == Init => Atomic!Init
<1> SUFFICES ASSUME Init PROVE Atomic!Init OBVIOUS
<1>1. Entries \in SUBSET Calls BY JsonStoreAssumption DEF Init, Entries
<1>2. ~Lost BY DEF Init, Lost
<1> QED BY <1>1, <1>2 DEF Init, Atomic!Init

\* Every step is a step of the abstract store or leaves it as it is: an entry is
\* there with the write, a list has its result with the read.
LEMMA AtomicNext == Inv /\ Faithful /\ [Next]_vars => [Atomic!Next]_(Atomic!vars)
<1> SUFFICES ASSUME Inv, Faithful, [Next]_vars, ~Lost'
             PROVE  [Atomic!Next]_(Atomic!vars)
  BY DEF Atomic!Next
<1>0. Types /\ Chain /\ Working /\ ~Lost /\ ~ReadFails BY LostStays DEF Inv
<1>1. ASSUME NEW c \in Calls, Request(c) PROVE Atomic!Next
  <2>1. Atomic!Request(c) BY <1>1 DEF Request, Atomic!Request, Entries
  <2> QED BY <1>0, <2>1 DEF Atomic!Next
<1>2. CASE Read
  <2> DEFINE c == Head(queue)
  <2>1. queue # <<>> /\ UNCHANGED <<file, op>> BY <1>2 DEF Read
  <2>2. c \in Calls /\ call[c] = "waiting" /\ Entries' = Entries
    BY <1>0, <2>1, HeadWaits DEF Entries
  <2>3. CASE /\ op[c] = "list" /\ result' = [result EXCEPT ![c] = Entries]
             /\ Over(c, "done")
    <3>1. Atomic!List(c) BY <2>1, <2>2, <2>3 DEF Over, Atomic!List
    <3> QED BY <1>0, <2>2, <3>1 DEF Atomic!Next
  <2>4. CASE UNCHANGED <<call, result>> BY <1>0, <2>1, <2>2, <2>4 DEF Atomic!vars, Lost
  <2> QED BY <1>0, <1>2, <2>3, <2>4, GotStored
<1>4. CASE Write
  <2> DEFINE c == Head(queue)
  <2>1. /\ queue # <<>> /\ value # {} /\ file' = value /\ Over(c, "done")
        /\ UNCHANGED <<op, result>>
    BY <1>4 DEF Write
  <2>2. c \in Calls /\ call[c] = "waiting" /\ op[c] = "add"
    BY <1>0, <2>1, HeadWaits DEF Working
  <2>3. Entries' = Entries \cup {c} BY <1>0, <2>1 DEF Faithful, Entries
  <2>4. Atomic!Add(c) BY <2>1, <2>2, <2>3 DEF Over, Atomic!Add
  <2> QED BY <1>0, <2>2, <2>4 DEF Atomic!Next
<1>5. CASE WriteFails
  <2>1. /\ queue # <<>> /\ Over(Head(queue), "failed") /\ UNCHANGED <<file, op, result>>
    BY <1>5 DEF WriteFails
  <2>2. Head(queue) \in Calls /\ call[Head(queue)] = "waiting" BY <1>0, <2>1, HeadWaits
  <2>3. Atomic!Fail(Head(queue)) BY <2>1, <2>2 DEF Over, Atomic!Fail, Entries
  <2> QED BY <1>0, <2>2, <2>3 DEF Atomic!Next
<1>6. CASE Crash
  <2>1. /\ (file' = file \/ (value # {} /\ file' = value)) /\ UNCHANGED <<op, result>>
        /\ call' = [c \in Calls |-> IF call[c] = "waiting" THEN "failed" ELSE call[c]]
    BY <1>6 DEF Crash
  <2>2. \/ Entries' = Entries
        \/ \E c \in Calls : /\ call[c] = "waiting" /\ op[c] = "add"
                            /\ Entries' = Entries \cup {c}
    <3>1. CASE file' = file BY <3>1 DEF Entries
    <3>2. CASE value # {} /\ file' = value
      <4>1. Head(queue) \in Calls /\ call[Head(queue)] = "waiting" /\ op[Head(queue)] = "add"
        BY <1>0, <3>2, HeadWaits DEF Working
      <4>2. Entries' = Entries \cup {Head(queue)} BY <1>0, <3>2 DEF Faithful, Entries
      <4> QED BY <4>1, <4>2
    <3> QED BY <2>1, <3>1, <3>2
  <2>3. Atomic!Crash BY <2>1, <2>2 DEF Atomic!Crash
  <2> QED BY <1>0, <2>3 DEF Atomic!Next
<1>7. CASE UNCHANGED vars BY <1>7 DEF vars, Atomic!vars, Entries, Lost
<1> QED BY <1>0, <1>1, <1>2, <1>4, <1>5, <1>6, <1>7 DEF Next

\* A service over a file of the host does what the atomic store does, with any number
\* of overlapping calls, crashes and failing writes, until a read fails or a write
\* fails before there is a file (the chain of serialize and its read, change and write).
THEOREM StoreIsAtomic == Spec => ImplementsAtomicStore
<1>1. Inv /\ Keeping /\ [Next]_vars => (Inv /\ Keeping)' BY StoreNext
<1> QED BY <1>1, StoreInit, FaithfulInit, FaithfulNext, AtomicInit, AtomicNext, PTL
        DEF Spec, ImplementsAtomicStore, Atomic!Spec

\* Every variable keeps its type, the chain holds the calls that wait, each once, and
\* the value at hand is what the file will hold, unless something was lost.
THEOREM StoreTypeCorrect == Spec => []JsonTypeOK
<1>1. Inv /\ Faithful => JsonTypeOK
  <2> SUFFICES ASSUME Inv, Faithful PROVE JsonTypeOK OBVIOUS
  <2>1. Types /\ Chain /\ Working BY DEF Inv
  <2>2. queue \in Seq(Calls) /\ DOMAIN queue = 1 .. Len(queue) BY <2>1 DEF Types
  <2>3. ToSet(queue) = {c \in Calls : call[c] = "waiting"}
    <3>1. ToSet(queue) \subseteq {c \in Calls : call[c] = "waiting"}
      BY <2>1, <2>2 DEF ToSet, Chain
    <3>2. \A c \in Calls : call[c] = "waiting" => c \in ToSet(queue)
      BY <2>1, <2>2 DEF ToSet, Chain
    <3> QED BY <3>1, <3>2
  <2>4. IsInjective(queue) BY <2>1, <2>2 DEF IsInjective, Chain
  <2> QED BY <2>1, <2>3, <2>4 DEF Types, Working, Faithful, JsonTypeOK
<1>2. Inv /\ Keeping /\ [Next]_vars => (Inv /\ Keeping)' BY StoreNext
<1> QED BY <1>1, <1>2, StoreInit, FaithfulInit, FaithfulNext, PTL DEF Spec
===============================================================================
