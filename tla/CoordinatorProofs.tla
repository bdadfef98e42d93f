------------------------- MODULE CoordinatorProofs --------------------------
(***************************************************************************)
(* The coordinator for any number of requests, children and control        *)
(* messages: it keeps its types; result_futures is emptied of what was     *)
(* answered and has every future that is still to be completed; a 200 is   *)
(* earned by the job it is for; the child knows the buffered addresses;    *)
(* and acknowledgments are not mixed up unless something is late.          *)
(***************************************************************************)
EXTENDS Coordinator, TLAPS

(* A listener reads the queue of some child.                                *)
Typed == TypeOK /\ \A g \in Gens : lpc[g] = "get" => lq[g] \in Gens

-----------------------------------------------------------------------------
(* Constants, messages and queues *)

LEMMA Constants == IdOf \in [Calls -> Ids] /\ MaxStarts \in Nat /\ NoCall \notin Calls
  BY ConstantsAssumption

(* The fields of a request message, by its type.                            *)
LEMMA MessageParts ==
  ASSUME NEW m \in Messages
  PROVE  /\ m.type = "process" => m.call \in Calls
         /\ m.type = "cancel" => m.id \in Ids
         /\ m.type = "add" => m.address \in Addresses
         /\ m.type # "process" => m.rid \in Nat /\ m.type \in Kinds
  BY DEF Messages, Kinds

(* The messages that are sent.                                              *)
LEMMA MessageTypes ==
  /\ \A c \in Calls : [type |-> "process", call |-> c] \in Messages
  /\ \A i \in Ids, n \in Nat : [type |-> "cancel", id |-> i, rid |-> n] \in Messages
  /\ \A a \in Addresses, n \in Nat : [type |-> "add", address |-> a, rid |-> n] \in Messages
  /\ \A t \in {"status", "clear", "stop"}, n \in Nat : [type |-> t, rid |-> n] \in Messages
  BY DEF Messages

(* The request queue of a well-typed state, with one message more or less.  *)
LEMMA RequestQueue ==
  ASSUME TypeOK
  PROVE  /\ \A m \in Messages : Append(reqQ, m) \in Seq(Messages)
         /\ reqQ # <<>> => Head(reqQ) \in Messages /\ Tail(reqQ) \in Seq(Messages)
  BY DEF TypeOK

(* What a child sends back.                                                 *)
Results == [call : Calls, outcome : Outcomes] \union {STOP}

LEMMA ResultMessages ==
  /\ STOP \in Results
  /\ \A c \in Calls, o \in Outcomes : [call |-> c, outcome |-> o] \in Results
  /\ \A m \in Results : m # STOP => m.call \in Calls /\ m.outcome \in Outcomes
  BY DEF Results

(* p is the queue q with the message m put on it.                           *)
OneMore(p, q, m) == \A k \in 1..Len(p) : p[k] = m \/ (k \in 1..Len(q) /\ p[k] = q[k])

LEMMA Appended ==
  ASSUME NEW S, NEW q \in Seq(S), NEW m PROVE OneMore(Append(q, m), q, m)
  BY DEF OneMore

(* p is the queue q without its first message.                              *)
OneLess(p, q) ==
  /\ 1 \in 1..Len(q) /\ Head(q) = q[1]
  /\ \A k \in 1..Len(p) : k + 1 \in 1..Len(q) /\ k + 1 # 1 /\ p[k] = q[k + 1]
  /\ \A k \in 1..Len(q) : k # 1 => k - 1 \in 1..Len(p) /\ p[k - 1] = q[k]
  /\ \A k \in 1..Len(q), l \in 1..Len(p) : l # k - 1 => l + 1 # k

LEMMA Shortened ==
  ASSUME NEW S, NEW q \in Seq(S), q # <<>> PROVE OneLess(Tail(q), q)
  BY DEF OneLess

(* The result queues, with one message more or less.                        *)
LEMMA ResultQueue ==
  ASSUME TypeOK
  PROVE  /\ resQ \in [Gens -> Seq(Results)]
         /\ \A g \in Gens, m \in Results : Append(resQ[g], m) \in Seq(Results)
         /\ \A g \in Gens : resQ[g] # <<>> =>
              Head(resQ[g]) \in Results /\ Tail(resQ[g]) \in Seq(Results)
  <1>1. resQ \in [Gens -> Seq(Results)]
    BY DEF TypeOK, Results
  <1>2. QED  BY <1>1

(* A message is added to, or taken from, one of them.                       *)
LEMMA ResultQueueUpdate ==
  ASSUME TypeOK, NEW g, NEW q, g \in Gens => q \in Seq(Results),
         resQ' = [resQ EXCEPT ![g] = q]
  PROVE  resQ' \in [Gens -> Seq([call : Calls, outcome : Outcomes] \union {STOP})]
  <1>1. resQ' \in [Gens -> Seq(Results)]
    BY Zenon, ResultQueue
  <1>2. QED  BY <1>1 DEF Results

-----------------------------------------------------------------------------
(* Types *)

(* The types of the tables, apart from the rest.                            *)
LEMMA TableTypes ==
  ASSUME TypeOK
  PROVE  /\ futures \in [Ids -> Calls \union {NoCall}]
         /\ fut \in [Calls -> {"none", "pending", "cancelled"} \union Outcomes]
         /\ hpc \in [Calls -> {"idle", "waiting", "timedout", "answered"}]
         /\ code \in [Calls -> {0, 200, 500, 503}]
         /\ resQ \in [Gens -> Seq([call : Calls, outcome : Outcomes] \union {STOP})]
         /\ lpc \in [Gens -> {"none", "select", "get", "ended"} \union Outcomes]
         /\ lq \in [Gens -> 0..MaxStarts] /\ held \in [Gens -> Calls \union {NoCall}]
         /\ submitted \in [Ids -> Calls \union {NoCall}]
         /\ job \in [Calls -> {"none", "queued", "running", "dropped", "lost"} \union Outcomes]
  BY ZenonT(30) DEF TypeOK

LEMMA TypedInit == Init => Typed
  <1> SUFFICES ASSUME Init PROVE Typed
    OBVIOUS
  <1>1. accepting \in BOOLEAN /\ alive \in BOOLEAN /\ looping \in BOOLEAN
    BY Zenon DEF Init
  <1>2. /\ buffer \subseteq Addresses /\ addresses \subseteq Addresses
        /\ sent \in Nat /\ starts \in 0..MaxStarts /\ gen \in 0..MaxStarts
        /\ op \in [kind : Kinds \union {"none", "kill", "join"}, rid : Nat]
    BY Constants DEF Init, NoOp
  <1>3. /\ futures \in [Ids -> Calls \union {NoCall}]
        /\ fut \in [Calls -> {"none", "pending", "cancelled"} \union Outcomes]
        /\ hpc \in [Calls -> {"idle", "waiting", "timedout", "answered"}]
        /\ code \in [Calls -> {0, 200, 500, 503}]
        /\ submitted \in [Ids -> Calls \union {NoCall}]
        /\ job \in [Calls -> {"none", "queued", "running", "dropped", "lost"} \union Outcomes]
    BY DEF Init
  <1>4. /\ reqQ \in Seq(Messages) /\ ctlQ \in Seq([type : Kinds, rid : Nat])
        /\ resQ \in [Gens -> Seq([call : Calls, outcome : Outcomes] \union {STOP})]
    BY DEF Init
  <1>5. /\ lpc \in [Gens -> {"none", "select", "get", "ended"} \union Outcomes]
        /\ lq \in [Gens -> 0..MaxStarts] /\ held \in [Gens -> Calls \union {NoCall}]
        /\ \A g \in Gens : lpc[g] = "get" => lq[g] \in Gens
    BY Constants DEF Init
  <1>6. QED  BY ZenonT(30), <1>1, <1>2, <1>3, <1>4, <1>5 DEF Typed, TypeOK

(* The handlers of the event loop.                                          *)
LEMMA TypedStart == Typed /\ Start => Typed'
  <1> SUFFICES ASSUME Typed, Start PROVE Typed'
    OBVIOUS
  <1>1. accepting' \in BOOLEAN /\ alive' \in BOOLEAN /\ looping' \in BOOLEAN
    BY DEF Start
  <1>2. starts + 1 \in Gens /\ starts + 1 \in 0..MaxStarts
    BY Constants DEF Start, Typed, TypeOK, Gens
  <1>3. QED
    BY <1>1, <1>2, Constants DEF Start, Typed, TypeOK, callVars

LEMMA TypedProcess ==
  ASSUME NEW c \in Calls, Typed, Process(c) \/ TimerFires(c) \/ Resume(c) PROVE Typed'
  <1>1. CASE Process(c)
    <2>1. CASE alive /\ accepting
      <3>1. reqQ' \in Seq(Messages)
        BY Zenon, <1>1, <2>1, MessageTypes, RequestQueue DEF Process, Typed
      <3>2. /\ fut' \in [Calls -> {"none", "pending", "cancelled"} \union Outcomes]
            /\ futures' \in [Ids -> Calls \union {NoCall}]
            /\ hpc' \in [Calls -> {"idle", "waiting", "timedout", "answered"}]
        <4>1. /\ fut' = [fut EXCEPT ![c] = "pending"]
              /\ futures' = [futures EXCEPT ![IdOf[c]] = c]
              /\ hpc' = [hpc EXCEPT ![c] = "waiting"]
          BY <1>1, <2>1 DEF Process
        <4>2. QED  BY ZenonT(30), <4>1, TableTypes DEF Typed
      <3>3. UNCHANGED <<webVars, code, ctlQ, resQ, listenerVars, childVars>>
        BY <1>1, <2>1 DEF Process
      <3>4. accepting' \in BOOLEAN /\ alive' \in BOOLEAN /\ looping' \in BOOLEAN
        BY <3>3 DEF Typed, TypeOK, webVars, childVars
      <3>5. QED
        BY ZenonT(30), <3>1, <3>2, <3>3, <3>4 DEF Typed, TypeOK, webVars, listenerVars, childVars
    <2>2. CASE ~(alive /\ accepting)
      <3>1. /\ code' \in [Calls -> {0, 200, 500, 503}]
            /\ hpc' \in [Calls -> {"idle", "waiting", "timedout", "answered"}]
        <4>1. code' = [code EXCEPT ![c] = 503] /\ hpc' = [hpc EXCEPT ![c] = "answered"]
          BY <1>1, <2>2 DEF Process
        <4>2. QED  BY <4>1, TableTypes DEF Typed
      <3>2. UNCHANGED <<webVars, fut, futures, queueVars, listenerVars, childVars>>
        BY ZenonT(30), <1>1, <2>2 DEF Process, queueVars
      <3>3. QED
        BY ZenonT(30), <3>1, <3>2 DEF Typed, TypeOK, webVars, queueVars, listenerVars, childVars
    <2>3. QED  BY <2>1, <2>2
  <1>2. CASE TimerFires(c)
    BY <1>2 DEF TimerFires, Typed, TypeOK, webVars, queueVars, listenerVars, childVars
  <1>3. CASE Resume(c)
    <2>1. sent \in Nat /\ sent + 1 \in Nat /\ IdOf[c] \in Ids /\ reqQ \in Seq(Messages)
      BY Constants DEF Typed, TypeOK
    <2>2. Append(reqQ, [type |-> "cancel", id |-> IdOf[c], rid |-> sent + 1]) \in Seq(Messages)
      BY <2>1, MessageTypes, RequestQueue DEF Typed
    <2>3. reqQ' \in Seq(Messages) /\ sent' \in Nat
      BY Zenon, <1>3, <2>1, <2>2 DEF Resume
    <2>4. /\ code' \in [Calls -> {0, 200, 500, 503}]
          /\ hpc' \in [Calls -> {"idle", "waiting", "timedout", "answered"}]
          /\ futures' \in [Ids -> Calls \union {NoCall}]
      <3>1. code' = [code EXCEPT ![c] = Reply(c)] /\ Reply(c) \in {200, 500}
        BY <1>3 DEF Resume, Reply
      <3>2. /\ hpc' = [hpc EXCEPT ![c] = "answered"]
            /\ futures' = [futures EXCEPT ![IdOf[c]] = NoCall]
        BY <1>3 DEF Resume, Forget
      <3>3. code' \in [Calls -> {0, 200, 500, 503}]
        BY <3>1, TableTypes DEF Typed
      <3>4. /\ hpc' \in [Calls -> {"idle", "waiting", "timedout", "answered"}]
            /\ futures' \in [Ids -> Calls \union {NoCall}]
        BY ZenonT(30), <3>2, TableTypes DEF Typed
      <3>5. QED  BY <3>3, <3>4
    <2>5. UNCHANGED <<accepting, buffer, op, starts, gen, fut, ctlQ, resQ, listenerVars, childVars>>
      BY <1>3 DEF Resume
    <2>6. QED
      BY ZenonT(30), <2>3, <2>4, <2>5 DEF Typed, TypeOK, listenerVars, childVars
  <1>4. QED  BY <1>1, <1>2, <1>3

(* Sending a control message.                                               *)
LEMMA RequestTyped ==
  ASSUME Typed, NEW kind \in Kinds, NEW m \in Messages, Request(kind, m)
  PROVE  /\ reqQ' \in Seq(Messages) /\ sent' \in Nat
         /\ op' \in [kind : Kinds \union {"none", "kill", "join"}, rid : Nat]
  <1>1. sent \in Nat /\ sent + 1 \in Nat
    BY DEF Typed, TypeOK
  <1>2. QED  BY <1>1, RequestQueue DEF Request, Typed

(* All that a control handler leaves alone but for its message.             *)
LEMMA OnlySends ==
  ASSUME Typed, buffer' \subseteq Addresses,
         reqQ' \in Seq(Messages), sent' \in Nat,
         op' \in [kind : Kinds \union {"none", "kill", "join"}, rid : Nat],
         UNCHANGED <<accepting, starts, gen, callVars, ctlQ, resQ, listenerVars, childVars>>
  PROVE  Typed'
  BY ZenonT(30) DEF Typed, TypeOK, callVars, listenerVars, childVars

LEMMA TypedControl ==
  ASSUME Typed,
         \/ Status \/ (\E i \in Ids : Cancel(i)) \/ (\E a \in Addresses : AddLlmServer(a))
         \/ ClearLlmServer
  PROVE  Typed'
  <1>1. sent + 1 \in Nat /\ buffer \subseteq Addresses
    BY DEF Typed, TypeOK
  <1>2. CASE Status
    <2>1. [type |-> "status", rid |-> sent + 1] \in Messages /\ "status" \in Kinds
      BY <1>1, MessageTypes DEF Kinds
    <2>2. QED  BY <1>1, <1>2, <2>1, RequestTyped, OnlySends DEF Status
  <1>3. ASSUME NEW i \in Ids, Cancel(i) PROVE Typed'
    <2>1. [type |-> "cancel", id |-> i, rid |-> sent + 1] \in Messages /\ "cancel" \in Kinds
      BY <1>1, MessageTypes DEF Kinds
    <2>2. QED  BY <1>1, <1>3, <2>1, RequestTyped, OnlySends DEF Cancel
  <1>4. ASSUME NEW a \in Addresses, AddLlmServer(a) PROVE Typed'
    <2>1. [type |-> "add", address |-> a, rid |-> sent + 1] \in Messages /\ "add" \in Kinds
      BY <1>1, MessageTypes DEF Kinds
    <2>2. buffer' \subseteq Addresses
      BY Zenon, <1>1, <1>4 DEF AddLlmServer
    <2>3. CASE alive
      BY Zenon, <1>4, <2>1, <2>2, <2>3, RequestTyped, OnlySends DEF AddLlmServer
    <2>4. CASE ~alive
      <3>1. /\ reqQ' \in Seq(Messages) /\ sent' \in Nat
            /\ op' \in [kind : Kinds \union {"none", "kill", "join"}, rid : Nat]
        BY <1>4, <2>4 DEF AddLlmServer, Typed, TypeOK
      <3>2. QED  BY Zenon, <1>4, <2>2, <3>1, OnlySends DEF AddLlmServer
    <2>5. QED  BY <2>3, <2>4
  <1>5. CASE ClearLlmServer
    <2>1. [type |-> "clear", rid |-> sent + 1] \in Messages /\ "clear" \in Kinds
      BY <1>1, MessageTypes DEF Kinds
    <2>2. buffer' \subseteq Addresses
      BY <1>5 DEF ClearLlmServer
    <2>3. CASE alive
      BY <1>5, <2>1, <2>2, <2>3, RequestTyped, OnlySends DEF ClearLlmServer
    <2>4. CASE ~alive
      <3>1. /\ reqQ' \in Seq(Messages) /\ sent' \in Nat
            /\ op' \in [kind : Kinds \union {"none", "kill", "join"}, rid : Nat]
        BY <1>5, <2>4 DEF ClearLlmServer, Typed, TypeOK
      <3>2. QED  BY <1>5, <2>2, <3>1, OnlySends DEF ClearLlmServer
    <2>5. QED  BY <2>3, <2>4
  <1>6. QED  BY <1>2, <1>3, <1>4, <1>5

LEMMA TypedStop == Typed /\ Stop => Typed'
  <1> SUFFICES ASSUME Typed, Stop PROVE Typed'
    OBVIOUS
  <1>1. /\ reqQ' \in Seq(Messages) /\ sent' \in Nat
        /\ op' \in [kind : Kinds \union {"none", "kill", "join"}, rid : Nat]
    <2>1. sent + 1 \in Nat
      BY DEF Typed, TypeOK
    <2>2. [type |-> "stop", rid |-> sent + 1] \in Messages /\ "stop" \in Kinds
      BY <2>1, MessageTypes DEF Kinds
    <2>3. QED  BY <2>2, RequestTyped DEF Stop
  <1>2. accepting' \in BOOLEAN
    BY Zenon DEF Stop
  <1>3. /\ futures' \in [Ids -> Calls \union {NoCall}]
        /\ fut' \in [Calls -> {"none", "pending", "cancelled"} \union Outcomes]
    <2>1. RejectAll
      BY DEF Stop
    <2>2. QED  BY <2>1, TableTypes DEF RejectAll, Typed, Outcomes
  <1>4. UNCHANGED <<buffer, starts, gen, hpc, code, ctlQ, resQ, listenerVars, childVars>>
    BY DEF Stop
  <1>5. QED  BY ZenonT(30), <1>1, <1>2, <1>3, <1>4 DEF Typed, TypeOK, listenerVars, childVars

LEMMA TypedControlStep == Typed /\ ControlStep => Typed'
  <1> SUFFICES ASSUME Typed, ControlStep PROVE Typed'
    OBVIOUS
  <1>1. op \in [kind : Kinds \union {"none", "kill", "join"}, rid : Nat]
    BY DEF Typed, TypeOK
  <1>2. Unblock => op' \in [kind : Kinds \union {"none", "kill", "join"}, rid : Nat]
    BY <1>1 DEF Unblock, NoOp
  <1>3. CASE TakeAck
    <2>1. ctlQ' \in Seq([type : Kinds, rid : Nat])
      BY <1>3 DEF TakeAck, Typed, TypeOK
    <2>2. UNCHANGED <<accepting, buffer, sent, starts, gen, callVars, reqQ, resQ, listenerVars,
                      childVars>>
      BY <1>3 DEF TakeAck
    <2>3. Unblock
      BY <1>3 DEF TakeAck
    <2>4. QED
      BY ZenonT(30), <1>2, <2>1, <2>2, <2>3 DEF Typed, TypeOK, callVars, listenerVars, childVars
  <1>4. CASE AckTimeout
    <2>1. UNCHANGED <<accepting, buffer, sent, starts, gen, callVars, queueVars, listenerVars,
                      childVars>>
      BY <1>4 DEF AckTimeout
    <2>2. Unblock
      BY <1>4 DEF AckTimeout
    <2>3. QED
      BY ZenonT(30), <1>2, <2>1, <2>2 DEF Typed, TypeOK, callVars, queueVars, listenerVars,
         childVars
  <1>5. CASE Kill
    <2>1. alive' \in BOOLEAN /\ looping' \in BOOLEAN
      BY Zenon, <1>5 DEF Kill
    <2>2. /\ job' \in [Calls -> {"none", "queued", "running", "dropped", "lost"} \union Outcomes]
          /\ resQ' \in [Gens -> Seq([call : Calls, outcome : Outcomes] \union {STOP})]
      <3>1. /\ job' = [c \in Calls |->
                         IF job[c] \in {"queued", "running"} THEN "lost" ELSE job[c]]
            /\ resQ' = [resQ EXCEPT ![gen] = Append(@, STOP)]
        BY Zenon, <1>5 DEF Kill
      <3>2. job' \in [Calls -> {"none", "queued", "running", "dropped", "lost"} \union Outcomes]
        BY Zenon, <3>1, TableTypes DEF Typed
      <3>3. gen \in Gens => Append(resQ[gen], STOP) \in Seq(Results)
        BY Zenon, ResultQueue, ResultMessages DEF Typed
      <3>4. QED  BY Zenon, <3>1, <3>2, <3>3, ResultQueueUpdate DEF Typed
    <2>3. op' \in [kind : Kinds \union {"none", "kill", "join"}, rid : Nat]
      BY Zenon, <1>1, <1>5 DEF Kill
    <2>4. UNCHANGED <<accepting, buffer, sent, starts, gen, callVars, reqQ, ctlQ, listenerVars,
                      addresses, submitted>>
      BY Zenon, <1>5 DEF Kill
    <2>5. QED
      BY ZenonT(30), <2>1, <2>2, <2>3, <2>4 DEF Typed, TypeOK, callVars, listenerVars
  <1>6. CASE Join
    <2>1. /\ gen' \in 0..MaxStarts /\ reqQ' \in Seq(Messages)
          /\ ctlQ' \in Seq([type : Kinds, rid : Nat])
          /\ op' \in [kind : Kinds \union {"none", "kill", "join"}, rid : Nat]
      BY <1>6, Constants DEF Join, NoOp
    <2>2. UNCHANGED <<accepting, buffer, sent, starts, callVars, resQ, listenerVars, childVars>>
      BY Zenon, <1>6 DEF Join
    <2>3. QED  BY ZenonT(30), <2>1, <2>2 DEF Typed, TypeOK, callVars, listenerVars, childVars
  <1>7. QED  BY Zenon, <1>3, <1>4, <1>5, <1>6 DEF ControlStep

(* What a listener does when it takes a result.                             *)
LEMMA Received ==
  ASSUME NEW g \in Gens, Typed, Receive(g)
  PROVE  \/ /\ lpc' = [lpc EXCEPT ![g] = "ended"] /\ UNCHANGED <<held, futures>>
         \/ \E c \in Calls, o \in Outcomes, k \in 1..Len(resQ[lq[g]]) :
              /\ resQ[lq[g]][k] # STOP
              /\ resQ[lq[g]][k].call = c /\ resQ[lq[g]][k].outcome = o
              /\ lpc' = [lpc EXCEPT ![g] = IF futures[IdOf[c]] = NoCall THEN "select" ELSE o]
              /\ held' = [held EXCEPT ![g] = futures[IdOf[c]]]
              /\ futures' = [futures EXCEPT ![IdOf[c]] = NoCall]
  <1> DEFINE q == resQ[lq[g]]
  <1>1. lq[g] \in Gens /\ q \in Seq(Results) /\ q # <<>>
    BY Zenon, ResultQueue DEF Receive, Typed
  <1>2. Head(q) = q[1] /\ 1 \in 1..Len(q) /\ Head(q) \in Results
    BY <1>1
  <1>3. CASE Head(q) = STOP
    BY Zenon, <1>3 DEF Receive
  <1>4. CASE Head(q) # STOP
    <2>1. Head(q).call \in Calls /\ Head(q).outcome \in Outcomes
      BY Zenon, <1>2, <1>4, ResultMessages
    <2>2. /\ lpc' = [lpc EXCEPT ![g] = IF futures[IdOf[Head(q).call]] = NoCall THEN "select"
                                       ELSE Head(q).outcome]
          /\ held' = [held EXCEPT ![g] = futures[IdOf[Head(q).call]]]
          /\ futures' = [futures EXCEPT ![IdOf[Head(q).call]] = NoCall]
      BY Zenon, <1>4 DEF Receive
    <2>3. QED  BY Zenon, <1>2, <1>4, <2>1, <2>2
  <1>5. QED  BY Zenon, <1>3, <1>4

(* The listeners.                                                           *)
LEMMA TypedListener ==
  ASSUME NEW g \in Gens, Typed, ListenerStep(g) PROVE Typed'
  <1>1. CASE Select(g)
    <2>1. /\ lq' = [lq EXCEPT ![g] = gen]
          /\ lpc' = [lpc EXCEPT ![g] = IF gen = 0 THEN "ended" ELSE "get"]
          /\ UNCHANGED <<webVars, callVars, queueVars, held, childVars>>
      BY Zenon, <1>1 DEF Select
    <2>2. gen \in 0..MaxStarts /\ (gen # 0 => gen \in Gens)
      BY Constants DEF Typed, TypeOK, Gens
    <2>3. /\ lq' \in [Gens -> 0..MaxStarts]
          /\ lpc' \in [Gens -> {"none", "select", "get", "ended"} \union Outcomes]
      BY Zenon, <2>1, <2>2, TableTypes DEF Typed
    <2>4. \A h \in Gens : lpc'[h] = "get" => lq'[h] \in Gens
      BY <2>1, <2>2, TableTypes DEF Typed
    <2>5. QED
      BY ZenonT(30), <2>1, <2>3, <2>4 DEF Typed, TypeOK, webVars, callVars, queueVars, childVars
  <1>2. CASE Receive(g)
    <2> DEFINE q == resQ[lq[g]]
    <2>1. /\ lpc[g] = "get" /\ q # <<>>
          /\ resQ' = [resQ EXCEPT ![lq[g]] = Tail(q)]
          /\ UNCHANGED <<webVars, fut, hpc, code, reqQ, ctlQ, lq, childVars>>
      BY Zenon, <1>2 DEF Receive
    <2>2. lq[g] \in Gens /\ Head(q) \in Results /\ Tail(q) \in Seq(Results)
      BY Zenon, <2>1, ResultQueue DEF Typed
    <2>3. resQ' \in [Gens -> Seq([call : Calls, outcome : Outcomes] \union {STOP})]
      BY Zenon, <2>1, <2>2, ResultQueueUpdate DEF Typed
    <2>4. /\ lpc' \in [Gens -> {"none", "select", "get", "ended"} \union Outcomes]
          /\ held' \in [Gens -> Calls \union {NoCall}]
          /\ futures' \in [Ids -> Calls \union {NoCall}]
          /\ lpc'[g] # "get" /\ \A h \in Gens : h # g => lpc'[h] = lpc[h]
      <3>1. CASE lpc' = [lpc EXCEPT ![g] = "ended"] /\ UNCHANGED <<held, futures>>
        BY <3>1, TableTypes DEF Typed
      <3>2. ASSUME NEW c \in Calls, NEW o \in Outcomes,
                   lpc' = [lpc EXCEPT ![g] = IF futures[IdOf[c]] = NoCall THEN "select" ELSE o],
                   held' = [held EXCEPT ![g] = futures[IdOf[c]]],
                   futures' = [futures EXCEPT ![IdOf[c]] = NoCall]
            PROVE  <2>4!:
        <4>1. IdOf[c] \in Ids
          BY Zenon, Constants
        <4>2. QED  BY <3>2, <4>1, TableTypes DEF Typed, Outcomes
      <3>3. QED  BY <1>2, <3>1, <3>2, Received
    <2>5. \A h \in Gens : lpc'[h] = "get" => lq'[h] \in Gens
      BY Zenon, <2>1, <2>4 DEF Typed
    <2>6. QED
      BY ZenonT(30), <2>1, <2>3, <2>4, <2>5 DEF Typed, TypeOK, webVars, childVars
  <1>3. CASE Complete(g)
    <2>1. /\ lpc[g] \in Outcomes
          /\ fut' = [fut EXCEPT ![held[g]] = IF @ = "pending" THEN lpc[g] ELSE @]
          /\ held' = [held EXCEPT ![g] = NoCall]
          /\ lpc' = [lpc EXCEPT ![g] = "select"]
          /\ UNCHANGED <<webVars, futures, hpc, code, queueVars, lq, childVars>>
      BY Zenon, <1>3 DEF Complete
    <2>2. /\ fut' \in [Calls -> {"none", "pending", "cancelled"} \union Outcomes]
          /\ held' \in [Gens -> Calls \union {NoCall}]
          /\ lpc' \in [Gens -> {"none", "select", "get", "ended"} \union Outcomes]
      <3> DEFINE F == {"none", "pending", "cancelled"} \union Outcomes
                 v == IF fut[held[g]] = "pending" THEN lpc[g] ELSE fut[held[g]]
      <3>1. fut \in [Calls -> F] /\ fut' = [fut EXCEPT ![held[g]] = v]
        BY Zenon, <2>1, TableTypes DEF Typed
      <3>2. held[g] \in Calls => v \in F
        BY Zenon, <2>1, <3>1
      <3>3. fut' \in [Calls -> F]
        <4> HIDE DEF F, v
        <4> QED  BY Zenon, <3>1, <3>2
      <3>4. QED  BY Zenon, <2>1, <3>3, TableTypes DEF Typed
    <2>3. \A h \in Gens : lpc'[h] = "get" => lq'[h] \in Gens
      BY <2>1, TableTypes DEF Typed
    <2>4. QED
      BY ZenonT(30), <2>1, <2>2, <2>3 DEF Typed, TypeOK, webVars, queueVars, childVars
  <1>4. QED  BY Zenon, <1>1, <1>2, <1>3 DEF ListenerStep

(* The child.                                                               *)
LEMMA TakesTyped ==
  ASSUME Typed, NEW t, Takes(t)
  PROVE  /\ Head(reqQ) \in Messages /\ Head(reqQ).type = t
         /\ reqQ' = Tail(reqQ) /\ reqQ' \in Seq(Messages)
  BY Zenon, RequestQueue DEF Takes, Typed

LEMMA AckTyped ==
  ASSUME Typed, Ack, Head(reqQ) \in Messages, Head(reqQ).type # "process"
  PROVE  ctlQ' \in Seq([type : Kinds, rid : Nat])
  <1>1. Head(reqQ).type \in Kinds /\ Head(reqQ).rid \in Nat
    BY Zenon, MessageParts
  <1>2. [type |-> Head(reqQ).type, rid |-> Head(reqQ).rid] \in [type : Kinds, rid : Nat]
    BY Zenon, <1>1
  <1>3. QED  BY <1>2 DEF Ack, Typed, TypeOK

LEMMA DroppedTyped ==
  ASSUME Typed, NEW C, Dropped(C)
  PROVE  job' \in [Calls -> {"none", "queued", "running", "dropped", "lost"} \union Outcomes]
  BY ZenonT(30), TableTypes DEF Dropped, Typed

LEMMA TypedChild == Typed /\ ChildStep => Typed'
  <1> SUFFICES ASSUME Typed, ChildStep PROVE Typed'
    OBVIOUS
  <1>1. CASE ChildProcess
    <2>1. Takes("process")
      BY Zenon, <1>1 DEF ChildProcess
    <2>2. Head(reqQ).call \in Calls /\ IdOf[Head(reqQ).call] \in Ids /\ reqQ' \in Seq(Messages)
      BY Zenon, <2>1, TakesTyped, MessageParts, Constants
    <2>3. /\ submitted' = [submitted EXCEPT ![IdOf[Head(reqQ).call]] = Head(reqQ).call]
          /\ job' = [job EXCEPT ![Head(reqQ).call] = "queued"]
          /\ UNCHANGED <<webVars, callVars, ctlQ, resQ, listenerVars, alive, looping, addresses>>
      BY Zenon, <1>1 DEF ChildProcess
    <2>4. /\ submitted' \in [Ids -> Calls \union {NoCall}]
          /\ job' \in [Calls -> {"none", "queued", "running", "dropped", "lost"} \union Outcomes]
      BY ZenonT(30), <2>2, <2>3, TableTypes DEF Typed
    <2>5. QED
      BY ZenonT(30), <2>2, <2>3, <2>4 DEF Typed, TypeOK, webVars, callVars, listenerVars
  <1>2. CASE ChildCancel
    <2>1. /\ Takes("cancel") /\ Dropped({submitted[Head(reqQ).id]}) /\ Ack
          /\ submitted' = [submitted EXCEPT ![Head(reqQ).id] = NoCall]
          /\ UNCHANGED <<webVars, callVars, resQ, listenerVars, alive, looping, addresses>>
      BY Zenon, <1>2 DEF ChildCancel
    <2>2. reqQ' \in Seq(Messages) /\ ctlQ' \in Seq([type : Kinds, rid : Nat])
      BY <2>1, TakesTyped, AckTyped
    <2>3. submitted' \in [Ids -> Calls \union {NoCall}]
      BY ZenonT(30), <2>1, TableTypes DEF Typed
    <2>4. job' \in [Calls -> {"none", "queued", "running", "dropped", "lost"} \union Outcomes]
      BY Zenon, <2>1, DroppedTyped
    <2>5. QED
      BY ZenonT(30), <2>1, <2>2, <2>3, <2>4 DEF Typed, TypeOK, webVars, callVars, listenerVars
  <1>3. CASE ChildAdd \/ ChildClear \/ ChildStatus
    <2>1. /\ \E t \in {"add", "clear", "status"} : Takes(t)
          /\ Ack
          /\ UNCHANGED <<webVars, callVars, resQ, listenerVars, alive, looping, submitted, job>>
      BY Zenon, <1>3 DEF ChildAdd, ChildClear, ChildStatus, childVars
    <2>2. reqQ' \in Seq(Messages) /\ ctlQ' \in Seq([type : Kinds, rid : Nat])
      BY Zenon, <2>1, TakesTyped, AckTyped
    <2>3. addresses \subseteq Addresses
      BY Zenon DEF Typed, TypeOK
    <2>4. addresses' \subseteq Addresses
      <3>1. CASE ChildAdd
        <4>1. Head(reqQ).address \in Addresses
          BY Zenon, <3>1, TakesTyped, MessageParts DEF ChildAdd
        <4>2. QED  BY Zenon, <2>3, <3>1, <4>1 DEF ChildAdd
      <3>2. CASE ChildClear \/ ChildStatus
        BY Zenon, <2>3, <3>2 DEF ChildClear, ChildStatus, childVars
      <3>3. QED  BY Zenon, <1>3, <3>1, <3>2
    <2>5. QED
      BY ZenonT(30), <2>1, <2>2, <2>4 DEF Typed, TypeOK, webVars, callVars, listenerVars
  <1>4. CASE ChildStop
    <2>1. /\ Takes("stop") /\ Dropped({submitted[i] : i \in Ids}) /\ Ack
          /\ submitted' = [i \in Ids |-> NoCall]
          /\ UNCHANGED <<webVars, callVars, resQ, listenerVars, alive, addresses>>
      BY Zenon, <1>4 DEF ChildStop
    <2>2. reqQ' \in Seq(Messages) /\ ctlQ' \in Seq([type : Kinds, rid : Nat])
      BY <2>1, TakesTyped, AckTyped
    <2>3. looping' \in BOOLEAN
      BY Zenon, <1>4 DEF ChildStop
    <2>4. job' \in [Calls -> {"none", "queued", "running", "dropped", "lost"} \union Outcomes]
      BY Zenon, <2>1, DroppedTyped
    <2>5. submitted' \in [Ids -> Calls \union {NoCall}]
      BY Zenon, <2>1
    <2>6. QED
      BY ZenonT(30), <2>1, <2>2, <2>3, <2>4, <2>5 DEF Typed, TypeOK, webVars, callVars, listenerVars
  <1>5. CASE ChildExit
    <2>1. alive' \in BOOLEAN
      BY Zenon, <1>5 DEF ChildExit
    <2>2. UNCHANGED <<webVars, callVars, queueVars, listenerVars, looping, addresses, submitted,
                      job>>
      BY Zenon, <1>5 DEF ChildExit
    <2>3. QED
      BY ZenonT(30), <2>1, <2>2 DEF Typed, TypeOK, webVars, callVars, queueVars, listenerVars
  <1>6. QED  BY Zenon, <1>1, <1>2, <1>3, <1>4, <1>5 DEF ChildStep

(* The jobs, and the death of the child.                                    *)
LEMMA TypedJob ==
  ASSUME Typed, (\E c \in Calls : JobStep(c)) \/ ChildCrash PROVE Typed'
  <1>1. ASSUME NEW c \in Calls, JobStart(c) PROVE Typed'
    <2>1. /\ job' = [job EXCEPT ![c] = "running"]
          /\ UNCHANGED <<webVars, callVars, queueVars, listenerVars, alive, looping, addresses,
                         submitted>>
      BY Zenon, <1>1 DEF JobStart
    <2>2. job' \in [Calls -> {"none", "queued", "running", "dropped", "lost"} \union Outcomes]
      BY Zenon, <2>1, TableTypes DEF Typed
    <2>3. QED
      BY ZenonT(30), <2>1, <2>2 DEF Typed, TypeOK, webVars, callVars, queueVars, listenerVars
  <1>2. ASSUME NEW c \in Calls, JobEnd(c) PROVE Typed'
    <2>1. PICK o \in Outcomes :
            /\ job' = [job EXCEPT ![c] = o]
            /\ resQ' = [resQ EXCEPT ![gen] = Append(@, [call |-> c, outcome |-> o])]
      BY Zenon, <1>2 DEF JobEnd
    <2>2. UNCHANGED <<webVars, callVars, reqQ, ctlQ, listenerVars, alive, looping, addresses,
                      submitted>>
      BY Zenon, <1>2 DEF JobEnd
    <2>3. job' \in [Calls -> {"none", "queued", "running", "dropped", "lost"} \union Outcomes]
      BY Zenon, <2>1, TableTypes DEF Typed
    <2>4. gen \in Gens => Append(resQ[gen], [call |-> c, outcome |-> o]) \in Seq(Results)
      BY Zenon, ResultQueue, ResultMessages DEF Typed
    <2>5. resQ' \in [Gens -> Seq([call : Calls, outcome : Outcomes] \union {STOP})]
      BY Zenon, <2>1, <2>4, ResultQueueUpdate DEF Typed
    <2>6. QED
      BY ZenonT(30), <2>2, <2>3, <2>5 DEF Typed, TypeOK, webVars, callVars, listenerVars
  <1>3. CASE ChildCrash
    <2>1. alive' \in BOOLEAN /\ looping' \in BOOLEAN
      BY Zenon, <1>3 DEF ChildCrash
    <2>2. job' \in [Calls -> {"none", "queued", "running", "dropped", "lost"} \union Outcomes]
      BY Zenon, <1>3, TableTypes DEF ChildCrash, Typed
    <2>3. UNCHANGED <<webVars, callVars, queueVars, listenerVars, addresses, submitted>>
      BY Zenon, <1>3 DEF ChildCrash
    <2>4. QED
      BY Zenon, <2>1, <2>2, <2>3 DEF Typed, TypeOK, webVars, callVars, queueVars, listenerVars
  <1>4. QED  BY Zenon, <1>1, <1>2, <1>3 DEF JobStep

LEMMA TypedStep == Typed /\ [Next]_vars => Typed'
  <1> SUFFICES ASSUME Typed, [Next]_vars PROVE Typed'
    OBVIOUS
  <1>1. CASE UNCHANGED vars
    BY ZenonT(30), <1>1 DEF vars, Typed, TypeOK, webVars, callVars, queueVars, listenerVars,
       childVars
  <1>2. CASE Next
    BY Zenon, <1>2, TypedStart, TypedProcess, TypedControl, TypedStop, TypedControlStep, TypedListener,
       TypedChild, TypedJob DEF Next
  <1>3. QED  BY Zenon, <1>1, <1>2

-----------------------------------------------------------------------------
(* The handlers, the listeners, the queues and the child keep their types:  *)
(* every message in a queue is one that its reader knows how to take, after *)
(* any number of timeouts, stops, crashes and restarts.                     *)
THEOREM CoordinatorTypeCorrect == Spec => []TypeOK
  <1>1. Init => Typed
    BY Zenon, TypedInit
  <1>2. Typed /\ [Next]_vars => Typed'
    BY Zenon, TypedStep
  <1>3. Typed => TypeOK
    BY Zenon DEF Typed
  <1>4. QED  BY <1>1, <1>2, <1>3, PTL DEF Spec

-----------------------------------------------------------------------------
(* result_futures *)

(* No two requests share a job id.                                          *)
InjectiveIds == \A c, d \in Calls : IdOf[c] = IdOf[d] => c = d

(* The map has a request under its own id, and only while its handler runs. *)
Owned ==
  \A i \in Ids : futures[i] # NoCall =>
    IdOf[futures[i]] = i /\ hpc[futures[i]] \in {"waiting", "timedout"}

(* A pending future has a waiting handler, and can be completed; a listener *)
(* holds a future only between taking and completing it, and does not exist *)
(* before its child.                                                        *)
Reachable ==
  /\ \A c \in Calls : fut[c] = "pending" => hpc[c] = "waiting"
  /\ \A g \in Gens : g > starts => lpc[g] = "none"
  /\ \A g \in Gens : held[g] # NoCall => lpc[g] \in Outcomes
  /\ WaiterReachable

-----------------------------------------------------------------------------
(* result_futures *)

(* The steps that touch the map, the futures, the handlers or the           *)
(* listeners' hands.                                                        *)
LEMMA CallFrame ==
  ASSUME [Next]_vars
  PROVE  \/ Start
         \/ \E c \in Calls : Process(c) \/ TimerFires(c) \/ Resume(c)
         \/ Stop
         \/ \E g \in Gens : ListenerStep(g)
         \/ UNCHANGED <<starts, futures, fut, hpc, code, lpc, held>>
  <1>1. CASE \/ Status \/ (\E i \in Ids : Cancel(i)) \/ (\E a \in Addresses : AddLlmServer(a))
             \/ ClearLlmServer
    BY Zenon, <1>1 DEF Status, Cancel, AddLlmServer, ClearLlmServer, callVars, listenerVars
  <1>2. CASE ControlStep
    BY Zenon, <1>2 DEF ControlStep, TakeAck, AckTimeout, Kill, Join, callVars, listenerVars
  <1>3. CASE ChildStep
    BY <1>3 DEF ChildStep, ChildProcess, ChildCancel, ChildAdd, ChildClear, ChildStatus, ChildStop,
       ChildExit, webVars, callVars, listenerVars
  <1>4. CASE (\E c \in Calls : JobStep(c)) \/ ChildCrash
    BY Zenon, <1>4 DEF JobStep, JobStart, JobEnd, ChildCrash, webVars, callVars, listenerVars
  <1>5. CASE UNCHANGED vars
    BY Zenon, <1>5 DEF vars, webVars, callVars, listenerVars
  <1>6. QED  BY Zenon, <1>1, <1>2, <1>3, <1>4, <1>5 DEF Next

LEMMA OwnedStep == Typed /\ Owned /\ [Next]_vars => Owned'
  <1> SUFFICES ASSUME Typed, Owned, [Next]_vars PROVE Owned'
    OBVIOUS
  <1>1. ASSUME NEW c \in Calls, Process(c) \/ TimerFires(c) \/ Resume(c) PROVE Owned'
    <2>1. IdOf[c] \in Ids
      BY Zenon, Constants
    <2>2. CASE Process(c)
      <3>1. hpc[c] = "idle" /\ \A i \in Ids : futures[i] # c
        BY <2>2, Constants DEF Process, Owned
      <3>2. CASE alive /\ accepting
        <4>1. futures' = [futures EXCEPT ![IdOf[c]] = c] /\ hpc' = [hpc EXCEPT ![c] = "waiting"]
          BY Zenon, <2>2, <3>2 DEF Process
        <4>2. QED  BY <2>1, <3>1, <4>1, TableTypes, Constants DEF Owned, Typed
      <3>3. CASE ~(alive /\ accepting)
        <4>1. UNCHANGED futures /\ hpc' = [hpc EXCEPT ![c] = "answered"]
          BY Zenon, <2>2, <3>3 DEF Process
        <4>2. QED  BY <3>1, <4>1, TableTypes DEF Owned, Typed
      <3>4. QED  BY Zenon, <3>2, <3>3
    <2>3. CASE TimerFires(c)
      BY <2>3, TableTypes DEF TimerFires, Owned, Typed
    <2>4. CASE Resume(c)
      BY <2>1, <2>4, TableTypes DEF Resume, Forget, Owned, Typed
    <2>5. QED  BY Zenon, <1>1, <2>2, <2>3, <2>4
  <1>2. CASE Start
    BY Zenon, <1>2 DEF Start, callVars, Owned
  <1>3. CASE Stop
    BY Zenon, <1>3 DEF Stop, RejectAll, Owned
  <1>4. ASSUME NEW g \in Gens, ListenerStep(g) PROVE Owned'
    <2>1. CASE Select(g) \/ Complete(g)
      BY Zenon, <2>1 DEF Select, Complete, callVars, Owned
    <2>2. CASE Receive(g)
      <3>1. UNCHANGED hpc
        BY Zenon, <2>2 DEF Receive
      <3>2. \A i \in Ids : futures'[i] = futures[i] \/ futures'[i] = NoCall
        <4>1. futures' = futures \/ \E c \in Calls : futures' = [futures EXCEPT ![IdOf[c]] = NoCall]
          BY Zenon, <2>2, Received DEF Typed
        <4>2. futures \in [Ids -> Calls \cup {NoCall}]
          BY Zenon, TableTypes DEF Typed
        <4>3. QED  BY Zenon, <4>1, <4>2
      <3>3. QED  BY Zenon, <3>1, <3>2 DEF Owned
    <2>3. QED  BY Zenon, <1>4, <2>1, <2>2 DEF ListenerStep
  <1>5. CASE UNCHANGED <<starts, futures, fut, hpc, code, lpc, held>>
    BY Zenon, <1>5 DEF Owned
  <1>6. QED  BY Zenon, <1>1, <1>2, <1>3, <1>4, <1>5, CallFrame

LEMMA ReachableCall ==
  ASSUME InjectiveIds, Typed, Owned, Reachable,
         NEW c \in Calls, Process(c) \/ TimerFires(c) \/ Resume(c)
  PROVE  Reachable'
  <1>1. IdOf[c] \in Ids /\ \A d \in Calls : IdOf[d] \in Ids /\ (d # c => IdOf[d] # IdOf[c])
    BY Zenon, Constants DEF InjectiveIds
  <1>2. UNCHANGED <<starts, lpc, held>>
    BY Zenon DEF Process, TimerFires, Resume, webVars, listenerVars
  <1>3. /\ \A g \in Gens : g > starts' => lpc'[g] = "none"
        /\ \A g \in Gens : held'[g] # NoCall => lpc'[g] \in Outcomes
    BY Zenon, <1>2 DEF Reachable
  <1>4. CASE Process(c)
    <2>1. CASE alive /\ accepting
      <3>1. /\ fut' = [fut EXCEPT ![c] = "pending"]
            /\ futures' = [futures EXCEPT ![IdOf[c]] = c]
            /\ hpc' = [hpc EXCEPT ![c] = "waiting"]
        BY Zenon, <1>4, <2>1 DEF Process
      <3>2. \A d \in Calls : fut'[d] = "pending" => hpc'[d] = "waiting"
        BY ZenonT(30), <3>1, TableTypes DEF Typed, Reachable
      <3>3. WaiterReachable'
        BY ZenonT(30), <1>1, <1>2, <3>1, TableTypes DEF Typed, Reachable, WaiterReachable
      <3>4. QED  BY Zenon, <1>3, <3>2, <3>3 DEF Reachable
    <2>2. CASE ~(alive /\ accepting)
      <3>1. UNCHANGED <<fut, futures>> /\ hpc' = [hpc EXCEPT ![c] = "answered"] /\ hpc[c] = "idle"
        BY ZenonT(30), <1>4, <2>2 DEF Process
      <3>2. QED  BY <1>2, <1>3, <3>1, TableTypes DEF Typed, Reachable, WaiterReachable
    <2>3. QED  BY Zenon, <2>1, <2>2
  <1>5. CASE TimerFires(c)
    <2>1. /\ UNCHANGED futures /\ hpc' = [hpc EXCEPT ![c] = "timedout"]
          /\ fut' = [fut EXCEPT ![c] = IF @ = "pending" THEN "cancelled" ELSE @]
      BY Zenon, <1>5 DEF TimerFires
    <2>2. \A d \in Calls : fut'[d] = "pending" => d # c /\ fut[d] = "pending"
      BY <2>1, TableTypes DEF Typed
    <2>3. QED  BY <1>2, <1>3, <2>1, <2>2, TableTypes DEF Typed, Reachable, WaiterReachable
  <1>6. CASE Resume(c)
    <2>1. /\ UNCHANGED fut /\ hpc' = [hpc EXCEPT ![c] = "answered"]
          /\ futures' = [futures EXCEPT ![IdOf[c]] = NoCall]
          /\ hpc[c] = "timedout" \/ fut[c] # "pending"
      BY Zenon, <1>6 DEF Resume, Forget
    <2>2. \A d \in Calls : fut'[d] = "pending" => d # c /\ fut[d] = "pending"
      BY Zenon, <2>1 DEF Reachable
    <2>3. QED
      BY <1>1, <1>2, <1>3, <2>1, <2>2, TableTypes DEF Typed, Reachable, WaiterReachable
  <1>7. QED  BY Zenon, <1>4, <1>5, <1>6

LEMMA ReachableListener ==
  ASSUME Typed, Owned, Reachable, NEW g \in Gens, ListenerStep(g)
  PROVE  Reachable'
  <1>1. lpc[g] # "none" /\ (lpc[g] \notin Outcomes => held[g] = NoCall) /\ g <= starts
    <2>1. g \in Nat /\ starts \in Nat
      BY Constants DEF Typed, TypeOK, Gens
    <2>2. lpc[g] # "none"
      BY Zenon DEF ListenerStep, Select, Receive, Complete, Outcomes
    <2>3. QED  BY <2>1, <2>2 DEF Reachable
  <1>2. CASE Select(g)
    <2>1. /\ lpc' = [lpc EXCEPT ![g] = IF gen = 0 THEN "ended" ELSE "get"]
          /\ lpc[g] = "select" /\ UNCHANGED <<starts, fut, futures, hpc, held>>
      BY Zenon, <1>2 DEF Select, webVars, callVars
    <2>2. \A h \in Gens : held[h] # NoCall => h # g
      BY Zenon, <1>1, <2>1 DEF Outcomes
    <2>3. \A h \in Gens : h > starts => h # g
      BY <1>1, Constants DEF Gens, Typed, TypeOK
    <2>4. QED  BY <2>1, <2>2, <2>3, TableTypes DEF Typed, Reachable, WaiterReachable
  <1>3. CASE Receive(g)
    <2>1. UNCHANGED <<starts, fut, hpc>> /\ held[g] = NoCall
      BY Zenon, <1>1, <1>3 DEF Receive, webVars, Outcomes
    <2>2. \A h \in Gens : h > starts => h # g
      BY <1>1, Constants DEF Gens, Typed, TypeOK
    <2>3. CASE lpc' = [lpc EXCEPT ![g] = "ended"] /\ UNCHANGED <<held, futures>>
      BY <2>1, <2>2, <2>3, TableTypes DEF Typed, Reachable, WaiterReachable
    <2>4. ASSUME NEW c \in Calls, NEW o \in Outcomes,
                 lpc' = [lpc EXCEPT ![g] = IF futures[IdOf[c]] = NoCall THEN "select" ELSE o],
                 held' = [held EXCEPT ![g] = futures[IdOf[c]]],
                 futures' = [futures EXCEPT ![IdOf[c]] = NoCall]
          PROVE  Reachable'
      <3>1. IdOf[c] \in Ids /\ \A d \in Calls : IdOf[d] \in Ids
        BY Zenon, Constants
      <3>2. \A h \in Gens : h # g => held'[h] = held[h] /\ lpc'[h] = lpc[h]
        BY <2>4, TableTypes DEF Typed
      <3>3. held'[g] = futures[IdOf[c]] /\ (futures[IdOf[c]] # NoCall => lpc'[g] = o)
        BY <2>4, TableTypes DEF Typed
      <3>4. \A i \in Ids : i # IdOf[c] => futures'[i] = futures[i]
        BY <2>4, TableTypes DEF Typed
      <3>5. WaiterReachable'
        BY <2>1, <3>1, <3>2, <3>3, <3>4, Constants DEF Reachable, WaiterReachable
      <3>6. QED  BY Zenon, <2>1, <2>2, <3>2, <3>3, <3>5 DEF Reachable
    <2>5. QED  BY Zenon, <1>3, <2>3, <2>4, Received
  <1>4. CASE Complete(g)
    <2>1. /\ lpc[g] \in Outcomes /\ UNCHANGED <<starts, futures, hpc>>
          /\ fut' = [fut EXCEPT ![held[g]] = IF @ = "pending" THEN lpc[g] ELSE @]
          /\ held' = [held EXCEPT ![g] = NoCall]
          /\ lpc' = [lpc EXCEPT ![g] = "select"]
      BY Zenon, <1>4 DEF Complete, webVars
    <2>2. \A d \in Calls : fut'[d] = "pending" => fut[d] = "pending" /\ d # held[g]
      BY <2>1, TableTypes DEF Typed, Outcomes
    <2>3. \A h \in Gens : h # g => held'[h] = held[h] /\ lpc'[h] = lpc[h]
      BY <2>1, TableTypes DEF Typed
    <2>4. held'[g] = NoCall
      BY <2>1, TableTypes DEF Typed
    <2>5. \A h \in Gens : h > starts => h # g
      BY <1>1, Constants DEF Gens, Typed, TypeOK
    <2>6. WaiterReachable'
      BY <2>1, <2>2, <2>3 DEF Reachable, WaiterReachable
    <2>7. QED  BY ZenonT(30), <2>1, <2>2, <2>3, <2>4, <2>5, <2>6 DEF Reachable
  <1>5. QED  BY Zenon, <1>2, <1>3, <1>4 DEF ListenerStep

LEMMA ReachableStep ==
  ASSUME InjectiveIds, Typed, Owned, Reachable, [Next]_vars PROVE Reachable'
  <1>1. CASE Start
    <2>1. starts \in Nat /\ starts + 1 \in Gens
      BY <1>1, Constants DEF Start, Typed, TypeOK, Gens
    <2>2. /\ starts' = starts + 1 /\ lpc' = [lpc EXCEPT ![starts + 1] = "select"]
          /\ UNCHANGED <<futures, fut, hpc, held>>
      BY Zenon, <1>1 DEF Start, callVars
    <2>3. held[starts + 1] = NoCall
      <3>1. lpc[starts + 1] = "none"
        BY <2>1 DEF Reachable
      <3>2. QED  BY Zenon, <2>1, <3>1 DEF Reachable, Outcomes
    <2>4. \A g \in Gens : g > starts' => g > starts /\ g # starts + 1
      BY <2>1, <2>2, Constants DEF Gens
    <2>5. \A g \in Gens : g # starts + 1 => lpc'[g] = lpc[g]
      BY <2>2, TableTypes DEF Typed
    <2>6. QED  BY Zenon, <2>2, <2>3, <2>4, <2>5 DEF Reachable, WaiterReachable
  <1>2. CASE Stop
    <2>1. /\ futures' = [i \in Ids |-> NoCall]
          /\ fut' = [c \in Calls |-> IF fut[c] = "pending" /\ \E i \in Ids : futures[i] = c
                                     THEN "failed" ELSE fut[c]]
          /\ UNCHANGED <<starts, hpc, lpc, held>>
      BY Zenon, <1>2 DEF Stop, RejectAll, listenerVars
    <2>2. \A c \in Calls : IdOf[c] \in Ids
      BY Zenon, Constants
    <2>3. QED  BY Zenon, <2>1, <2>2 DEF Reachable, WaiterReachable
  <1>3. CASE UNCHANGED <<starts, futures, fut, hpc, code, lpc, held>>
    BY Zenon, <1>3 DEF Reachable, WaiterReachable
  <1>4. QED  BY Zenon, <1>1, <1>2, <1>3, CallFrame, ReachableCall, ReachableListener

-----------------------------------------------------------------------------
(* The theorems *)

(* result_futures has no entry for a request that was answered, for any     *)
(* number of requests and restarts, even if requests share job ids: the     *)
(* cleanup callback, the listener and /stop between them leave nothing.     *)
THEOREM FuturesTidy == Spec => []NoGhostFuture
  <1>1. Init => Typed /\ Owned
    BY Zenon, TypedInit DEF Init, Owned
  <1>2. (Typed /\ Owned) /\ [Next]_vars => (Typed /\ Owned)'
    BY Zenon, TypedStep, OwnedStep
  <1>3. Typed /\ Owned => NoGhostFuture
    BY Zenon DEF Owned, NoGhostFuture
  <1>4. QED  BY <1>1, <1>2, <1>3, PTL DEF Spec

LEMMA FuturesInit == Init => Typed /\ Owned /\ Reachable
  BY Zenon, TypedInit DEF Init, Owned, Reachable, WaiterReachable

(* If no two requests share a job id, a pending future is always in         *)
(* result_futures or in the hands of a listener: neither /process, nor a    *)
(* timeout, a /stop, a crash or a restart strands a handler.                *)
THEOREM WaitersReachable == ASSUME InjectiveIds PROVE Spec => []WaiterReachable
  <1>1. Init => Typed /\ Owned /\ Reachable
    BY Zenon, FuturesInit
  <1>2. (Typed /\ Owned /\ Reachable) /\ [Next]_vars => (Typed /\ Owned /\ Reachable)'
    BY Zenon, TypedStep, OwnedStep, ReachableStep
  <1>3. Typed /\ Owned /\ Reachable => WaiterReachable
    BY Zenon DEF Reachable
  <1>4. QED  BY <1>1, <1>2, <1>3, PTL DEF Spec

-----------------------------------------------------------------------------
(* What is answered *)

(* A request is sent to a child once, and no job exists before that.        *)
SentOnce ==
  /\ \A c \in Calls : hpc[c] = "idle" => job[c] = "none"
  /\ \A k \in 1..Len(reqQ) : reqQ[k].type = "process" =>
       /\ hpc[reqQ[k].call] # "idle" /\ job[reqQ[k].call] = "none"
       /\ \A l \in 1..Len(reqQ) :
            reqQ[l].type = "process" /\ reqQ[l].call = reqQ[k].call => l = k

(* What is on its way to a handler is how the job ended: in the queues, in  *)
(* the hands of the listeners, in the futures and in the answers.           *)
InQueues ==
  \A g \in Gens : \A k \in 1..Len(resQ[g]) :
    resQ[g][k] # STOP => job[resQ[g][k].call] = resQ[g][k].outcome
InHands ==
  \A g \in Gens : lpc[g] \in Outcomes => held[g] \in Calls /\ job[held[g]] = lpc[g]
InFutures == \A c \in Calls : fut[c] = "ok" => job[c] = "ok"
Truthful == InQueues /\ InHands /\ InFutures /\ SuccessIsEarned

(* The inductive invariant.                                                 *)
CInv == Typed /\ Owned /\ Reachable /\ SentOnce /\ Truthful

-----------------------------------------------------------------------------
(* Jobs *)

(* Only a message of the coordinator makes a job, and a job that has ended  *)
(* stays as it ended.                                                       *)
LEMMA JobFrame ==
  ASSUME Typed, [Next]_vars
  PROVE  \/ ChildProcess
         \/ \A c \in Calls : job'[c] = job[c] \/ job[c] \in {"queued", "running"}
  <1>1. CASE \/ Start \/ (\E c \in Calls : Process(c) \/ TimerFires(c) \/ Resume(c))
             \/ Status \/ (\E i \in Ids : Cancel(i)) \/ (\E a \in Addresses : AddLlmServer(a))
             \/ ClearLlmServer \/ Stop \/ (\E g \in Gens : ListenerStep(g)) \/ UNCHANGED vars
    <2>1. UNCHANGED job
      BY Zenon, <1>1 DEF Start, Process, TimerFires, Resume, Status, Cancel, AddLlmServer,
         ClearLlmServer, Stop, ListenerStep, Select, Receive, Complete, vars, childVars
    <2>2. QED  BY Zenon, <2>1
  <1>2. CASE ControlStep
    <2>1. UNCHANGED job \/ Kill
      BY Zenon, <1>2 DEF ControlStep, TakeAck, AckTimeout, Join, childVars
    <2>2. QED  BY Zenon, <2>1 DEF Kill
  <1>3. CASE ChildStep
    <2>1. ChildProcess \/ UNCHANGED job \/ \E C : Dropped(C)
      BY Zenon, <1>3 DEF ChildStep, ChildCancel, ChildAdd, ChildClear, ChildStatus, ChildStop, ChildExit,
         childVars
    <2>2. QED  BY Zenon, <2>1 DEF Dropped
  <1>4. CASE \E c \in Calls : JobStep(c)
    <2>1. PICK c \in Calls : JobStep(c)
      BY Zenon, <1>4
    <2>2. job[c] \in {"queued", "running"} /\ \E o : job' = [job EXCEPT ![c] = o]
      BY Zenon, <2>1 DEF JobStep, JobStart, JobEnd
    <2>3. QED  BY <2>2, TableTypes DEF Typed
  <1>5. CASE ChildCrash
    BY Zenon, <1>5 DEF ChildCrash
  <1>6. QED  BY Zenon, <1>1, <1>2, <1>3, <1>4, <1>5 DEF Next

(* What a step does to the request queue.                                   *)
Shorter == reqQ' = <<>> \/ (reqQ # <<>> /\ reqQ' = Tail(reqQ))
Longer == \E m \in Messages : m.type # "process" /\ reqQ' = Append(reqQ, m)

LEMMA QueueFrame ==
  ASSUME Typed, [Next]_vars
  PROVE  (\E c \in Calls : Process(c)) \/ reqQ' = reqQ \/ Shorter \/ Longer
  <1>1. sent + 1 \in Nat /\ \A c \in Calls : IdOf[c] \in Ids
    BY Constants DEF Typed, TypeOK
  <1>2. CASE Start \/ Join
    BY Zenon, <1>2 DEF Start, Join, Shorter
  <1>3. ASSUME NEW c \in Calls, TimerFires(c) \/ Resume(c) PROVE reqQ' = reqQ \/ Longer
    <2>1. [type |-> "cancel", id |-> IdOf[c], rid |-> sent + 1] \in Messages
      BY Zenon, <1>1, MessageTypes
    <2>2. QED  BY Zenon, <1>3, <2>1 DEF TimerFires, Resume, queueVars, Longer
  <1>4. CASE \/ Status \/ (\E i \in Ids : Cancel(i)) \/ (\E a \in Addresses : AddLlmServer(a))
             \/ ClearLlmServer \/ Stop
    BY Zenon, <1>1, <1>4, MessageTypes DEF Status, Cancel, AddLlmServer, ClearLlmServer, Stop,
       Request, Longer
  <1>5. CASE ControlStep
    BY Zenon, <1>2, <1>5 DEF ControlStep, TakeAck, AckTimeout, Kill, queueVars
  <1>6. CASE ChildStep
    BY <1>6 DEF ChildStep, ChildProcess, ChildCancel, ChildAdd, ChildClear, ChildStatus, ChildStop,
       ChildExit, Takes, queueVars, Shorter
  <1>7. CASE \/ (\E g \in Gens : ListenerStep(g)) \/ (\E c \in Calls : JobStep(c)) \/ ChildCrash
             \/ UNCHANGED vars
    BY Zenon, <1>7 DEF ListenerStep, Select, Receive, Complete, JobStep, JobStart, JobEnd,
       ChildCrash, vars, queueVars
  <1>8. QED  BY Zenon, <1>2, <1>3, <1>4, <1>5, <1>6, <1>7 DEF Next

(* Every message of the next queue is in the queue, in the same order.      *)
LEMMA NoNewProcess ==
  ASSUME Typed, reqQ' = reqQ \/ Shorter \/ Longer
  PROVE  \E d \in {0, 1} : \A k \in 1..Len(reqQ') : reqQ'[k].type = "process" =>
           k + d \in 1..Len(reqQ) /\ reqQ'[k] = reqQ[k + d]
  <1>1. reqQ \in Seq(Messages)
    BY Zenon DEF Typed, TypeOK
  <1>2. CASE reqQ' = reqQ \/ reqQ' = <<>>
    BY <1>1, <1>2
  <1>3. CASE reqQ # <<>> /\ reqQ' = Tail(reqQ)
    <2>1. \A k \in 1..Len(reqQ') : k + 1 \in 1..Len(reqQ) /\ reqQ'[k] = reqQ[k + 1]
      BY <1>1, <1>3
    <2>2. QED  BY Zenon, <2>1
  <1>4. CASE Longer
    <2>1. PICK m \in Messages : m.type # "process" /\ reqQ' = Append(reqQ, m)
      BY Zenon, <1>4 DEF Longer
    <2>2. \A k \in 1..Len(reqQ') : reqQ'[k].type = "process" =>
            k + 0 \in 1..Len(reqQ) /\ reqQ'[k] = reqQ[k + 0]
      BY <1>1, <2>1
    <2>3. QED  BY Zenon, <2>2
  <1>5. QED  BY Zenon, <1>2, <1>3, <1>4 DEF Shorter

(* A handler does not become idle again.                                    *)
LEMMA HandlerFrame ==
  ASSUME Typed, [Next]_vars
  PROVE  \A c \in Calls : hpc'[c] = "idle" => hpc[c] = "idle"
  <1>1. ASSUME NEW c \in Calls, Process(c) \/ TimerFires(c) \/ Resume(c)
        PROVE  \A d \in Calls : hpc'[d] = "idle" => hpc[d] = "idle"
    <2>1. \E v \in {"waiting", "timedout", "answered"} : hpc' = [hpc EXCEPT ![c] = v]
      BY Zenon, <1>1 DEF Process, TimerFires, Resume
    <2>2. QED  BY ZenonT(30), <2>1, TableTypes DEF Typed
  <1>2. CASE Start \/ Stop \/ (\E g \in Gens : ListenerStep(g)) \/ UNCHANGED hpc
    BY Zenon, <1>2 DEF Start, Stop, ListenerStep, Select, Receive, Complete, callVars
  <1>3. QED  BY Zenon, <1>1, <1>2, CallFrame

LEMMA SentOnceStep ==
  ASSUME Typed, SentOnce, [Next]_vars PROVE SentOnce'
  <1>1. reqQ \in Seq(Messages)
    BY Zenon DEF Typed, TypeOK
  <1>2. ASSUME NEW c \in Calls, Process(c) PROVE SentOnce'
    <2>1. UNCHANGED job /\ hpc[c] = "idle" /\ job[c] = "none"
      BY Zenon, <1>2 DEF Process, childVars, SentOnce
    <2>2. \A d \in Calls : hpc'[d] = "idle" => hpc[d] = "idle"
      BY Zenon, HandlerFrame
    <2>3. CASE alive /\ accepting
      <3> DEFINE m == [type |-> "process", call |-> c]
      <3>1. reqQ' = Append(reqQ, m) /\ hpc' = [hpc EXCEPT ![c] = "waiting"]
        BY Zenon, <1>2, <2>3 DEF Process
      <3>2. hpc'[c] = "waiting"
        BY <3>1, TableTypes DEF Typed
      <3>3. \A k \in 1..Len(reqQ') :
              \/ k \in 1..Len(reqQ) /\ reqQ'[k] = reqQ[k]
              \/ k = Len(reqQ) + 1 /\ reqQ'[k] = m
        BY <1>1, <3>1 DEF InHands
      <3>4. \A k \in 1..Len(reqQ) : reqQ[k].type = "process" => reqQ[k].call # c
        BY Zenon, <2>1 DEF SentOnce
      <3>5. \A k \in 1..Len(reqQ) : reqQ[k].type = "process" => reqQ[k].call \in Calls
        BY <1>1, MessageParts
      <3>6. m.type = "process" /\ m.call = c
        OBVIOUS
      <3>7. ASSUME NEW k \in 1..Len(reqQ'), reqQ'[k].type = "process"
            PROVE  /\ hpc'[reqQ'[k].call] # "idle" /\ job'[reqQ'[k].call] = "none"
                   /\ \A l \in 1..Len(reqQ') :
                        reqQ'[l].type = "process" /\ reqQ'[l].call = reqQ'[k].call => l = k
        <4> HIDE DEF m
        <4> QED  BY <2>1, <2>2, <3>2, <3>3, <3>4, <3>5, <3>6, <3>7 DEF SentOnce
      <3>8. QED  BY Zenon, <2>1, <2>2, <3>7 DEF SentOnce
    <2>4. CASE ~(alive /\ accepting)
      <3>1. UNCHANGED reqQ
        BY Zenon, <1>2, <2>4 DEF Process
      <3>2. \A k \in 1..Len(reqQ) : reqQ[k].type = "process" => reqQ[k].call \in Calls
        BY <1>1, MessageParts
      <3>3. QED  BY Zenon, <2>1, <2>2, <3>1, <3>2 DEF SentOnce
    <2>5. QED  BY <2>3, <2>4
  <1>3. CASE ChildProcess
    <2> DEFINE c == Head(reqQ).call
    <2>1. /\ reqQ # <<>> /\ Head(reqQ).type = "process" /\ reqQ' = Tail(reqQ)
          /\ job' = [job EXCEPT ![c] = "queued"] /\ UNCHANGED hpc
      BY Zenon, <1>3 DEF ChildProcess, Takes, callVars
    <2>2. /\ Head(reqQ) = reqQ[1] /\ 1 \in 1..Len(reqQ)
          /\ \A k \in 1..Len(reqQ') : /\ k + 1 \in 1..Len(reqQ) /\ k + 1 # 1
                                      /\ reqQ'[k] = reqQ[k + 1]
      BY <1>1, <2>1
    <2>3. c \in Calls /\ hpc[c] # "idle"
      BY Zenon, <2>1, <2>2, RequestQueue, MessageParts DEF SentOnce, Typed
    <2>4. \A k \in 1..Len(reqQ') : reqQ'[k].type = "process" => reqQ'[k].call # c
      BY Zenon, <2>1, <2>2 DEF SentOnce
    <2>5. \A d : d \in Calls /\ d # c => job'[d] = job[d]
      BY <2>1, <2>3, TableTypes DEF Typed
    <2>6. \A k \in 1..Len(reqQ) : reqQ[k].type = "process" => reqQ[k].call \in Calls
      BY <1>1, MessageParts
    <2>7. \A k \in 1..Len(reqQ') : reqQ'[k].type = "process" =>
            /\ hpc'[reqQ'[k].call] # "idle" /\ job'[reqQ'[k].call] = "none"
            /\ \A l \in 1..Len(reqQ') :
                 reqQ'[l].type = "process" /\ reqQ'[l].call = reqQ'[k].call => l + 1 = k + 1
      BY <2>1, <2>2, <2>4, <2>5, <2>6 DEF SentOnce
    <2>8. \A k, l \in 1..Len(reqQ') : l + 1 = k + 1 => l = k
      OBVIOUS
    <2>9. QED  BY <2>1, <2>3, <2>5, <2>7, <2>8 DEF SentOnce
  <1>4. CASE ~ChildProcess /\ ~ \E c \in Calls : Process(c)
    <2>1. PICK d \in {0, 1} : \A k \in 1..Len(reqQ') : reqQ'[k].type = "process" =>
            k + d \in 1..Len(reqQ) /\ reqQ'[k] = reqQ[k + d]
      BY Zenon, <1>4, QueueFrame, NoNewProcess
    <2>2. \A c \in Calls : job'[c] = job[c] \/ job[c] \in {"queued", "running"}
      BY Zenon, <1>4, JobFrame
    <2>3. \A c \in Calls : hpc'[c] = "idle" => hpc[c] = "idle"
      BY Zenon, HandlerFrame
    <2>4. \A k \in 1..Len(reqQ) : reqQ[k].type = "process" => reqQ[k].call \in Calls
      BY <1>1, MessageParts
    <2>5. \A k \in 1..Len(reqQ') : reqQ'[k].type = "process" =>
            /\ hpc'[reqQ'[k].call] # "idle" /\ job'[reqQ'[k].call] = "none"
            /\ \A l \in 1..Len(reqQ') :
                 reqQ'[l].type = "process" /\ reqQ'[l].call = reqQ'[k].call => l + d = k + d
      <3> SUFFICES ASSUME NEW k \in 1..Len(reqQ'), reqQ'[k].type = "process"
                   PROVE  /\ hpc'[reqQ'[k].call] # "idle" /\ job'[reqQ'[k].call] = "none"
                          /\ \A l \in 1..Len(reqQ') :
                               reqQ'[l].type = "process" /\ reqQ'[l].call = reqQ'[k].call
                                 => l + d = k + d
        OBVIOUS
      <3>1. k + d \in 1..Len(reqQ) /\ reqQ'[k] = reqQ[k + d] /\ reqQ'[k].call \in Calls
        BY Zenon, <2>1, <2>4
      <3>2. hpc[reqQ'[k].call] # "idle" /\ job[reqQ'[k].call] = "none"
        BY Zenon, <3>1 DEF SentOnce
      <3>3. ASSUME NEW l \in 1..Len(reqQ'), reqQ'[l].type = "process",
                   reqQ'[l].call = reqQ'[k].call
            PROVE  l + d = k + d
        BY ZenonT(30), <2>1, <3>1, <3>3 DEF SentOnce
      <3>4. QED  BY Zenon, <2>2, <2>3, <3>1, <3>2, <3>3
    <2>6. \A k, l \in 1..Len(reqQ') : l + d = k + d => l = k
      OBVIOUS
    <2>7. QED  BY <2>2, <2>3, <2>5, <2>6 DEF SentOnce
  <1>5. QED  BY Zenon, <1>2, <1>3, <1>4

LEMMA JobKept ==
  ASSUME Typed, SentOnce, [Next]_vars
  PROVE  \A c \in Calls : job[c] \in Outcomes => job'[c] = job[c]
  <1>1. CASE ChildProcess
    <2>1. /\ reqQ # <<>> /\ Head(reqQ).type = "process"
          /\ job' = [job EXCEPT ![Head(reqQ).call] = "queued"]
      BY Zenon, <1>1 DEF ChildProcess, Takes
    <2>2. reqQ \in Seq(Messages)
      BY DEF Typed, TypeOK
    <2>3. Head(reqQ) = reqQ[1] /\ 1 \in 1..Len(reqQ)
      BY <2>1, <2>2
    <2>4. job[Head(reqQ).call] = "none"
      BY Zenon, <2>1, <2>3 DEF SentOnce
    <2>5. QED  BY <2>1, <2>4, TableTypes DEF Typed, Outcomes
  <1>2. CASE \A c \in Calls : job'[c] = job[c] \/ job[c] \in {"queued", "running"}
    BY Zenon, <1>2 DEF Outcomes
  <1>3. QED  BY Zenon, <1>1, <1>2, JobFrame

(* A result in a queue was there before, or reports the job that has just   *)
(* ended.                                                                   *)
LEMMA ResultFrame ==
  ASSUME Typed, [Next]_vars, NEW g \in Gens, NEW k \in 1..Len(resQ'[g]), resQ'[g][k] # STOP
  PROVE  \/ \E l \in 1..Len(resQ[g]) : resQ[g][l] = resQ'[g][k]
         \/ resQ'[g][k].call \in Calls /\ job'[resQ'[g][k].call] = resQ'[g][k].outcome
  <1>1. resQ \in [Gens -> Seq(Results)] /\ resQ[g] \in Seq(Results)
    BY Zenon, ResultQueue DEF Typed
  <1>2. CASE Kill
    <2>1. resQ' = [resQ EXCEPT ![gen] = Append(@, STOP)]
      BY Zenon, <1>2 DEF Kill
    <2>2. resQ'[g] = resQ[g] \/ resQ'[g] = Append(resQ[g], STOP)
      BY Zenon, <1>1, <2>1
    <2>3. OneMore(Append(resQ[g], STOP), resQ[g], STOP)
      BY Zenon, <1>1, Appended
    <2>4. QED  BY Zenon, <2>2, <2>3 DEF OneMore
  <1>3. ASSUME NEW h \in Gens, Receive(h) PROVE \E l \in 1..Len(resQ[g]) : resQ[g][l] = resQ'[g][k]
    <2>1. /\ resQ' = [resQ EXCEPT ![lq[h]] = Tail(resQ[lq[h]])] /\ resQ[lq[h]] # <<>>
      BY Zenon, <1>3 DEF Receive
    <2>2. resQ'[g] = resQ[g] \/ (resQ[g] # <<>> /\ resQ'[g] = Tail(resQ[g]))
      BY Zenon, <1>1, <2>1
    <2>3. CASE resQ[g] # <<>> /\ resQ'[g] = Tail(resQ[g])
      <3>1. k + 1 \in 1..Len(resQ[g]) /\ resQ[g][k + 1] = resQ'[g][k]
        <4>1. OneLess(resQ'[g], resQ[g])
          BY Zenon, <1>1, <2>3, Shortened
        <4>2. QED  BY Zenon, <4>1 DEF OneLess
      <3>2. QED  BY Zenon, <3>1
    <2>4. QED  BY Zenon, <2>2, <2>3
  <1>4. ASSUME NEW c \in Calls, JobEnd(c)
        PROVE  \/ \E l \in 1..Len(resQ[g]) : resQ[g][l] = resQ'[g][k]
               \/ resQ'[g][k].call \in Calls /\ job'[resQ'[g][k].call] = resQ'[g][k].outcome
    <2>1. PICK o \in Outcomes :
            /\ job' = [job EXCEPT ![c] = o]
            /\ resQ' = [resQ EXCEPT ![gen] = Append(@, [call |-> c, outcome |-> o])]
      BY Zenon, <1>4 DEF JobEnd
    <2>2. job'[c] = o
      BY <2>1, TableTypes DEF Typed
    <2>3. resQ'[g] = resQ[g] \/ resQ'[g] = Append(resQ[g], [call |-> c, outcome |-> o])
      BY Zenon, <1>1, <2>1
    <2>4. OneMore(Append(resQ[g], [call |-> c, outcome |-> o]), resQ[g], [call |-> c, outcome |-> o])
      BY Zenon, <1>1, Appended
    <2>5. (\E l \in 1..Len(resQ[g]) : resQ[g][l] = resQ'[g][k])
          \/ resQ'[g][k] = [call |-> c, outcome |-> o]
      BY Zenon, <2>3, <2>4 DEF OneMore
    <2>6. QED  BY <2>2, <2>5
  <1>5. CASE UNCHANGED resQ
    BY Zenon, <1>5
  <1>6. \/ Kill \/ (\E h \in Gens : Receive(h)) \/ (\E c \in Calls : JobEnd(c)) \/ UNCHANGED resQ
    <2>1. CASE \/ Start \/ (\E c \in Calls : Process(c) \/ TimerFires(c) \/ Resume(c))
               \/ Status \/ (\E i \in Ids : Cancel(i)) \/ (\E a \in Addresses : AddLlmServer(a))
               \/ ClearLlmServer \/ Stop \/ UNCHANGED vars
      BY Zenon, <2>1 DEF Start, Process, TimerFires, Resume, Status, Cancel, AddLlmServer,
         ClearLlmServer, Stop, vars, queueVars
    <2>2. CASE \/ ControlStep \/ (\E h \in Gens : ListenerStep(h)) \/ (\E c \in Calls : JobStep(c))
               \/ ChildCrash
      BY Zenon, <2>2 DEF ControlStep, TakeAck, AckTimeout, Join, ListenerStep, Select, Complete,
         JobStep, JobStart, ChildCrash, queueVars
    <2>3. CASE ChildStep
      BY Zenon, <2>3 DEF ChildStep, ChildProcess, ChildCancel, ChildAdd, ChildClear, ChildStatus,
         ChildStop, ChildExit, queueVars
    <2>4. QED  BY Zenon, <2>1, <2>2, <2>3 DEF Next
  <1>7. QED  BY Zenon, <1>2, <1>3, <1>4, <1>5, <1>6

LEMMA TruthfulQueues ==
  ASSUME Typed, SentOnce, InQueues, [Next]_vars PROVE InQueues'
  <1> SUFFICES ASSUME NEW g \in Gens, NEW k \in 1..Len(resQ'[g]), resQ'[g][k] # STOP
               PROVE  job'[resQ'[g][k].call] = resQ'[g][k].outcome
    BY Zenon DEF InQueues
  <1>1. ASSUME NEW l \in 1..Len(resQ[g]), resQ[g][l] = resQ'[g][k]
        PROVE  job'[resQ'[g][k].call] = resQ'[g][k].outcome
    <2>1. resQ[g] \in Seq(Results)
      BY Zenon, ResultQueue DEF Typed
    <2>2. resQ[g][l].call \in Calls /\ resQ[g][l].outcome \in Outcomes
      BY <1>1, <2>1, ResultMessages
    <2>3. job[resQ[g][l].call] = resQ[g][l].outcome
      BY Zenon, <1>1 DEF InQueues
    <2>4. QED  BY Zenon, <1>1, <2>2, <2>3, JobKept
  <1>2. QED  BY Zenon, <1>1, ResultFrame

LEMMA TruthfulStep ==
  ASSUME InjectiveIds, Typed, Owned, SentOnce, Truthful, [Next]_vars PROVE Truthful'
  <1>1. InHands /\ InFutures /\ SuccessIsEarned /\ InQueues /\ InQueues'
    BY Zenon, TruthfulQueues DEF Truthful
  <1>2. \A c \in Calls : job[c] \in Outcomes => job'[c] = job[c]
    BY Zenon, JobKept
  <1>3. "ok" \in Outcomes
    BY Zenon DEF Outcomes
  <1>4. UNCHANGED <<lpc, held>> => InHands'
    BY Zenon, <1>1, <1>2 DEF InHands
  <1>5. (\A c \in Calls : fut'[c] = "ok" => fut[c] = "ok") => InFutures'
    BY Zenon, <1>1, <1>2, <1>3 DEF InFutures
  <1>6. (\A c \in Calls : code'[c] = 200 => code[c] = 200) => SuccessIsEarned'
    BY <1>1, <1>2, <1>3 DEF SuccessIsEarned
  <1>7. CASE Start
    <2>1. lpc' = [lpc EXCEPT ![starts + 1] = "select"] /\ UNCHANGED <<fut, code, held>>
      BY Zenon, <1>7 DEF Start, callVars
    <2>2. \A g \in Gens : lpc'[g] \in Outcomes => lpc'[g] = lpc[g]
      BY <2>1, TableTypes DEF Typed, Outcomes
    <2>3. InHands'
      BY Zenon, <1>1, <1>2, <2>1, <2>2 DEF InHands
    <2>4. QED  BY Zenon, <1>1, <1>5, <1>6, <2>1, <2>3 DEF Truthful
  <1>8. ASSUME NEW c \in Calls, Process(c) \/ TimerFires(c) \/ Resume(c) PROVE Truthful'
    <2>1. UNCHANGED <<lpc, held>>
      BY Zenon, <1>8 DEF Process, TimerFires, Resume, listenerVars
    <2>2. \A d \in Calls : fut'[d] = "ok" => fut[d] = "ok"
      <3>1. \/ UNCHANGED fut
            \/ \E v \in {"pending", "cancelled", fut[c]} : fut' = [fut EXCEPT ![c] = v]
        BY Zenon, <1>8 DEF Process, TimerFires, Resume
      <3>2. QED  BY <3>1, TableTypes DEF Typed
    <2>3. SuccessIsEarned'
      <3>1. CASE Process(c) \/ TimerFires(c)
        <4>1. UNCHANGED code \/ code' = [code EXCEPT ![c] = 503]
          BY Zenon, <3>1 DEF Process, TimerFires
        <4>2. \A d \in Calls : code'[d] = 200 => code[d] = 200
          BY <4>1, TableTypes DEF Typed
        <4>3. QED  BY Zenon, <1>6, <4>2
      <3>2. CASE Resume(c)
        <4>1. code' = [code EXCEPT ![c] = Reply(c)]
          BY Zenon, <3>2 DEF Resume
        <4>2. Reply(c) = 200 => fut[c] = "ok"
          BY DEF Reply
        <4>3. \A d \in Calls : code'[d] = 200 => code[d] = 200 \/ fut[d] = "ok"
          BY <4>1, <4>2, TableTypes DEF Typed
        <4>4. QED  BY <1>1, <1>2, <1>3, <4>3 DEF SuccessIsEarned, InFutures
      <3>3. QED  BY Zenon, <1>8, <3>1, <3>2
    <2>4. QED  BY Zenon, <1>1, <1>4, <1>5, <2>1, <2>2, <2>3 DEF Truthful
  <1>9. CASE Stop
    <2>1. UNCHANGED <<lpc, held, code>>
      BY Zenon, <1>9 DEF Stop, listenerVars
    <2>2. \A c \in Calls : fut'[c] = "ok" => fut[c] = "ok"
      BY Zenon, <1>9 DEF Stop, RejectAll
    <2>3. QED  BY Zenon, <1>1, <1>4, <1>5, <1>6, <2>1, <2>2 DEF Truthful
  <1>10. ASSUME NEW g \in Gens, ListenerStep(g) PROVE Truthful'
    <2>1. UNCHANGED code
      BY Zenon, <1>10 DEF ListenerStep, Select, Receive, Complete, callVars
    <2>2. CASE Select(g)
      <3>1. /\ lpc' = [lpc EXCEPT ![g] = IF gen = 0 THEN "ended" ELSE "get"]
            /\ UNCHANGED <<fut, held>>
        BY Zenon, <2>2 DEF Select, callVars
      <3>2. \A h \in Gens : lpc'[h] \in Outcomes => lpc'[h] = lpc[h]
        BY <3>1, TableTypes DEF Typed, Outcomes
      <3>3. InHands'
        BY Zenon, <1>1, <1>2, <3>1, <3>2 DEF InHands
      <3>4. QED  BY Zenon, <1>1, <1>5, <1>6, <2>1, <3>1, <3>3 DEF Truthful
    <2>3. CASE Receive(g)
      <3>1. UNCHANGED fut /\ lq[g] \in Gens
        BY Zenon, <2>3 DEF Receive, Typed
      <3>2. CASE lpc' = [lpc EXCEPT ![g] = "ended"] /\ UNCHANGED <<held, futures>>
        <4>1. \A h \in Gens : lpc'[h] \in Outcomes => lpc'[h] = lpc[h]
          BY <3>2, TableTypes DEF Typed, Outcomes
        <4>2. InHands'
          BY Zenon, <1>1, <1>2, <3>2, <4>1 DEF InHands
        <4>3. QED  BY Zenon, <1>1, <1>5, <1>6, <2>1, <3>1, <4>2 DEF Truthful
      <3>3. ASSUME NEW c \in Calls, NEW o \in Outcomes, NEW k \in 1..Len(resQ[lq[g]]),
                   resQ[lq[g]][k] # STOP,
                   resQ[lq[g]][k].call = c, resQ[lq[g]][k].outcome = o,
                   lpc' = [lpc EXCEPT ![g] = IF futures[IdOf[c]] = NoCall THEN "select" ELSE o],
                   held' = [held EXCEPT ![g] = futures[IdOf[c]]]
            PROVE  Truthful'
        <4>1. job[c] = o
          BY Zenon, <1>1, <3>1, <3>3 DEF InQueues
        <4>2. IdOf[c] \in Ids /\ futures[IdOf[c]] \in Calls \union {NoCall}
          BY TableTypes, Constants DEF Typed
        <4>3. futures[IdOf[c]] # NoCall => futures[IdOf[c]] = c
          BY Zenon, <4>2 DEF Owned, InjectiveIds
        <4>4. \A h \in Gens : h # g => lpc'[h] = lpc[h] /\ held'[h] = held[h]
          BY <3>3, TableTypes DEF Typed
        <4>5. lpc'[g] \in Outcomes => held'[g] = c /\ lpc'[g] = o
          BY <3>3, <4>3, TableTypes DEF Typed, Outcomes
        <4>6. InHands'
          BY <1>1, <1>2, <4>1, <4>4, <4>5 DEF InHands
        <4>7. QED  BY Zenon, <1>1, <1>5, <1>6, <2>1, <3>1, <4>6 DEF Truthful
      <3>4. QED  BY <2>3, <3>2, <3>3, Received
    <2>4. CASE Complete(g)
      <3>1. /\ lpc[g] \in Outcomes
            /\ fut' = [fut EXCEPT ![held[g]] = IF @ = "pending" THEN lpc[g] ELSE @]
            /\ held' = [held EXCEPT ![g] = NoCall]
            /\ lpc' = [lpc EXCEPT ![g] = "select"]
        BY Zenon, <2>4 DEF Complete
      <3>2. held[g] \in Calls /\ job[held[g]] = lpc[g]
        BY Zenon, <1>1, <3>1 DEF InHands
      <3>3. \A c \in Calls : fut'[c] = "ok" => fut[c] = "ok" \/ job[c] = "ok"
        BY ZenonT(30), <3>1, <3>2, TableTypes DEF Typed
      <3>4. InFutures'
        BY Zenon, <1>1, <1>2, <1>3, <3>3 DEF InFutures
      <3>5. \A h \in Gens : lpc'[h] \in Outcomes => lpc'[h] = lpc[h] /\ held'[h] = held[h]
        BY <3>1, TableTypes DEF Typed, Outcomes
      <3>6. InHands'
        BY ZenonT(30), <1>1, <1>2, <3>5 DEF InHands
      <3>7. QED  BY Zenon, <1>1, <1>6, <2>1, <3>4, <3>6 DEF Truthful
    <2>5. QED  BY Zenon, <1>10, <2>2, <2>3, <2>4 DEF ListenerStep
  <1>11. CASE UNCHANGED <<starts, futures, fut, hpc, code, lpc, held>>
    BY Zenon, <1>1, <1>4, <1>5, <1>6, <1>11 DEF Truthful
  <1>12. QED  BY Zenon, <1>7, <1>8, <1>9, <1>10, <1>11, CallFrame

-----------------------------------------------------------------------------
(* The theorem *)

LEMMA CInvInit == Init => CInv
  <1> SUFFICES ASSUME Init PROVE CInv
    OBVIOUS
  <1>1. Typed /\ Owned /\ Reachable
    BY Zenon, FuturesInit
  <1>2. SentOnce
    BY DEF Init, SentOnce
  <1>3. Truthful
    BY DEF Init, Truthful, InQueues, InHands, InFutures, SuccessIsEarned, Outcomes
  <1>4. QED  BY Zenon, <1>1, <1>2, <1>3 DEF CInv

LEMMA CInvStep == ASSUME InjectiveIds, CInv, [Next]_vars PROVE CInv'
  BY Zenon, TypedStep, OwnedStep, ReachableStep, SentOnceStep, TruthfulStep DEF CInv

(* If no two requests share a job id, /process answers 200 only for a job   *)
(* that ended with a result, whatever child, listener or queue carried it.  *)
THEOREM SuccessEarned == ASSUME InjectiveIds PROVE Spec => []SuccessIsEarned
  <1>1. Init => CInv
    BY Zenon, CInvInit
  <1>2. CInv /\ [Next]_vars => CInv'
    BY Zenon, CInvStep
  <1>3. CInv => SuccessIsEarned
    BY Zenon DEF CInv, Truthful
  <1>4. QED  BY <1>1, <1>2, <1>3, PTL DEF Spec
-----------------------------------------------------------------------------
(* The addresses of the child *)

(* A message of the queue behind position k clears the addresses.           *)
Cleared(q, k) == \E l \in 1..Len(q) : l > k /\ q[l].type = "clear"

(* A child with the addresses S that handles the messages of q has address  *)
(* a afterwards: it is added and not cleared again, or has been there and   *)
(* is not cleared.                                                          *)
Due(q, S, a) ==
  \/ a \in S /\ ~Cleared(q, 0)
  \/ \E k \in 1..Len(q) : q[k].type = "add" /\ q[k].address = a /\ ~Cleared(q, k)

(* The addresses of the child, after the messages that it has still to      *)
(* handle, are the buffered ones; and /stop throws the queue away only when *)
(* the child is dead.                                                       *)
AddressInv ==
  /\ op.kind = "join" => ~alive
  /\ alive => \A a \in Addresses : a \in buffer <=> Due(reqQ, addresses, a)

(* A message is put on the queue.                                           *)
LEMMA DueAppend ==
  ASSUME NEW q \in Seq(Messages), NEW m \in Messages, NEW S, NEW a
  PROVE  /\ m.type = "clear" => ~Due(Append(q, m), S, a)
         /\ m.type = "add" => (Due(Append(q, m), S, a) <=> Due(q, S, a) \/ m.address = a)
         /\ m.type \notin {"add", "clear"} => (Due(Append(q, m), S, a) <=> Due(q, S, a))
  <1> DEFINE p == Append(q, m)
             n == Len(q) + 1
  <1>1. /\ Len(q) \in Nat /\ Len(p) = n
        /\ \A k \in 1..n : k \in 1..Len(q) \/ k = n
        /\ \A k \in 1..Len(q) : k \in 1..n /\ p[k] = q[k] /\ n > k
        /\ n \in 1..n /\ p[n] = m /\ n > 0 /\ ~(n > n)
    OBVIOUS
  <1> HIDE DEF p, n
  <1>2. CASE m.type = "clear"
    <2>1. Cleared(p, 0) /\ \A k \in 1..Len(q) : Cleared(p, k)
      BY Zenon, <1>1, <1>2 DEF Cleared
    <2>2. ~Due(p, S, a)
      <3>1. "clear" # "add"
        OBVIOUS
      <3>2. QED  BY Zenon, <1>1, <1>2, <2>1, <3>1 DEF Due
    <2>3. QED  BY Zenon, <1>2, <2>2 DEF p
  <1>3. CASE m.type # "clear"
    <2>1. \A k : (k = 0 \/ k \in 1..Len(q)) => (Cleared(p, k) <=> Cleared(q, k))
      BY Zenon, <1>1, <1>3 DEF Cleared
    <2>2. ~Cleared(p, n)
      <3>1. \A l \in 1..Len(q) : ~(l > n)
        BY <1>1 DEF n
      <3>2. QED  BY Zenon, <1>1, <1>3, <3>1 DEF Cleared
    <2>3. Due(p, S, a) <=> Due(q, S, a) \/ (m.type = "add" /\ m.address = a)
      <3>1. ASSUME Due(p, S, a) PROVE Due(q, S, a) \/ (m.type = "add" /\ m.address = a)
        BY ZenonT(30), <1>1, <2>1, <3>1 DEF Due
      <3>2. ASSUME Due(q, S, a) PROVE Due(p, S, a)
        BY ZenonT(30), <1>1, <2>1, <3>2 DEF Due
      <3>3. ASSUME m.type = "add", m.address = a PROVE Due(p, S, a)
        BY Zenon, <1>1, <2>2, <3>3 DEF Due
      <3>4. QED  BY Zenon, <3>1, <3>2, <3>3
    <2>4. QED  BY Zenon, <1>3, <2>3 DEF p
  <1>4. QED  BY Zenon, <1>2, <1>3 DEF p

(* The child takes the first message, which changes its addresses to T.     *)
LEMMA DueTail ==
  ASSUME NEW q \in Seq(Messages), q # <<>>, NEW S, NEW T, NEW a,
         Head(q).type = "clear" => T = {},
         Head(q).type = "add" => T = S \union {Head(q).address},
         Head(q).type \notin {"add", "clear"} => T = S
  PROVE  Due(Tail(q), T, a) <=> Due(q, S, a)
  <1> DEFINE p == Tail(q)
  <1>1. /\ Len(q) \in Nat /\ 1 \in 1..Len(q) /\ Head(q) = q[1]
        /\ \A k \in 1..Len(p) : k + 1 \in 1..Len(q) /\ p[k] = q[k + 1] /\ k + 1 > 1 /\ k > 0
        /\ \A k \in 1..Len(q) : k > 0 /\ (k = 1 \/ (k - 1 \in 1..Len(p) /\ p[k - 1] = q[k] /\ k > 1))
    OBVIOUS
  <1> HIDE DEF p
  <1>2. Cleared(p, 0) <=> Cleared(q, 1)
    <2>1. ASSUME NEW l \in 1..Len(p), p[l].type = "clear" PROVE Cleared(q, 1)
      <3>1. l + 1 \in 1..Len(q) /\ l + 1 > 1 /\ q[l + 1].type = "clear"
        BY Zenon, <1>1, <2>1
      <3>2. QED  BY Zenon, <3>1 DEF Cleared
    <2>2. ASSUME NEW l \in 1..Len(q), l > 1, q[l].type = "clear" PROVE Cleared(p, 0)
      <3>1. l - 1 \in 1..Len(p) /\ l - 1 > 0 /\ p[l - 1].type = "clear"
        BY <1>1, <2>2
      <3>2. QED  BY Zenon, <3>1 DEF Cleared
    <2>3. QED  BY Zenon, <2>1, <2>2 DEF Cleared
  <1>3. \A k \in 1..Len(p) : Cleared(p, k) <=> Cleared(q, k + 1)
    <2> SUFFICES ASSUME NEW k \in 1..Len(p) PROVE Cleared(p, k) <=> Cleared(q, k + 1)
      OBVIOUS
    <2>1. ASSUME NEW l \in 1..Len(p), l > k, p[l].type = "clear" PROVE Cleared(q, k + 1)
      <3>1. l + 1 \in 1..Len(q) /\ l + 1 > k + 1 /\ q[l + 1].type = "clear"
        BY <1>1, <2>1
      <3>2. QED  BY Zenon, <3>1 DEF Cleared
    <2>2. ASSUME NEW l \in 1..Len(q), l > k + 1, q[l].type = "clear" PROVE Cleared(p, k)
      <3>1. l # 1 /\ l - 1 > k
        BY <2>2
      <3>2. QED  BY Zenon, <1>1, <2>2, <3>1 DEF Cleared
    <2>3. QED  BY Zenon, <2>1, <2>2 DEF Cleared
  <1>4. Cleared(q, 0) <=> Head(q).type = "clear" \/ Cleared(q, 1)
    BY ZenonT(30), <1>1 DEF Cleared
  <1>5. Due(q, S, a) <=> \/ a \in S /\ ~Cleared(q, 0)
                         \/ Head(q).type = "add" /\ Head(q).address = a /\ ~Cleared(q, 1)
                         \/ \E k \in 1..Len(p) : p[k].type = "add" /\ p[k].address = a
                                                   /\ ~Cleared(q, k + 1)
    <2>1. ASSUME NEW k \in 1..Len(q), q[k].type = "add", q[k].address = a, ~Cleared(q, k)
          PROVE  \/ Head(q).type = "add" /\ Head(q).address = a /\ ~Cleared(q, 1)
                 \/ \E l \in 1..Len(p) : p[l].type = "add" /\ p[l].address = a
                                           /\ ~Cleared(q, l + 1)
      <3>1. CASE k = 1
        BY Zenon, <1>1, <2>1, <3>1
      <3>2. CASE k # 1
        <4>1. k - 1 \in 1..Len(p) /\ p[k - 1] = q[k] /\ (k - 1) + 1 = k
          BY <1>1, <3>2
        <4>2. QED  BY Zenon, <2>1, <4>1
      <3>3. QED  BY Zenon, <3>1, <3>2
    <2>2. QED  BY ZenonT(30), <1>1, <2>1 DEF Due
  <1>6. Due(p, T, a) <=> \/ a \in T /\ ~Cleared(q, 1)
                         \/ \E k \in 1..Len(p) : p[k].type = "add" /\ p[k].address = a
                                                   /\ ~Cleared(q, k + 1)
    BY ZenonT(30), <1>2, <1>3 DEF Due
  <1>7. a \in T /\ ~Cleared(q, 1) <=>
          \/ a \in S /\ ~Cleared(q, 0)
          \/ Head(q).type = "add" /\ Head(q).address = a /\ ~Cleared(q, 1)
    <2>1. "clear" # "add"
      OBVIOUS
    <2>2. CASE Head(q).type = "clear"
      BY Zenon, <1>4, <2>1, <2>2
    <2>3. CASE Head(q).type = "add"
      BY Zenon, <1>4, <2>1, <2>3
    <2>4. CASE Head(q).type \notin {"add", "clear"}
      BY Zenon, <1>4, <2>4
    <2>5. QED  BY Zenon, <2>2, <2>3, <2>4
  <1>8. QED  BY Zenon, <1>5, <1>6, <1>7 DEF p
(* What a step has to keep that does not touch the queue ...                *)
LEMMA AddressKept ==
  ASSUME AddressInv, UNCHANGED <<alive, buffer, addresses, reqQ>>,
         op'.kind # "join" \/ UNCHANGED op
  PROVE  AddressInv'
  BY Zenon DEF AddressInv

(* ... or kills the child.                                                  *)
LEMMA AddressDead == ASSUME ~alive' PROVE AddressInv'
  BY Zenon DEF AddressInv

(* A handler sends a message.                                               *)
LEMMA AddressSent ==
  ASSUME Typed, AddressInv, NEW m \in Messages, reqQ' = Append(reqQ, m),
         UNCHANGED <<alive, addresses>>, op'.kind # "join" \/ UNCHANGED op,
         m.type = "clear" => buffer' = {},
         m.type = "add" => buffer' = buffer \union {m.address},
         m.type \notin {"add", "clear"} => buffer' = buffer
  PROVE  AddressInv'
  <1>1. op'.kind = "join" => ~alive'
    BY Zenon DEF AddressInv
  <1>2. ASSUME alive, NEW a \in Addresses PROVE a \in buffer' <=> Due(reqQ', addresses', a)
    <2>1. a \in buffer <=> Due(reqQ, addresses, a)
      BY Zenon, <1>2 DEF AddressInv
    <2>2. reqQ \in Seq(Messages)
      BY Zenon DEF Typed, TypeOK
    <2>3. CASE m.type = "clear"
      BY Zenon, <2>2, <2>3, DueAppend
    <2>4. CASE m.type = "add"
      BY Zenon, <2>1, <2>2, <2>4, DueAppend
    <2>5. CASE m.type \notin {"add", "clear"}
      BY Zenon, <2>1, <2>2, <2>5, DueAppend
    <2>6. QED  BY Zenon, <2>3, <2>4, <2>5
  <1>3. QED  BY Zenon, <1>1, <1>2 DEF AddressInv

(* The child takes one.                                                     *)
LEMMA AddressTaken ==
  ASSUME Typed, AddressInv, NEW t, Takes(t), UNCHANGED <<alive, buffer, op>>,
         t = "clear" => addresses' = {},
         t = "add" => addresses' = addresses \union {Head(reqQ).address},
         t \notin {"add", "clear"} => addresses' = addresses
  PROVE  AddressInv'
  <1>1. /\ reqQ \in Seq(Messages) /\ reqQ # <<>>
        /\ Head(reqQ).type = t /\ reqQ' = Tail(reqQ)
    BY Zenon DEF Typed, TypeOK, Takes
  <1>2. \A a : Due(Tail(reqQ), addresses', a) <=> Due(reqQ, addresses, a)
    BY Zenon, <1>1, DueTail
  <1>3. QED  BY Zenon, <1>1, <1>2 DEF AddressInv

LEMMA AddressControl ==
  ASSUME Typed, AddressInv,
         \/ Status \/ (\E i \in Ids : Cancel(i)) \/ (\E a \in Addresses : AddLlmServer(a))
         \/ ClearLlmServer \/ Stop
  PROVE  AddressInv'
  <1>1. sent + 1 \in Nat
    BY DEF Typed, TypeOK
  <1>2. \A kind, m : Request(kind, m) => op'.kind = kind /\ reqQ' = Append(reqQ, m)
    BY DEF Request
  <1>3. CASE Status
    <2> DEFINE m == [type |-> "status", rid |-> sent + 1]
    <2>1. Request("status", m) /\ UNCHANGED <<buffer, alive, addresses>>
      BY Zenon, <1>3 DEF Status, childVars
    <2>2. m \in Messages /\ m.type # "add" /\ m.type # "clear" /\ "status" # "join"
      BY Zenon, <1>1, MessageTypes
    <2> HIDE DEF m
    <2>3. reqQ' = Append(reqQ, m) /\ op'.kind # "join"
      BY Zenon, <1>2, <2>1, <2>2
    <2>4. QED  BY Zenon, <2>1, <2>2, <2>3, AddressSent
  <1>4. ASSUME NEW i \in Ids, Cancel(i) PROVE AddressInv'
    <2> DEFINE m == [type |-> "cancel", id |-> i, rid |-> sent + 1]
    <2>1. Request("cancel", m) /\ UNCHANGED <<buffer, alive, addresses>>
      BY Zenon, <1>4 DEF Cancel, childVars
    <2>2. m \in Messages /\ m.type # "add" /\ m.type # "clear" /\ "cancel" # "join"
      BY Zenon, <1>1, MessageTypes
    <2> HIDE DEF m
    <2>3. reqQ' = Append(reqQ, m) /\ op'.kind # "join"
      BY Zenon, <1>2, <2>1, <2>2
    <2>4. QED  BY Zenon, <2>1, <2>2, <2>3, AddressSent
  <1>5. CASE Stop
    <2> DEFINE m == [type |-> "stop", rid |-> sent + 1]
    <2>1. Request("stop", m) /\ UNCHANGED <<buffer, alive, addresses>>
      BY Zenon, <1>5 DEF Stop, childVars
    <2>2. m \in Messages /\ m.type # "add" /\ m.type # "clear" /\ "stop" # "join"
      BY Zenon, <1>1, MessageTypes
    <2> HIDE DEF m
    <2>3. reqQ' = Append(reqQ, m) /\ op'.kind # "join"
      BY Zenon, <1>2, <2>1, <2>2
    <2>4. QED  BY Zenon, <2>1, <2>2, <2>3, AddressSent
  <1>6. ASSUME NEW a \in Addresses, AddLlmServer(a) PROVE AddressInv'
    <2> DEFINE m == [type |-> "add", address |-> a, rid |-> sent + 1]
    <2>1. buffer' = buffer \union {a} /\ UNCHANGED <<alive, addresses>>
      BY Zenon, <1>6 DEF AddLlmServer, childVars
    <2>2. m \in Messages /\ m.type = "add" /\ m.address = a /\ "add" # "join" /\ "add" # "clear"
      BY Zenon, <1>1, MessageTypes
    <2>3. alive => Request("add", m)
      BY Zenon, <1>6 DEF AddLlmServer
    <2> HIDE DEF m
    <2>4. CASE alive
      BY Zenon, <1>2, <2>1, <2>2, <2>3, <2>4, AddressSent
    <2>5. QED  BY Zenon, <2>1, <2>4, AddressDead
  <1>7. CASE ClearLlmServer
    <2> DEFINE m == [type |-> "clear", rid |-> sent + 1]
    <2>1. buffer' = {} /\ UNCHANGED <<alive, addresses>>
      BY Zenon, <1>7 DEF ClearLlmServer, childVars
    <2>2. m \in Messages /\ m.type = "clear" /\ "clear" # "join" /\ "clear" # "add"
      BY Zenon, <1>1, MessageTypes
    <2>3. alive => Request("clear", m)
      BY Zenon, <1>7 DEF ClearLlmServer
    <2> HIDE DEF m
    <2>4. CASE alive
      BY Zenon, <1>2, <2>1, <2>2, <2>3, <2>4, AddressSent
    <2>5. QED  BY Zenon, <2>1, <2>4, AddressDead
  <1>8. QED  BY Zenon, <1>3, <1>4, <1>5, <1>6, <1>7

LEMMA AddressHandler ==
  ASSUME Typed, AddressInv, NEW c \in Calls, Process(c) \/ TimerFires(c) \/ Resume(c)
  PROVE  AddressInv'
  <1>1. UNCHANGED <<op, buffer, alive, addresses>>
    BY Zenon DEF Process, TimerFires, Resume, webVars, childVars
  <1>2. sent + 1 \in Nat /\ IdOf[c] \in Ids
    BY Constants DEF Typed, TypeOK
  <1>3. reqQ' = reqQ \/ \E m \in Messages : m.type \notin {"add", "clear"} /\ reqQ' = Append(reqQ, m)
    <2>1. [type |-> "process", call |-> c] \in Messages
      BY Zenon, MessageTypes
    <2>2. [type |-> "cancel", id |-> IdOf[c], rid |-> sent + 1] \in Messages
      BY Zenon, <1>2, MessageTypes
    <2>3. QED  BY Zenon, <2>1, <2>2 DEF Process, TimerFires, Resume, queueVars
  <1>4. QED  BY Zenon, <1>1, <1>3, AddressKept, AddressSent

LEMMA AddressChild == ASSUME Typed, AddressInv, ChildStep PROVE AddressInv'
  <1>1. CASE ChildProcess \/ ChildCancel \/ ChildStatus \/ ChildStop
    <2>1. /\ \E t \in {"process", "cancel", "status", "stop"} : Takes(t)
          /\ UNCHANGED <<alive, buffer, op, addresses>>
      BY Zenon, <1>1 DEF ChildProcess, ChildCancel, ChildStatus, ChildStop, webVars, childVars
    <2>2. \A t \in {"process", "cancel", "status", "stop"} : t # "add" /\ t # "clear"
      OBVIOUS
    <2>3. QED  BY Zenon, <2>1, <2>2, AddressTaken
  <1>2. CASE ChildAdd \/ ChildClear
    <2>1. "add" # "clear"
      OBVIOUS
    <2>2. QED  BY Zenon, <1>2, <2>1, AddressTaken DEF ChildAdd, ChildClear, webVars
  <1>3. CASE ChildExit
    BY Zenon, <1>3, AddressDead DEF ChildExit
  <1>4. QED  BY Zenon, <1>1, <1>2, <1>3 DEF ChildStep

LEMMA AddressStep == ASSUME Typed, AddressInv, [Next]_vars PROVE AddressInv'
  <1>1. CASE Start
    <2>1. reqQ' = <<>> /\ addresses' = buffer' /\ op'.kind = "none"
      BY Zenon, <1>1 DEF Start, NoOp
    <2>2. \A a, S : Due(<<>>, S, a) <=> a \in S
      BY DEF Due, Cleared
    <2>3. "none" # "join"
      OBVIOUS
    <2>4. QED  BY Zenon, <2>1, <2>2, <2>3 DEF AddressInv
  <1>2. CASE ControlStep
    <2>1. CASE TakeAck \/ AckTimeout
      <3>1. Unblock /\ UNCHANGED <<alive, buffer, addresses, reqQ>>
        BY Zenon, <2>1 DEF TakeAck, AckTimeout, queueVars, childVars
      <3>2. op'.kind # "join"
        BY Zenon, <3>1 DEF Unblock, NoOp, Typed, TypeOK
      <3>3. QED  BY Zenon, <3>1, <3>2, AddressKept
    <2>2. CASE Kill
      BY Zenon, <2>2, AddressDead DEF Kill
    <2>3. CASE Join
      BY Zenon, <2>3, AddressDead DEF Join, childVars, AddressInv
    <2>4. QED  BY Zenon, <1>2, <2>1, <2>2, <2>3 DEF ControlStep
  <1>3. CASE (\E g \in Gens : ListenerStep(g)) \/ (\E c \in Calls : JobStep(c)) \/ UNCHANGED vars
    <2>1. UNCHANGED <<op, alive, buffer, addresses, reqQ>>
      BY Zenon, <1>3 DEF ListenerStep, Select, Receive, Complete, JobStep, JobStart, JobEnd, vars,
         webVars, queueVars, childVars
    <2>2. QED  BY Zenon, <2>1, AddressKept
  <1>4. CASE ChildCrash
    BY Zenon, <1>4, AddressDead DEF ChildCrash
  <1>5. QED
    BY Zenon, <1>1, <1>2, <1>3, <1>4, AddressControl, AddressHandler, AddressChild DEF Next

(* The child's job server uses the buffered addresses but for the changes   *)
(* that are still in the request queue, however /add_llm_server and         *)
(* /clear_llm_server interleave with late acknowledgments, /stop, crashes   *)
(* and restarts.                                                            *)
THEOREM AddressesKnown == Spec => []AddressesAgree
  <1>1. Init => Typed /\ AddressInv
    <2>1. Init => AddressInv
      BY Zenon DEF Init, NoOp, AddressInv
    <2>2. QED  BY Zenon, <2>1, TypedInit
  <1>2. (Typed /\ AddressInv) /\ [Next]_vars => (Typed /\ AddressInv)'
    BY Zenon, TypedStep, AddressStep
  <1>3. Typed /\ AddressInv => AddressesAgree
    <2> SUFFICES ASSUME Typed, AddressInv, alive,
                        \A k \in 1..Len(reqQ) : reqQ[k].type \notin {"add", "clear"}
                 PROVE  addresses = buffer
      BY Zenon DEF AddressesAgree
    <2>1. \A a : Due(reqQ, addresses, a) <=> a \in addresses
      BY Zenon DEF Due, Cleared
    <2>2. buffer \subseteq Addresses /\ addresses \subseteq Addresses
      BY Zenon DEF Typed, TypeOK
    <2>3. QED  BY Zenon, <2>1, <2>2 DEF AddressInv
  <1>4. QED  BY <1>1, <1>2, <1>3, PTL DEF Spec
-----------------------------------------------------------------------------
(* Acknowledgments *)

(* No timer of the coordinator fires and no child dies by itself.           *)
Prompt == ~TimersFire /\ ~AckTimeouts /\ ~CrashAllowed

OnlyJobs(q) == \A k \in 1..Len(q) : q[k].type = "process"

(* The message of the control handler that blocks the loop is in the queue, *)
(* the only one of its kind, and the child will take it ...                 *)
Asked ==
  /\ ctlQ = <<>> /\ alive /\ looping
  /\ \E k \in 1..Len(reqQ) :
       /\ reqQ[k].type = op.kind /\ reqQ[k].rid = op.rid
       /\ \A l \in 1..Len(reqQ) : l # k => reqQ[l].type = "process"

(* ... or has been answered.                                                *)
Acked ==
  /\ Len(ctlQ) = 1 /\ Head(ctlQ).rid = op.rid
  /\ OnlyJobs(reqQ)
  /\ op.kind # "stop" => (alive => looping)

(* When no handler waits nothing is on its way.                             *)
AckInv ==
  /\ \A c \in Calls : hpc[c] # "timedout"
  /\ op.kind \in Kinds => Asked \/ Acked
  /\ op.kind \notin Kinds => ctlQ = <<>> /\ OnlyJobs(reqQ)
  /\ op.kind = "none" => (alive => looping)

LEMMA AckKept ==
  ASSUME AckInv, UNCHANGED <<op, ctlQ, reqQ, alive, looping, hpc>> PROVE AckInv'
  BY Zenon DEF AckInv, Asked, Acked

LEMMA AckControl ==
  ASSUME Typed, AckInv,
         \/ Status \/ (\E i \in Ids : Cancel(i)) \/ (\E a \in Addresses : AddLlmServer(a))
         \/ ClearLlmServer \/ Stop
  PROVE  AckInv'
  <1>1. /\ op.kind = "none" /\ UNCHANGED <<ctlQ, alive, looping, hpc>>
        /\ \/ UNCHANGED <<op, reqQ>>
           \/ /\ alive
              /\ \E kind \in Kinds : \E m : m.type = kind /\ m.rid = sent + 1 /\ Request(kind, m)
    <2>1. op = NoOp => op.kind = "none"
      BY DEF NoOp
    <2>2. CASE Status
      BY Zenon, <2>1, <2>2 DEF Status, CanControl, callVars, childVars, Kinds
    <2>3. ASSUME NEW i \in Ids, Cancel(i) PROVE <1>1!:
      BY Zenon, <2>1, <2>3 DEF Cancel, CanControl, callVars, childVars, Kinds
    <2>4. ASSUME NEW a \in Addresses, AddLlmServer(a) PROVE <1>1!:
      BY Zenon, <2>1, <2>4 DEF AddLlmServer, CanControl, callVars, childVars, Kinds
    <2>5. CASE ClearLlmServer
      BY Zenon, <2>1, <2>5 DEF ClearLlmServer, CanControl, callVars, childVars, Kinds
    <2>6. CASE Stop
      BY Zenon, <2>1, <2>6 DEF Stop, CanControl, childVars, Kinds
    <2>7. QED  BY Zenon, <2>2, <2>3, <2>4, <2>5, <2>6
  <1>2. CASE UNCHANGED <<op, reqQ>>
    BY Zenon, <1>1, <1>2, AckKept
  <1>3. ASSUME alive, NEW kind \in Kinds, NEW m, m.type = kind, m.rid = sent + 1, Request(kind, m)
        PROVE  AckInv'
    <2>1. reqQ' = Append(reqQ, m) /\ op'.kind = kind /\ op'.rid = m.rid
      BY Zenon, <1>3 DEF Request
    <2>2. "none" \notin Kinds
      BY Zenon DEF Kinds
    <2>3. ctlQ = <<>> /\ OnlyJobs(reqQ) /\ looping
      BY Zenon, <1>1, <1>3, <2>2 DEF AckInv
    <2>4. reqQ \in Seq(Messages)
      BY Zenon DEF Typed, TypeOK
    <2>5. /\ Len(reqQ) + 1 \in 1..Len(reqQ') /\ reqQ'[Len(reqQ) + 1] = m
          /\ \A l \in 1..Len(reqQ') : l # Len(reqQ) + 1 => l \in 1..Len(reqQ) /\ reqQ'[l] = reqQ[l]
      BY <2>1, <2>4
    <2>6. Asked'
      <3>1. reqQ'[Len(reqQ) + 1].type = op'.kind /\ reqQ'[Len(reqQ) + 1].rid = op'.rid
        BY Zenon, <1>3, <2>1, <2>5
      <3>2. \A l \in 1..Len(reqQ') : l # Len(reqQ) + 1 => reqQ'[l].type = "process"
        BY Zenon, <2>3, <2>5 DEF OnlyJobs
      <3>3. QED  BY Zenon, <1>1, <1>3, <2>3, <2>5, <3>1, <3>2 DEF Asked
    <2>7. op'.kind # "none"
      BY Zenon, <1>3, <2>1, <2>2
    <2>8. QED  BY Zenon, <1>1, <1>3, <2>1, <2>6, <2>7 DEF AckInv
  <1>4. QED  BY Zenon, <1>1, <1>2, <1>3

LEMMA AckHandler ==
  ASSUME Prompt, Typed, AckInv, NEW c \in Calls, Process(c) \/ TimerFires(c) \/ Resume(c)
  PROVE  AckInv'
  <1>1. hpc[c] # "timedout" /\ ~TimerFires(c)
    BY Zenon DEF AckInv, Prompt, TimerFires
  <1>2. /\ op.kind = "none" /\ UNCHANGED <<op, ctlQ, alive, looping>>
        /\ hpc' = [hpc EXCEPT ![c] = "waiting"] \/ hpc' = [hpc EXCEPT ![c] = "answered"]
        /\ reqQ' = reqQ \/ reqQ' = Append(reqQ, [type |-> "process", call |-> c])
    <2>1. op = NoOp => op.kind = "none"
      BY DEF NoOp
    <2>2. CASE Process(c)
      BY Zenon, <2>1, <2>2 DEF Process, webVars, childVars
    <2>3. CASE Resume(c)
      BY Zenon, <1>1, <2>1, <2>3 DEF Resume, webVars, childVars
    <2>4. QED  BY Zenon, <1>1, <2>2, <2>3
  <1>3. \A d \in Calls : hpc'[d] # "timedout"
    BY <1>2, TableTypes DEF AckInv, Typed
  <1>4. "none" \notin Kinds
    BY Zenon DEF Kinds
  <1>5. ctlQ = <<>> /\ OnlyJobs(reqQ) /\ (alive => looping)
    BY Zenon, <1>2, <1>4 DEF AckInv
  <1>6. OnlyJobs(reqQ')
    <2> DEFINE m == [type |-> "process", call |-> c]
    <2>1. reqQ \in Seq(Messages)
      BY Zenon DEF Typed, TypeOK
    <2>2. m.type = "process"
      OBVIOUS
    <2> HIDE DEF m
    <2>3. OneMore(Append(reqQ, m), reqQ, m)
      BY Zenon, <2>1, Appended
    <2>4. OnlyJobs(Append(reqQ, m))
      BY Zenon, <1>5, <2>2, <2>3 DEF OnlyJobs, OneMore
    <2>5. QED  BY Zenon, <1>2, <1>5, <2>4 DEF m
  <1>7. QED  BY Zenon, <1>2, <1>3, <1>4, <1>5, <1>6 DEF AckInv

LEMMA AckWait ==
  ASSUME Prompt, Typed, AddressInv, AckInv, ControlStep PROVE AckInv'
  <1>1. /\ "none" \notin Kinds /\ "kill" \notin Kinds /\ "join" \notin Kinds
        /\ "kill" # "none" /\ "join" # "none"
    BY Zenon DEF Kinds
  <1>2. CASE TakeAck
    <2>1. op.kind \in Kinds /\ ctlQ # <<>> /\ ctlQ' = Tail(ctlQ) /\ Unblock
          /\ UNCHANGED <<reqQ, alive, looping, hpc>>
      BY Zenon, <1>2 DEF TakeAck, callVars, childVars
    <2>2. Acked
      BY Zenon, <2>1 DEF AckInv, Asked
    <2>3. ctlQ' = <<>>
      <3>1. ctlQ \in Seq([type : Kinds, rid : Nat]) /\ Len(ctlQ) = 1
        BY Zenon, <2>2 DEF Acked, Typed, TypeOK
      <3>2. QED  BY <2>1, <3>1
    <2>4. op'.kind = "kill" \/ (op'.kind = "none" /\ op.kind # "stop")
      BY Zenon, <2>1 DEF Unblock, NoOp, Typed, TypeOK
    <2>5. QED  BY Zenon, <1>1, <2>1, <2>2, <2>3, <2>4 DEF AckInv, Acked
  <1>3. ~AckTimeout
    <2>1. ASSUME AckTimeout PROVE op.kind \in Kinds /\ ctlQ = <<>> /\ ~alive
      BY Zenon, <2>1 DEF AckTimeout, Prompt
    <2>2. ctlQ = <<>> => ~Acked
      BY DEF Acked
    <2>3. QED  BY Zenon, <2>1, <2>2 DEF AckInv, Asked
  <1>4. CASE Kill
    <2>1. op.kind = "kill" /\ op'.kind = "join" /\ UNCHANGED <<reqQ, ctlQ, hpc>>
      BY Zenon, <1>4 DEF Kill, callVars, Typed, TypeOK
    <2>2. QED  BY Zenon, <1>1, <2>1 DEF AckInv
  <1>5. CASE Join
    <2>1. /\ op'.kind = "none" /\ reqQ' = <<>> /\ ctlQ' = <<>>
          /\ op.kind = "join" /\ UNCHANGED <<alive, looping, hpc>>
      BY Zenon, <1>5 DEF Join, NoOp, callVars, childVars
    <2>2. OnlyJobs(<<>>)
      BY DEF OnlyJobs
    <2>3. QED  BY Zenon, <1>1, <2>1, <2>2 DEF AckInv, AddressInv
  <1>6. QED  BY Zenon, <1>2, <1>3, <1>4, <1>5 DEF ControlStep

(* The child takes a message: a job, or the one a handler waits for.        *)
LEMMA AckChild == ASSUME Typed, AckInv, ChildStep PROVE AckInv'
  <1>1. reqQ \in Seq(Messages) /\ ctlQ \in Seq([type : Kinds, rid : Nat]) /\ "process" \notin Kinds
    BY Zenon DEF Typed, TypeOK, Kinds
  <1>2. UNCHANGED <<op, hpc>>
    BY Zenon DEF ChildStep, ChildProcess, ChildCancel, ChildAdd, ChildClear, ChildStatus, ChildStop,
       ChildExit, webVars, callVars
  <1>3. CASE ChildExit
    <2>1. ~looping /\ ~alive' /\ UNCHANGED <<ctlQ, reqQ, looping>>
      BY Zenon, <1>3 DEF ChildExit, queueVars
    <2>2. QED  BY Zenon, <1>2, <2>1 DEF AckInv, Asked, Acked
  <1>4. CASE ~ChildExit
    <2> DEFINE t == Head(reqQ).type
    <2>1. /\ reqQ # <<>> /\ reqQ' = Tail(reqQ) /\ looping /\ UNCHANGED alive
          /\ t = "process" => UNCHANGED <<ctlQ, looping>>
          /\ t # "process" => Ack /\ (t # "stop" => UNCHANGED looping)
      BY Zenon, <1>4 DEF ChildStep, ChildProcess, ChildCancel, ChildAdd, ChildClear, ChildStatus,
         ChildStop, Takes, childVars
    <2>2. /\ 1 \in 1..Len(reqQ) /\ t = reqQ[1].type /\ Head(reqQ) = reqQ[1]
          /\ \A k \in 1..Len(reqQ') : /\ k + 1 \in 1..Len(reqQ) /\ k + 1 # 1
                                      /\ reqQ'[k] = reqQ[k + 1]
          /\ \A k \in 1..Len(reqQ) : k # 1 => k - 1 \in 1..Len(reqQ') /\ reqQ'[k - 1] = reqQ[k]
          /\ \A k \in 1..Len(reqQ), l \in 1..Len(reqQ') : l # k - 1 => l + 1 # k
      <3>1. OneLess(reqQ', reqQ)
        BY Zenon, <1>1, <2>1, Shortened
      <3>2. QED  BY Zenon, <3>1 DEF OneLess, t
    <2> HIDE DEF t
    <2>3. OnlyJobs(reqQ) => t = "process" /\ OnlyJobs(reqQ')
      <3>1. ASSUME OnlyJobs(reqQ), NEW k \in 1..Len(reqQ') PROVE reqQ'[k].type = "process"
        <4>1. reqQ[k + 1].type = "process" /\ reqQ'[k] = reqQ[k + 1]
          BY Zenon, <2>2, <3>1 DEF OnlyJobs
        <4>2. QED  BY Zenon, <4>1
      <3>2. QED  BY Zenon, <2>2, <3>1 DEF OnlyJobs
    <2>4. CASE op.kind \in Kinds /\ Asked
      <3>1. PICK k \in 1..Len(reqQ) :
              /\ reqQ[k].type = op.kind /\ reqQ[k].rid = op.rid
              /\ \A l \in 1..Len(reqQ) : l # k => reqQ[l].type = "process"
        BY Zenon, <2>4 DEF Asked
      <3>2. CASE k = 1
        <4>1. t = op.kind /\ t # "process" /\ Ack /\ (op.kind # "stop" => looping')
          BY Zenon, <1>1, <2>1, <2>2, <2>4, <3>1, <3>2
        <4>2. ctlQ' = <<[type |-> op.kind, rid |-> op.rid]>>
          BY <2>2, <2>4, <3>1, <3>2, <4>1 DEF Ack, Asked
        <4>3. Len(ctlQ') = 1 /\ Head(ctlQ').rid = op.rid
          BY <4>2
        <4>4. OnlyJobs(reqQ')
          BY <2>2, <3>1, <3>2 DEF OnlyJobs
        <4>5. Acked'
          BY Zenon, <1>2, <4>1, <4>3, <4>4 DEF Acked
        <4>6. op.kind # "none"
          BY Zenon, <2>4 DEF Kinds
        <4>7. QED  BY Zenon, <1>2, <2>4, <4>5, <4>6 DEF AckInv
      <3>3. CASE k # 1
        <4>1. t = "process"
          BY Zenon, <2>2, <3>1, <3>3
        <4>2. UNCHANGED <<ctlQ, looping>>
          BY Zenon, <2>1, <4>1
        <4>3. k - 1 \in 1..Len(reqQ') /\ reqQ'[k - 1] = reqQ[k]
          BY Zenon, <2>2, <3>3
        <4>4. \A l \in 1..Len(reqQ') : l # k - 1 => reqQ'[l].type = "process"
          BY <2>2, <3>1
        <4>5. Asked'
          BY Zenon, <1>2, <2>1, <2>4, <3>1, <4>2, <4>3, <4>4 DEF Asked
        <4>6. op.kind # "none"
          BY <2>4 DEF Kinds
        <4>7. QED  BY Zenon, <1>2, <2>4, <4>5, <4>6 DEF AckInv
      <3>4. QED  BY Zenon, <3>2, <3>3
    <2>5. CASE OnlyJobs(reqQ)
      <3>1. ~Asked \/ op.kind \notin Kinds
        BY Zenon, <1>1, <2>5 DEF Asked, OnlyJobs
      <3>2. UNCHANGED <<ctlQ, looping>> /\ OnlyJobs(reqQ')
        BY Zenon, <2>1, <2>3, <2>5
      <3>3. QED  BY Zenon, <1>2, <2>1, <3>1, <3>2 DEF AckInv, Acked
    <2>6. QED  BY Zenon, <2>4, <2>5 DEF AckInv, Acked
  <1>5. QED  BY Zenon, <1>3, <1>4

LEMMA AckStep ==
  ASSUME Prompt, Typed, AddressInv, AckInv, [Next]_vars PROVE AckInv'
  <1>1. CASE Start
    <2>1. /\ op'.kind = "none" /\ reqQ' = <<>> /\ ctlQ' = <<>>
          /\ looping' /\ UNCHANGED hpc
      BY Zenon, <1>1 DEF Start, NoOp, callVars
    <2>2. OnlyJobs(<<>>) /\ "none" \notin Kinds
      BY DEF OnlyJobs, Kinds
    <2>3. QED  BY Zenon, <2>1, <2>2 DEF AckInv
  <1>2. CASE (\E g \in Gens : ListenerStep(g)) \/ (\E c \in Calls : JobStep(c)) \/ UNCHANGED vars
    <2>1. UNCHANGED <<op, ctlQ, reqQ, alive, looping, hpc>>
      BY Zenon, <1>2 DEF ListenerStep, Select, Receive, Complete, JobStep, JobStart, JobEnd, vars,
         webVars, callVars, queueVars, childVars
    <2>2. QED  BY Zenon, <2>1, AckKept
  <1>3. ~ChildCrash
    BY Zenon DEF ChildCrash, Prompt
  <1>4. QED
    BY Zenon, <1>1, <1>2, <1>3, AckControl, AckHandler, AckWait, AckChild DEF Next

(* If no timer of the coordinator fires and no child dies by itself, an     *)
(* acknowledgment that a control handler takes is the one for the message   *)
(* it sent, for any number of requests, control messages and restarts.      *)
THEOREM AcksMatch == ASSUME Prompt PROVE Spec => AckMatches
  <1>1. Init => Typed /\ AddressInv /\ AckInv
    <2>1. Init => AckInv
      BY DEF Init, NoOp, AckInv, OnlyJobs, Kinds
    <2>2. Init => AddressInv
      BY Zenon DEF Init, NoOp, AddressInv
    <2>3. QED  BY Zenon, <2>1, <2>2, TypedInit
  <1>2. (Typed /\ AddressInv /\ AckInv) /\ [Next]_vars => (Typed /\ AddressInv /\ AckInv)'
    BY Zenon, TypedStep, AddressStep, AckStep
  <1>3. AckInv => (TakeAck => Head(ctlQ).rid = op.rid)
    BY Zenon DEF AckInv, TakeAck, Asked, Acked
  <1>4. QED  BY <1>1, <1>2, <1>3, PTL DEF Spec, AckMatches
=============================================================================
