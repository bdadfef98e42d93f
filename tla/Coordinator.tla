---------------------------- MODULE Coordinator ----------------------------
(***************************************************************************)
(* The HTTP coordinator of scripts/start_server.py.                        *)
(*                                                                         *)
(* The coordinator owns a child process that runs one of the job servers,  *)
(* and talks to it through three queues: requests, job results and         *)
(* control acknowledgments.  Its handlers run on one event loop.  A        *)
(* control handler blocks the loop while it waits for an acknowledgment;   *)
(* a /process handler gives the loop back while it waits for its future,   *)
(* which a listener thread completes.  The job server itself is reduced to *)
(* what the child sees of it: a job that runs ends, well or badly.         *)
(***************************************************************************)
EXTENDS Naturals, Sequences, FiniteSets

CONSTANTS
  Calls,         \* /process requests
  Ids, IdOf,     \* job ids, and the id of each request
  Addresses,     \* LLM server addresses
  Slots,         \* threads of the child's job_executor
  MaxStarts,     \* bound on /start requests that start a child
  MaxControl,    \* bound on the control messages that handlers send
  Controls,      \* control requests the environment makes
  TimersFire,    \* may a wait_for() of /process time out?
  AckTimeouts,   \* may the child be too slow for the wait for an acknowledgment?
  CrashAllowed,  \* may the child die?
  NoCall, STOP   \* no entry in a table; the None that ends the listener

Gens == 1..MaxStarts
Kinds == {"status", "cancel", "add", "clear", "stop"}

ASSUME ConstantsAssumption ==
  /\ IdOf \in [Calls -> Ids]
  /\ Slots \in Nat /\ MaxStarts \in Nat /\ MaxControl \in Nat
  /\ Controls \subseteq Kinds
  /\ TimersFire \in BOOLEAN /\ AckTimeouts \in BOOLEAN /\ CrashAllowed \in BOOLEAN
  /\ NoCall \notin Calls

VARIABLES
  accepting,   \* accepting_requests
  buffer,      \* llm_server_addresses_buffer
  futures,     \* result_futures: id -> request
  fut,         \* the future of each request
  hpc, code,   \* location and HTTP status of each /process handler
  op,          \* the control handler that blocks the event loop
  sent,        \* control messages sent, the source of request ids
  starts,      \* children started
  gen,         \* the child whose queues the globals name, 0 when they are None
  reqQ, ctlQ,  \* request_queue, control_response_queue
  resQ,        \* job_result_queue of every child
  lpc, lq, held,                \* per listener: location, queue, popped future
  alive, looping, addresses,    \* the child: process, worker loop, its server's addresses
  submitted, job                \* submitted_futures, and the job of each request

webVars == <<accepting, buffer, op, sent, starts, gen>>
callVars == <<futures, fut, hpc, code>>
queueVars == <<reqQ, ctlQ, resQ>>
listenerVars == <<lpc, lq, held>>
childVars == <<alive, looping, addresses, submitted, job>>
vars == <<webVars, callVars, queueVars, listenerVars, childVars>>

NoOp == [kind |-> "none", rid |-> 0]
Outcomes == {"ok", "failed"}
Messages ==
  [type : {"process"}, call : Calls]
    \union [type : {"cancel"}, id : Ids, rid : Nat]
    \union [type : {"add"}, address : Addresses, rid : Nat]
    \union [type : {"status", "clear", "stop"}, rid : Nat]

Init ==
  /\ accepting = FALSE /\ buffer = {} /\ op = NoOp /\ sent = 0 /\ starts = 0 /\ gen = 0
  /\ futures = [i \in Ids |-> NoCall] /\ fut = [c \in Calls |-> "none"]
  /\ hpc = [c \in Calls |-> "idle"] /\ code = [c \in Calls |-> 0]
  /\ reqQ = <<>> /\ ctlQ = <<>> /\ resQ = [g \in Gens |-> <<>>]
  /\ lpc = [g \in Gens |-> "none"] /\ lq = [g \in Gens |-> 0]
  /\ held = [g \in Gens |-> NoCall]
  /\ alive = FALSE /\ looping = FALSE /\ addresses = {}
  /\ submitted = [i \in Ids |-> NoCall] /\ job = [c \in Calls |-> "none"]

-----------------------------------------------------------------------------
(* Mutant: the child is given no addresses.                                 *)
Start_NoBuffer ==
  /\ op = NoOp /\ ~alive /\ starts < MaxStarts
  /\ starts' = starts + 1 /\ gen' = starts + 1 /\ accepting' = TRUE
  /\ reqQ' = <<>> /\ ctlQ' = <<>>
  /\ lpc' = [lpc EXCEPT ![starts + 1] = "select"]
  /\ alive' = TRUE /\ looping' = TRUE /\ addresses' = {}
  /\ submitted' = [i \in Ids |-> NoCall]
  /\ UNCHANGED <<buffer, op, sent, callVars, resQ, lq, held, job>>

(* /start: new queues, a child that gets the buffered addresses, a new      *)
(* listener.  After a crash the old listener and the old futures stay.      *)
Start ==
  /\ op = NoOp /\ ~alive /\ starts < MaxStarts
  /\ starts' = starts + 1 /\ gen' = starts + 1 /\ accepting' = TRUE
  /\ reqQ' = <<>> /\ ctlQ' = <<>>
  /\ lpc' = [lpc EXCEPT ![starts + 1] = "select"]
  /\ alive' = TRUE /\ looping' = TRUE /\ addresses' = buffer
  /\ submitted' = [i \in Ids |-> NoCall]
  /\ UNCHANGED <<buffer, op, sent, callVars, resQ, lq, held, job>>

-----------------------------------------------------------------------------
(* /process, up to the await.                                               *)
Process(c) ==
  /\ op = NoOp /\ hpc[c] = "idle"
  /\ IF alive /\ accepting
     THEN /\ fut' = [fut EXCEPT ![c] = "pending"]
          /\ futures' = [futures EXCEPT ![IdOf[c]] = c]
          /\ reqQ' = Append(reqQ, [type |-> "process", call |-> c])
          /\ hpc' = [hpc EXCEPT ![c] = "waiting"]
          /\ UNCHANGED code
     ELSE /\ code' = [code EXCEPT ![c] = 503] /\ hpc' = [hpc EXCEPT ![c] = "answered"]
          /\ UNCHANGED <<fut, futures, reqQ>>
  /\ UNCHANGED <<webVars, ctlQ, resQ, listenerVars, childVars>>

(* The timer of wait_for() cancels the future; a result that is already     *)
(* there is lost as well.                                                   *)
TimerFires(c) ==
  /\ TimersFire /\ op = NoOp /\ hpc[c] = "waiting"
  /\ fut' = [fut EXCEPT ![c] = IF @ = "pending" THEN "cancelled" ELSE @]
  /\ hpc' = [hpc EXCEPT ![c] = "timedout"]
  /\ UNCHANGED <<webVars, futures, code, queueVars, listenerVars, childVars>>

(* The 504 of the inner handler is an Exception to the outer one.           *)
Reply(c) == IF hpc[c] = "waiting" /\ fut[c] = "ok" THEN 200 ELSE 500

(* Mutant: the map keeps the future.                                        *)
Forget_Never(c) == UNCHANGED futures

(* cleanup_future(), and the pop of the except clauses.                     *)
Forget(c) == futures' = [futures EXCEPT ![IdOf[c]] = NoCall]

(* The future is done: its cleanup callback runs and the handler goes on.   *)
(* A timeout sends a cancel message, whose acknowledgment nobody awaits.    *)
Resume(c) ==
  /\ op = NoOp
  /\ hpc[c] = "timedout" \/ (hpc[c] = "waiting" /\ fut[c] # "pending")
  /\ Forget(c)
  /\ IF hpc[c] = "timedout" /\ gen # 0
     THEN /\ reqQ' = Append(reqQ, [type |-> "cancel", id |-> IdOf[c], rid |-> sent + 1])
          /\ sent' = sent + 1
     ELSE UNCHANGED <<reqQ, sent>>
  /\ code' = [code EXCEPT ![c] = Reply(c)]
  /\ hpc' = [hpc EXCEPT ![c] = "answered"]
  /\ UNCHANGED <<accepting, buffer, op, starts, gen, fut, ctlQ, resQ, listenerVars, childVars>>

-----------------------------------------------------------------------------
(* The control handlers.  Each puts its message and blocks the event loop.  *)

Request(kind, msg) ==
  /\ reqQ' = Append(reqQ, msg)
  /\ op' = [kind |-> kind, rid |-> sent + 1]
  /\ sent' = sent + 1

CanControl(kind) == op = NoOp /\ kind \in Controls /\ sent < MaxControl

Status ==
  /\ CanControl("status") /\ alive
  /\ Request("status", [type |-> "status", rid |-> sent + 1])
  /\ UNCHANGED <<accepting, buffer, starts, gen, callVars, ctlQ, resQ, listenerVars, childVars>>

Cancel(i) ==
  /\ CanControl("cancel") /\ alive
  /\ Request("cancel", [type |-> "cancel", id |-> i, rid |-> sent + 1])
  /\ UNCHANGED <<accepting, buffer, starts, gen, callVars, ctlQ, resQ, listenerVars, childVars>>

(* The buffer is updated whether or not there is a child to tell.           *)
AddLlmServer(a) ==
  /\ CanControl("add")
  /\ buffer' = buffer \union {a}
  /\ IF alive THEN Request("add", [type |-> "add", address |-> a, rid |-> sent + 1])
     ELSE UNCHANGED <<reqQ, op, sent>>
  /\ UNCHANGED <<accepting, starts, gen, callVars, ctlQ, resQ, listenerVars, childVars>>

ClearLlmServer ==
  /\ CanControl("clear")
  /\ buffer' = {}
  /\ IF alive THEN Request("clear", [type |-> "clear", rid |-> sent + 1])
     ELSE UNCHANGED <<reqQ, op, sent>>
  /\ UNCHANGED <<accepting, starts, gen, callVars, ctlQ, resQ, listenerVars, childVars>>

(* Mutant: the map is cleared and the futures are left pending.             *)
RejectAll_ClearOnly ==
  /\ futures' = [i \in Ids |-> NoCall]
  /\ UNCHANGED fut

(* Mutant: the pending futures are completed with an empty result.          *)
RejectAll_Empty ==
  /\ futures' = [i \in Ids |-> NoCall]
  /\ fut' = [c \in Calls |-> IF fut[c] = "pending" /\ \E i \in Ids : futures[i] = c
                             THEN "ok" ELSE fut[c]]

(* _reject_all_pending_futures().                                           *)
RejectAll ==
  /\ futures' = [i \in Ids |-> NoCall]
  /\ fut' = [c \in Calls |-> IF fut[c] = "pending" /\ \E i \in Ids : futures[i] = c
                             THEN "failed" ELSE fut[c]]

Stop ==
  /\ CanControl("stop") /\ alive
  /\ accepting' = FALSE
  /\ RejectAll
  /\ Request("stop", [type |-> "stop", rid |-> sent + 1])
  /\ UNCHANGED <<buffer, starts, gen, hpc, code, ctlQ, resQ, listenerVars, childVars>>

(* What a handler does after its wait: /stop goes on to the kill.           *)
Unblock == op' = IF op.kind = "stop" THEN [op EXCEPT !.kind = "kill"] ELSE NoOp

(* The first acknowledgment in the queue ends the wait, whatever it says.   *)
TakeAck ==
  /\ op.kind \in Kinds /\ ctlQ # <<>>
  /\ ctlQ' = Tail(ctlQ)
  /\ Unblock
  /\ UNCHANGED <<accepting, buffer, sent, starts, gen, callVars, reqQ, resQ, listenerVars,
                 childVars>>

AckTimeout ==
  /\ op.kind \in Kinds /\ ctlQ = <<>> /\ (AckTimeouts \/ ~alive)
  /\ Unblock
  /\ UNCHANGED <<accepting, buffer, sent, starts, gen, callVars, queueVars, listenerVars,
                 childVars>>

(* The rest of /stop: the process tree is killed, the listener told to end  *)
(* and joined, the globals reset.                                           *)
Kill ==
  /\ op.kind = "kill"
  /\ alive' = FALSE /\ looping' = FALSE
  /\ job' = [c \in Calls |-> IF job[c] \in {"queued", "running"} THEN "lost" ELSE job[c]]
  /\ resQ' = [resQ EXCEPT ![gen] = Append(@, STOP)]
  /\ op' = [op EXCEPT !.kind = "join"]
  /\ UNCHANGED <<accepting, buffer, sent, starts, gen, callVars, reqQ, ctlQ, listenerVars,
                 addresses, submitted>>

(* join(timeout=10) returns: the listener has ended, or cannot end because  *)
(* another listener has taken the sentinel.                                 *)
Joined == lpc[gen] = "ended" \/ (lpc[gen] = "get" /\ resQ[lq[gen]] = <<>>)

Join ==
  /\ op.kind = "join" /\ Joined
  /\ gen' = 0 /\ reqQ' = <<>> /\ ctlQ' = <<>>
  /\ op' = NoOp
  /\ UNCHANGED <<accepting, buffer, sent, starts, callVars, resQ, listenerVars, childVars>>

-----------------------------------------------------------------------------
(* _response_listener(), one thread per /start.                             *)

(* The global is read anew for every message.                               *)
Select(g) ==
  /\ lpc[g] = "select"
  /\ lq' = [lq EXCEPT ![g] = gen]
  /\ lpc' = [lpc EXCEPT ![g] = IF gen = 0 THEN "ended" ELSE "get"]
  /\ UNCHANGED <<webVars, callVars, queueVars, held, childVars>>

(* A message is taken and the future of its job id popped from the map.     *)
Receive(g) ==
  LET q == resQ[lq[g]]  i == IdOf[Head(q).call] IN
  /\ lpc[g] = "get" /\ q # <<>>
  /\ resQ' = [resQ EXCEPT ![lq[g]] = Tail(q)]
  /\ IF Head(q) = STOP
     THEN lpc' = [lpc EXCEPT ![g] = "ended"] /\ UNCHANGED <<held, futures>>
     ELSE /\ lpc' = [lpc EXCEPT ![g] = IF futures[i] = NoCall THEN "select" ELSE Head(q).outcome]
          /\ held' = [held EXCEPT ![g] = futures[i]]
          /\ futures' = [futures EXCEPT ![i] = NoCall]
  /\ UNCHANGED <<webVars, fut, hpc, code, reqQ, ctlQ, lq, childVars>>

(* Mutant: a failed result completes nothing.                               *)
Complete_OnlyOk(g) ==
  /\ lpc[g] \in Outcomes
  /\ fut' = [fut EXCEPT ![held[g]] = IF @ = "pending" /\ lpc[g] = "ok" THEN "ok" ELSE @]
  /\ held' = [held EXCEPT ![g] = NoCall]
  /\ lpc' = [lpc EXCEPT ![g] = "select"]
  /\ UNCHANGED <<webVars, futures, hpc, code, queueVars, lq, childVars>>

(* The future is completed unless it was done meanwhile.                    *)
Complete(g) ==
  /\ lpc[g] \in Outcomes
  /\ fut' = [fut EXCEPT ![held[g]] = IF @ = "pending" THEN lpc[g] ELSE @]
  /\ held' = [held EXCEPT ![g] = NoCall]
  /\ lpc' = [lpc EXCEPT ![g] = "select"]
  /\ UNCHANGED <<webVars, futures, hpc, code, queueVars, lq, childVars>>

ListenerStep(g) == Select(g) \/ Receive(g) \/ Complete(g)

-----------------------------------------------------------------------------
(* server_worker(), the child.                                              *)

(* The worker loop is at a message of the given type and takes it.          *)
Takes(type) ==
  /\ alive /\ looping /\ reqQ # <<>> /\ Head(reqQ).type = type
  /\ reqQ' = Tail(reqQ)

Ack == ctlQ' = Append(ctlQ, [type |-> Head(reqQ).type, rid |-> Head(reqQ).rid])

(* _submit_job().                                                           *)
ChildProcess ==
  /\ Takes("process")
  /\ submitted' = [submitted EXCEPT ![IdOf[Head(reqQ).call]] = Head(reqQ).call]
  /\ job' = [job EXCEPT ![Head(reqQ).call] = "queued"]
  /\ UNCHANGED <<webVars, callVars, ctlQ, resQ, listenerVars, alive, looping, addresses>>

(* Future.cancel() of the jobs: only one that no thread has taken is        *)
(* dropped.  cancel_job() makes a running one end sooner.                   *)
Dropped(C) == job' = [c \in Calls |-> IF c \in C /\ job[c] = "queued" THEN "dropped" ELSE job[c]]

(* Mutant: a cancel message is acknowledged twice.                          *)
ChildCancel_AckTwice ==
  /\ Takes("cancel")
  /\ submitted' = [submitted EXCEPT ![Head(reqQ).id] = NoCall]
  /\ Dropped({submitted[Head(reqQ).id]})
  /\ ctlQ' = ctlQ \o [k \in 1..2 |-> [type |-> Head(reqQ).type, rid |-> Head(reqQ).rid]]
  /\ UNCHANGED <<webVars, callVars, resQ, listenerVars, alive, looping, addresses>>

ChildCancel ==
  /\ Takes("cancel")
  /\ submitted' = [submitted EXCEPT ![Head(reqQ).id] = NoCall]
  /\ Dropped({submitted[Head(reqQ).id]})
  /\ Ack
  /\ UNCHANGED <<webVars, callVars, resQ, listenerVars, alive, looping, addresses>>

ChildAdd ==
  /\ Takes("add")
  /\ addresses' = addresses \union {Head(reqQ).address}
  /\ Ack
  /\ UNCHANGED <<webVars, callVars, resQ, listenerVars, alive, looping, submitted, job>>

ChildClear ==
  /\ Takes("clear")
  /\ addresses' = {}
  /\ Ack
  /\ UNCHANGED <<webVars, callVars, resQ, listenerVars, alive, looping, submitted, job>>

ChildStatus ==
  /\ Takes("status")
  /\ Ack
  /\ UNCHANGED <<webVars, callVars, resQ, listenerVars, childVars>>

(* The jobs are cancelled, the server stopped, the loop left.               *)
ChildStop ==
  /\ Takes("stop")
  /\ looping' = FALSE
  /\ submitted' = [i \in Ids |-> NoCall]
  /\ Dropped({submitted[i] : i \in Ids})
  /\ Ack
  /\ UNCHANGED <<webVars, callVars, resQ, listenerVars, alive, addresses>>

(* The executor and the job server.                                         *)
JobStart(c) ==
  /\ alive /\ job[c] = "queued"
  /\ Cardinality({d \in Calls : job[d] = "running"}) < Slots
  /\ job' = [job EXCEPT ![c] = "running"]
  /\ UNCHANGED <<webVars, callVars, queueVars, listenerVars, alive, looping, addresses,
                 submitted>>

(* job_fn(): a result or an error is sent in either case.                   *)
JobEnd(c) ==
  /\ alive /\ job[c] = "running"
  /\ \E o \in Outcomes :
       /\ job' = [job EXCEPT ![c] = o]
       /\ resQ' = [resQ EXCEPT ![gen] = Append(@, [call |-> c, outcome |-> o])]
  /\ UNCHANGED <<webVars, callVars, reqQ, ctlQ, listenerVars, alive, looping, addresses,
                 submitted>>

(* The child returns from its loop and waits for the executor's threads.    *)
ChildExit ==
  /\ alive /\ ~looping /\ \A c \in Calls : job[c] \notin {"queued", "running"}
  /\ alive' = FALSE
  /\ UNCHANGED <<webVars, callVars, queueVars, listenerVars, looping, addresses, submitted, job>>

ChildCrash ==
  /\ CrashAllowed /\ alive
  /\ alive' = FALSE /\ looping' = FALSE
  /\ job' = [c \in Calls |-> IF job[c] \in {"queued", "running"} THEN "lost" ELSE job[c]]
  /\ UNCHANGED <<webVars, callVars, queueVars, listenerVars, addresses, submitted>>

ChildStep ==
  \/ ChildProcess \/ ChildCancel \/ ChildAdd \/ ChildClear \/ ChildStatus \/ ChildStop
  \/ ChildExit
JobStep(c) == JobStart(c) \/ JobEnd(c)

-----------------------------------------------------------------------------
ControlStep == TakeAck \/ AckTimeout \/ Kill \/ Join

Next ==
  \/ Start
  \/ \E c \in Calls : Process(c) \/ TimerFires(c) \/ Resume(c)
  \/ Status \/ (\E i \in Ids : Cancel(i)) \/ (\E a \in Addresses : AddLlmServer(a))
  \/ ClearLlmServer \/ Stop
  \/ ControlStep
  \/ \E g \in Gens : ListenerStep(g)
  \/ ChildStep
  \/ \E c \in Calls : JobStep(c)
  \/ ChildCrash

Spec == Init /\ [][Next]_vars

(* The event loop, the listeners and a live child are scheduled, and a job  *)
(* that runs ends, as the job servers' own specifications promise.  No      *)
(* request has to come, no timer to fire, no child to be started or to die. *)
(* The handlers share one loop with whatever requests arrive: strong        *)
(* fairness for what waits until no control handler blocks it.              *)
Fairness ==
  /\ \A c \in Calls : SF_vars(Resume(c))
  /\ WF_vars(ControlStep)
  /\ \A g \in Gens : WF_vars(ListenerStep(g))
  /\ WF_vars(ChildStep)
  /\ \A c \in Calls : WF_vars(JobStart(c)) /\ WF_vars(JobEnd(c))

FairSpec == Spec /\ Fairness

-----------------------------------------------------------------------------
(* Properties.                                                              *)

TypeOK ==
  /\ accepting \in BOOLEAN /\ buffer \subseteq Addresses
  /\ op \in [kind : Kinds \union {"none", "kill", "join"}, rid : Nat]
  /\ sent \in Nat /\ starts \in 0..MaxStarts /\ gen \in 0..MaxStarts
  /\ futures \in [Ids -> Calls \union {NoCall}]
  /\ fut \in [Calls -> {"none", "pending", "cancelled"} \union Outcomes]
  /\ hpc \in [Calls -> {"idle", "waiting", "timedout", "answered"}]
  /\ code \in [Calls -> {0, 200, 500, 503}]
  /\ reqQ \in Seq(Messages)
  /\ ctlQ \in Seq([type : Kinds, rid : Nat])
  /\ resQ \in [Gens -> Seq([call : Calls, outcome : Outcomes] \union {STOP})]
  /\ lpc \in [Gens -> {"none", "select", "get", "ended"} \union Outcomes]
  /\ lq \in [Gens -> 0..MaxStarts] /\ held \in [Gens -> Calls \union {NoCall}]
  /\ alive \in BOOLEAN /\ looping \in BOOLEAN /\ addresses \subseteq Addresses
  /\ submitted \in [Ids -> Calls \union {NoCall}]
  /\ job \in [Calls -> {"none", "queued", "running", "dropped", "lost"} \union Outcomes]

(* result_futures has no entry for a request that was answered: whatever    *)
(* order results, timeouts and stops come in, the map does not grow.        *)
NoGhostFuture ==
  \A i \in Ids : futures[i] # NoCall => hpc[futures[i]] \in {"waiting", "timedout"}

(* A pending future can be completed: it is in result_futures under its     *)
(* request's job id, or a listener has popped it and is about to set it.    *)
(* Otherwise its request could only time out.                               *)
WaiterReachable ==
  \A c \in Calls : fut[c] = "pending" => futures[IdOf[c]] = c \/ \E g \in Gens : held[g] = c

(* A request is answered with 200 only if the job it asked for has ended    *)
(* with a result, however the answer got past /stop, the timer, a crash or  *)
(* a restart.                                                               *)
SuccessIsEarned == \A c \in Calls : code[c] = 200 => job[c] = "ok"

(* The child's job server uses the buffered addresses, except for changes   *)
(* that are still in the request queue, across crashes and restarts.        *)
AddressesAgree ==
  alive /\ (\A k \in 1..Len(reqQ) : reqQ[k].type \notin {"add", "clear"}) => addresses = buffer

(* A control handler that takes an acknowledgment takes the one for the     *)
(* message it sent.                                                         *)
AckMatches == [][TakeAck => Head(ctlQ).rid = op.rid]_vars

(* Every request that waits is answered, without help from a timer, unless  *)
(* its job was cancelled before a thread of the executor took it: nothing   *)
(* then reports the end of the job.                                         *)
EveryRequestAnswered ==
  \A c \in Calls : hpc[c] = "waiting" ~> hpc[c] = "answered" \/ job[c] = "dropped"
=============================================================================
