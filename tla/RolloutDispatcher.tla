------------------------- MODULE RolloutDispatcher -------------------------
(***************************************************************************)
(* request_from_openhands() of the trainer's AsyncLLMServerManager: a call *)
(* spreads its messages over the workers of the OpenHands servers, retries *)
(* what failed and collects one response per message.                      *)
(*                                                                         *)
(* Everything runs on one event loop, so a step reaches from one await     *)
(* that suspends to the next.  The dispatcher, the collector and a task    *)
(* per dispatched job interleave.  An OpenHands server is reduced to the   *)
(* answer it gives to /process; it may still be at work on a request whose *)
(* client has given up.                                                    *)
(***************************************************************************)
EXTENDS Naturals, Sequences, FiniteSets, Functions

CONSTANTS
  Messages,    \* a sequence of distinct messages, one per trajectory
  Workers,     \* server_worker_ids, in the order the pool is filled
  ServerOf,    \* the server of each worker
  NoTask       \* the dispatcher holds no job

Msgs == Range(Messages)
Pool == Range(Workers)
Servers == Range(ServerOf)
MaxRetry == 2   \* "Maximum 3 attempts"

(* What the configuration guarantees.                                       *)
DispatcherAssumption ==
  /\ Messages \in Seq(Msgs) /\ Workers \in Seq(Pool) /\ Len(Workers) > 0
  /\ IsInjective(Messages) /\ IsInjective(Workers)
  /\ ServerOf \in [Pool -> Servers]
  /\ NoTask \notin [job : [msg : Msgs, retry : Nat], worker : Pool]

VARIABLES
  phase,       \* of the call: "idle" before it, then "starting", "collecting", ...
  started,     \* servers whose /start succeeded
  jobQ,        \* job_queue
  avail,       \* available_servers_queue
  got,         \* what the dispatcher has taken from both queues
  tasks,       \* the tasks of process_job_on_server
  serving,     \* requests that servers work on
  resQ,        \* results_queue
  responses,   \* all_responses
  completed    \* completed_count

dispatcherVars == <<phase, started, jobQ, avail, got, tasks, serving, resQ, responses, completed>>

Jobs == [msg : Msgs, retry : Nat]
Results == {"ok", "none"}
Tasks == [job : Jobs, worker : Pool, loc : {"send", "wait", "answered", "release"},
          result : Results]

DispatcherTypeOK ==
  /\ phase \in {"idle", "starting", "collecting", "stopping", "returned"}
  /\ started \subseteq Servers
  /\ jobQ \in Seq(Jobs) /\ avail \in Seq(Pool)
  /\ got \in [job : Jobs, worker : Pool] \union {NoTask}
  /\ tasks \subseteq Tasks
  /\ serving \subseteq [job : Jobs, server : Servers]
  /\ resQ \in Seq([msg : Msgs, result : Results])
  /\ responses \in [Msgs -> Results \union {"missing"}]
  /\ completed \in 0..Len(Messages)

DispatcherInit ==
  /\ phase = "idle" /\ started = {} /\ jobQ = <<>> /\ avail = <<>> /\ got = NoTask
  /\ tasks = {} /\ serving = {} /\ resQ = <<>>
  /\ responses = [m \in Msgs |-> "missing"] /\ completed = 0

-----------------------------------------------------------------------------
(* The trainer calls request_from_openhands().                              *)
Call ==
  /\ phase = "idle" /\ phase' = "starting"
  /\ UNCHANGED <<started, jobQ, avail, got, tasks, serving, resQ, responses, completed>>

(* start_servers() goes on with the servers that did start; then the queues *)
(* are filled, the workers of a server that did not start included.         *)
StartServers(S) ==
  /\ phase = "starting" /\ phase' = "collecting"
  /\ started' = S
  /\ jobQ' = [i \in DOMAIN Messages |-> [msg |-> Messages[i], retry |-> 0]]
  /\ avail' = Workers
  /\ UNCHANGED <<got, tasks, serving, resQ, responses, completed>>

(* job_dispatcher(): both queues are examined and read under their locks.   *)
DispatchGet ==
  /\ phase = "collecting" /\ got = NoTask
  /\ jobQ # <<>> /\ avail # <<>>
  /\ got' = [job |-> Head(jobQ), worker |-> Head(avail)]
  /\ jobQ' = Tail(jobQ) /\ avail' = Tail(avail)
  /\ UNCHANGED <<phase, started, tasks, serving, resQ, responses, completed>>

DispatchTask ==
  /\ phase = "collecting" /\ got # NoTask
  /\ tasks' = tasks \union {[job |-> got.job, worker |-> got.worker, loc |-> "send",
                             result |-> "none"]}
  /\ got' = NoTask
  /\ UNCHANGED <<phase, started, jobQ, avail, serving, resQ, responses, completed>>

-----------------------------------------------------------------------------
Request(t) == [job |-> t.job, server |-> ServerOf[t.worker]]
Move(t, loc, result) == (tasks \ {t}) \union {[t EXCEPT !.loc = loc, !.result = result]}

(* session.post() of _send_single_message_to_openhands(): a server that is  *)
(* not started answers 503.                                                 *)
Send(t) ==
  /\ t.loc = "send"
  /\ IF ServerOf[t.worker] \in started
     THEN serving' = serving \union {Request(t)} /\ tasks' = Move(t, "wait", "none")
     ELSE serving' = serving /\ tasks' = Move(t, "answered", "none")
  /\ UNCHANGED <<phase, started, jobQ, avail, got, resQ, responses, completed>>

(* A server ends a request.  Only a 200 with messages is a result; an empty *)
(* answer, an error status and a broken connection are not.                 *)
ServerEnds(r, result) ==
  /\ serving' = serving \ {r}
  /\ tasks' = {IF t.loc = "wait" /\ Request(t) = r
               THEN [t EXCEPT !.loc = "answered", !.result = result] ELSE t : t \in tasks}
  /\ UNCHANGED <<phase, started, jobQ, avail, got, resQ, responses, completed>>

(* aiohttp.ClientTimeout: nobody tells the server.                          *)
ClientTimeout(t) ==
  /\ t.loc = "wait"
  /\ tasks' = Move(t, "answered", "none")
  /\ UNCHANGED <<phase, started, jobQ, avail, got, serving, resQ, responses, completed>>

(* Mutant: a failed message is reported as well as retried.                 *)
Settle_Twice(t) ==
  /\ t.loc = "answered"
  /\ jobQ' = IF t.result = "none" /\ t.job.retry < MaxRetry
             THEN Append(jobQ, [t.job EXCEPT !.retry = @ + 1]) ELSE jobQ
  /\ resQ' = Append(resQ, [msg |-> t.job.msg, result |-> t.result])
  /\ tasks' = Move(t, "release", t.result)
  /\ UNCHANGED <<phase, started, avail, got, serving, responses, completed>>

(* Mutant: a message that failed for the last time is dropped.              *)
Settle_Drop(t) ==
  /\ t.loc = "answered"
  /\ IF t.result = "none"
     THEN /\ jobQ' = IF t.job.retry < MaxRetry
                     THEN Append(jobQ, [t.job EXCEPT !.retry = @ + 1]) ELSE jobQ
          /\ UNCHANGED resQ
     ELSE resQ' = Append(resQ, [msg |-> t.job.msg, result |-> t.result]) /\ UNCHANGED jobQ
  /\ tasks' = Move(t, "release", t.result)
  /\ UNCHANGED <<phase, started, avail, got, serving, responses, completed>>

(* Mutant: one attempt too many.                                            *)
Settle_Fourth(t) ==
  /\ t.loc = "answered"
  /\ IF t.result = "none" /\ t.job.retry <= MaxRetry
     THEN jobQ' = Append(jobQ, [t.job EXCEPT !.retry = @ + 1]) /\ UNCHANGED resQ
     ELSE resQ' = Append(resQ, [msg |-> t.job.msg, result |-> t.result]) /\ UNCHANGED jobQ
  /\ tasks' = Move(t, "release", t.result)
  /\ UNCHANGED <<phase, started, avail, got, serving, responses, completed>>

(* process_job_on_server() after the send: retry, or report and be done.    *)
Settle(t) ==
  /\ t.loc = "answered"
  /\ IF t.result = "none" /\ t.job.retry < MaxRetry
     THEN jobQ' = Append(jobQ, [t.job EXCEPT !.retry = @ + 1]) /\ UNCHANGED resQ
     ELSE resQ' = Append(resQ, [msg |-> t.job.msg, result |-> t.result]) /\ UNCHANGED jobQ
  /\ tasks' = Move(t, "release", t.result)
  /\ UNCHANGED <<phase, started, avail, got, serving, responses, completed>>

(* Mutant: only a worker whose server answered well goes back to the pool.  *)
Release_OnSuccess(t) ==
  /\ t.loc = "release"
  /\ tasks' = tasks \ {t}
  /\ avail' = IF t.result = "ok" THEN Append(avail, t.worker) ELSE avail
  /\ UNCHANGED <<phase, started, jobQ, got, serving, resQ, responses, completed>>

(* The worker goes back to the pool.                                        *)
Release(t) ==
  /\ t.loc = "release"
  /\ tasks' = tasks \ {t}
  /\ avail' = Append(avail, t.worker)
  /\ UNCHANGED <<phase, started, jobQ, got, serving, resQ, responses, completed>>

-----------------------------------------------------------------------------
(* The collector takes a result; None is stored as an empty response.       *)
Collect ==
  /\ phase = "collecting" /\ completed < Len(Messages) /\ resQ # <<>>
  /\ responses' = [responses EXCEPT ![Head(resQ).msg] = Head(resQ).result]
  /\ resQ' = Tail(resQ)
  /\ completed' = completed + 1
  /\ UNCHANGED <<phase, started, jobQ, avail, got, tasks, serving>>

(* All results are in: the dispatcher is cancelled.                         *)
Finish ==
  /\ phase = "collecting" /\ completed = Len(Messages)
  /\ phase' = "stopping" /\ got' = NoTask
  /\ UNCHANGED <<started, jobQ, avail, tasks, serving, resQ, responses, completed>>

(* stop_servers() ends the requests of the servers that it reaches; with    *)
(* the return, asyncio.run() cancels the tasks that are left.               *)
StopServers(S) ==
  /\ phase = "stopping" /\ phase' = "returned"
  /\ started' = started \ S /\ serving' = {r \in serving : r.server \notin S}
  /\ tasks' = {}
  /\ UNCHANGED <<jobQ, avail, got, resQ, responses, completed>>

Answer == \E r \in serving, result \in Results : ServerEnds(r, result)
Step(t) == Send(t) \/ ClientTimeout(t) \/ Settle(t) \/ Release(t)

(* What the event loop runs.                                                *)
LoopStep ==
  /\ phase \notin {"idle", "returned"}
  /\ \/ \E S \in SUBSET Servers : StartServers(S) \/ StopServers(S)
     \/ DispatchGet \/ DispatchTask
     \/ \E t \in tasks : Step(t)
     \/ Collect \/ Finish

DispatcherNext == Call \/ LoopStep \/ Answer

(* The event loop does not rest while a coroutine can run; a send ends at   *)
(* the latest by the client's timeout.  Servers owe nothing.                *)
DispatcherFairness == WF_dispatcherVars(LoopStep)

DispatcherSpec == DispatcherInit /\ [][DispatcherNext]_dispatcherVars /\ DispatcherFairness

-----------------------------------------------------------------------------
(* Where a message is: queued, held by the dispatcher, in a task that has   *)
(* not settled it, in the results queue, or answered.                       *)
Unsettled(t) == t.loc \in {"send", "wait", "answered"}
Places(m) ==
  Cardinality({i \in DOMAIN jobQ : jobQ[i].msg = m})
    + (IF got # NoTask /\ got.job.msg = m THEN 1 ELSE 0)
    + Cardinality({t \in tasks : t.job.msg = m /\ Unsettled(t)})
    + Cardinality({i \in DOMAIN resQ : resQ[i].msg = m})
    + (IF responses[m] # "missing" THEN 1 ELSE 0)

(* While the call runs every message is in exactly one place, whatever is   *)
(* retried, times out or fails for good: no message is lost or answered     *)
(* twice, which the count of the collector relies on.                       *)
MessageConserved ==
  phase \in {"collecting", "stopping"} => \A m \in Msgs : Places(m) = 1

(* Every worker is in the pool, in the dispatcher's hands or bound to one   *)
(* task: retries and failures neither leak nor duplicate a worker.          *)
WorkerConserved ==
  phase = "collecting" =>
    \A w \in Pool :
      Cardinality({i \in DOMAIN avail : avail[i] = w})
        + (IF got # NoTask /\ got.worker = w THEN 1 ELSE 0)
        + Cardinality({t \in tasks : t.worker = w}) = 1

(* A client that times out leaves its request with the server and gives the *)
(* worker back, so servers may get more requests than they have workers;    *)
(* but a message never keeps more than three requests going.                *)
AttemptsBounded == \A m \in Msgs : Cardinality({r \in serving : r.job.msg = m}) <= 3

(* A call returns, with a response for every message, however many        *)
(* servers fail to start, to answer or to stop.                             *)
CallReturns ==
  phase = "starting" ~> (phase = "returned" /\ \A m \in Msgs : responses[m] # "missing")
=============================================================================
