---------------------------- MODULE ThreadServer ----------------------------
(***************************************************************************)
(* The thread-based OpenHandsServer of openhands/nvidia/async_server.py    *)
(* and the calls made on it by scripts/start_server_thread.py.             *)
(*                                                                         *)
(* A client call of process() creates one JobDetails object, registers it  *)
(* under its job id, puts the id on the init queue and waits for the       *)
(* object's event.  Worker threads move the id through the three queues.   *)
(* cancel_job() and stop() run in threads of their own.  One action is the *)
(* code between two points at which another thread can observe a change.   *)
(***************************************************************************)
EXTENDS Naturals, Sequences, FiniteSets

CONSTANTS
  Calls,        \* process() calls; a call also names the JobDetails it makes
  Ids,          \* job ids
  IdOf,         \* the job id of each call
  Workers,      \* worker threads, over all start()s
  StageOf,      \* the stage (JobType) a worker serves
  GenOf,        \* the start() that spawned a worker
  MaxWorkers,   \* max_init_workers, max_run_workers, max_eval_workers
  MaxStarts,    \* bound: how often start() is called
  Rejected,     \* calls whose data source is_registered_handler() refuses
  Unmapped,     \* calls that pass is_registered_handler() but have no functions
  Cancellable,  \* the ids the environment may cancel
  StopAllowed,  \* may the environment stop the server?
  SleepSuffices,  \* do idle workers wake within the sleep(1) of stop()?
  HandlerFaults,  \* handler callbacks that may raise
  NoCall, NoWorker, STOP   \* None, None and the '__STOP__' sentinel

Stages == {"init", "run", "eval"}
Counted == Stages               \* the phases that count toward the timeout

ASSUME ConstantsAssumption ==
  /\ IdOf \in [Calls -> Ids]
  /\ StageOf \in [Workers -> Stages]
  /\ GenOf \in [Workers -> Nat \ {0}]
  /\ MaxWorkers \in [Stages -> Nat]
  /\ MaxStarts \in Nat
  /\ Rejected \subseteq Calls /\ Unmapped \subseteq Calls
  /\ Cancellable \subseteq Ids /\ StopAllowed \in BOOLEAN
  /\ SleepSuffices \in BOOLEAN
  /\ HandlerFaults \subseteq {"exception_func", "final_result"}
  /\ NoCall \notin Calls /\ NoWorker \notin Workers /\ STOP \notin Ids

VARIABLES
  running,      \* _server_running
  starts,       \* completed start() calls
  details,      \* _job_details
  queue,        \* init_queue, run_queue, evaluate_queue
  active,       \* _active_init_jobs, _active_run_jobs, _active_eval_jobs
  discarded,    \* _discarded_jobs
  job,          \* the JobDetails object of each call
  live,         \* runtimes made for a call that nobody closed yet
  opened,       \* runtimes made for a call so far
  spared,       \* runtimes behind _exclude_pids
  wpc, wid, wcall, wrt, wout,   \* per worker: location, job id, object, runtime, outcome
  ppc, answer,  \* per process() call: location and the result it computed
  cpc,          \* per job id: location of a cancel_job() of it
  spc, toSignal \* location of stop() and the active jobs it still has to signal

serverVars == <<running, starts, details, queue, active, discarded>>
objectVars == <<job, live, opened, spared>>
workerVars == <<wpc, wid, wcall, wrt, wout>>
clientVars == <<ppc, answer>>
stopVars == <<spc, toSignal>>
vars == <<serverVars, objectVars, workerVars, clientVars, cpc, stopVars>>

JobDetails == [event: BOOLEAN, timeoutError: BOOLEAN,
               results: Stages \union {"none"},     \* critical_error of results
               runResults: BOOLEAN, evalResults: BOOLEAN,
               runtime: Nat,                        \* 0 is None
               phase: Stages \union {"others"},     \* timer.current_phase
               task: Workers \union {NoWorker}, cancelled: BOOLEAN]

NewJob == [event |-> FALSE, timeoutError |-> FALSE, results |-> "none",
           runResults |-> FALSE, evalResults |-> FALSE, runtime |-> 0,
           phase |-> "others", task |-> NoWorker, cancelled |-> FALSE]

Answers == Stages \union {"pending", "ok", "timeout", "final_result"}
WorkerLocs == {"off", "get", "lookup", "register", "enter", "arm", "await", "resume",
               "handover", "exit", "except", "final"}
Outcomes == {"ok", "error", "timeout", "nophase", "dying"}
ClientLocs == {"idle", "admitted", "stored", "waiting", "woken", "failed", "returned",
               "raised"}

Init ==
  /\ running = FALSE /\ starts = 0
  /\ details = [i \in Ids |-> NoCall]
  /\ queue = [s \in Stages |-> <<>>]
  /\ active = [s \in Stages |-> {}]
  /\ discarded = {}
  /\ job = [c \in Calls |-> NewJob]
  /\ live = [c \in Calls |-> {}] /\ opened = [c \in Calls |-> 0]
  /\ spared = [c \in Calls |-> {}]
  /\ wpc = [w \in Workers |-> "off"]
  /\ wid = [w \in Workers |-> STOP] /\ wcall = [w \in Workers |-> NoCall]
  /\ wrt = [w \in Workers |-> 0] /\ wout = [w \in Workers |-> "ok"]
  /\ ppc = [c \in Calls |-> "idle"] /\ answer = [c \in Calls |-> "pending"]
  /\ cpc = [i \in Ids |-> "idle"]
  /\ spc = "idle" /\ toSignal = {}

-----------------------------------------------------------------------------
(* Mutant: the close is forgotten.                                          *)
CloseOf_Leak(c) == live

(* _cleanup_job_runtime: the runtime object, if any, is closed.             *)
CloseOf(c) == [live EXCEPT ![c] = @ \ {job[c].runtime}]

(* Mutant: the waiter is not signalled.                                     *)
TimedOut_NoSignal(j) == [j EXCEPT !.timeoutError = TRUE]

(* Mark as timed out and signal completion.                                 *)
TimedOut(j) == [j EXCEPT !.timeoutError = TRUE, !.event = TRUE]

(* start(): one fresh thread per worker slot.  A container's command line   *)
(* names openhands, so get_singularity_job_pids() excludes every container  *)
(* that is still there from this and from later clear_singularity_jobs().   *)
Start ==
  /\ ~running /\ starts < MaxStarts
  /\ running' = TRUE
  /\ starts' = starts + 1
  /\ wpc' = [w \in Workers |-> IF GenOf[w] = starts + 1 THEN "get" ELSE wpc[w]]
  /\ spared' = live
  /\ UNCHANGED <<details, queue, active, discarded, job, live, opened, wid, wcall, wrt,
                 wout, clientVars, cpc, stopVars>>

-----------------------------------------------------------------------------
(* process(), called through process_with_timeout().                        *)

(* The checks; the JobDetails object with a started timer.                  *)
Admit(c) ==
  /\ ppc[c] = "idle" /\ running
  /\ ppc' = [ppc EXCEPT ![c] = IF c \in Rejected THEN "failed" ELSE "admitted"]
  /\ UNCHANGED <<serverVars, objectVars, workerVars, answer, cpc, stopVars>>

Store(c) ==
  /\ ppc[c] = "admitted"
  /\ details' = [details EXCEPT ![IdOf[c]] = c]
  /\ ppc' = [ppc EXCEPT ![c] = "stored"]
  /\ UNCHANGED <<running, starts, queue, active, discarded, objectVars, workerVars,
                 answer, cpc, stopVars>>

(* Mutant: the id is put twice.                                             *)
Enqueue_Twice(c) ==
  /\ ppc[c] = "stored"
  /\ queue' = [queue EXCEPT !["init"] = @ \o <<IdOf[c], IdOf[c]>>]
  /\ ppc' = [ppc EXCEPT ![c] = "waiting"]
  /\ UNCHANGED <<running, starts, details, active, discarded, objectVars, workerVars,
                 answer, cpc, stopVars>>

Enqueue(c) ==
  /\ ppc[c] = "stored"
  /\ queue' = [queue EXCEPT !["init"] = Append(@, IdOf[c])]
  /\ ppc' = [ppc EXCEPT ![c] = "waiting"]
  /\ UNCHANGED <<running, starts, details, active, discarded, objectVars, workerVars,
                 answer, cpc, stopVars>>

(* Mutant: a timed out job counts as a success.                             *)
FinalResult_NoTimeout(c) ==
  IF c \in Unmapped THEN "final_result"
  ELSE IF job[c].results # "none" THEN job[c].results
  ELSE "ok"

(* final_result(): the critical_error of the answer, "ok" for None.         *)
FinalResult(c) ==
  IF c \in Unmapped THEN "final_result"
  ELSE IF job[c].timeoutError THEN "timeout"
  ELSE IF job[c].results # "none" THEN job[c].results
  ELSE "ok"

(* event.wait() returns; final_result() may itself raise.                   *)
Wake(c) ==
  /\ ppc[c] = "waiting" /\ job[c].event
  /\ \/ /\ answer' = [answer EXCEPT ![c] = FinalResult(c)]
        /\ ppc' = [ppc EXCEPT ![c] = "woken"]
     \/ /\ "final_result" \in HandlerFaults /\ c \notin Unmapped
        /\ ppc' = [ppc EXCEPT ![c] = "failed"]
        /\ UNCHANGED answer
  /\ UNCHANGED <<serverVars, objectVars, workerVars, cpc, stopVars>>

(* The runtime, if there is one, is closed and the entry deleted, which is  *)
(* a KeyError when the entry is gone.                                       *)
Conclude(c) ==
  /\ ppc[c] = "woken"
  /\ live' = CloseOf(c)
  /\ details' = [details EXCEPT ![IdOf[c]] = NoCall]
  /\ ppc' = [ppc EXCEPT ![c] = IF details[IdOf[c]] = NoCall THEN "failed"
                               ELSE "returned"]
  /\ UNCHANGED <<running, starts, queue, active, discarded, job, opened, spared,
                 workerVars, answer, cpc, stopVars>>

(* cleanup_timed_out_job(), for whatever object the id now names.           *)
CleanupTimedOutJob(c) ==
  LET i == IdOf[c]
      d == details[i] IN
  /\ ppc[c] = "failed"
  /\ ppc' = [ppc EXCEPT ![c] = "raised"]
  /\ IF d = NoCall THEN UNCHANGED <<details, active, job, live>>
     ELSE /\ job' = [job EXCEPT ![d] = TimedOut(@)]
          /\ active' = [active EXCEPT !["init"] = @ \ {i}, !["run"] = @ \ {i}]
          /\ live' = CloseOf(d)
          /\ details' = [details EXCEPT ![i] = NoCall]
  /\ UNCHANGED <<running, starts, queue, discarded, opened, spared, workerVars,
                 answer, cpc, stopVars>>

ProcessStep(c) ==
  \/ Admit(c) \/ Store(c) \/ Enqueue(c) \/ Wake(c) \/ Conclude(c)
  \/ CleanupTimedOutJob(c)

-----------------------------------------------------------------------------
(* _worker(): the loop of a worker thread.                                  *)

WorkerAt(w, loc) == wpc[w] = loc
Goto(w, loc) == wpc' = [wpc EXCEPT ![w] = loc]
(* Mutant: a job that ran is put on the run queue again.                    *)
NextQueue_Again == [s \in {"init", "run"} |-> "run"]

(* Where run_queue.put and evaluate_queue.put hand the job on.              *)
NextQueue == [s \in {"init", "run"} |-> IF s = "init" THEN "run" ELSE "eval"]

(* Back at the top of the loop, or out of it: the loop's locals are dead.   *)
Restart(w, loc) ==
  /\ Goto(w, loc)
  /\ wid' = [wid EXCEPT ![w] = STOP] /\ wcall' = [wcall EXCEPT ![w] = NoCall]
  /\ wrt' = [wrt EXCEPT ![w] = 0] /\ wout' = [wout EXCEPT ![w] = "ok"]

(* queue_obj.get(), and the stop sentinel.                                  *)
Dequeue(w) ==
  LET s == StageOf[w] IN
  /\ WorkerAt(w, "get") /\ queue[s] # <<>>
  /\ queue' = [queue EXCEPT ![s] = Tail(@)]
  /\ IF Head(queue[s]) = STOP THEN Goto(w, "off") /\ UNCHANGED wid
     ELSE Goto(w, "lookup") /\ wid' = [wid EXCEPT ![w] = Head(queue[s])]
  /\ UNCHANGED <<running, starts, details, active, discarded, objectVars, wcall, wrt,
                 wout, clientVars, cpc, stopVars>>

(* Under _job_details_lock: an unknown id is skipped.                       *)
Lookup(w) ==
  LET d == details[wid[w]] IN
  /\ WorkerAt(w, "lookup")
  /\ IF d = NoCall THEN Restart(w, "get")
     ELSE /\ Goto(w, "register") /\ wcall' = [wcall EXCEPT ![w] = d]
          /\ UNCHANGED <<wid, wrt, wout>>
  /\ UNCHANGED <<serverVars, objectVars, clientVars, cpc, stopVars>>

(* Under _state_lock: a discarded id is skipped, any other becomes active.  *)
Register(w) ==
  LET s == StageOf[w]
      i == wid[w] IN
  /\ WorkerAt(w, "register")
  /\ IF i \in discarded
     THEN /\ Restart(w, "get") /\ discarded' = discarded \ {i} /\ UNCHANGED active
     ELSE /\ Goto(w, "enter") /\ active' = [active EXCEPT ![s] = @ \union {i}]
          /\ UNCHANGED <<discarded, wid, wcall, wrt, wout>>
  /\ UNCHANGED <<running, starts, details, queue, objectVars, clientVars, cpc, stopVars>>

(* The stage function is looked up, then the timer enters the phase.        *)
EnterPhase(w) ==
  LET c == wcall[w] IN
  /\ WorkerAt(w, "enter")
  /\ IF c \in Unmapped
     THEN /\ Goto(w, "except") /\ wout' = [wout EXCEPT ![w] = "error"]
          /\ UNCHANGED job
     ELSE /\ Goto(w, "arm") /\ job' = [job EXCEPT ![c].phase = StageOf[w]]
          /\ UNCHANGED wout
  /\ UNCHANGED <<serverVars, live, opened, spared, wid, wcall, wrt, clientVars, cpc,
                 stopVars>>

(* run_with_timeout_awareness() up to the wait: no remaining budget because *)
(* the timer is not in a counted phase, none because it is used up, or a    *)
(* task to wait for.                                                        *)
Arm(w) ==
  LET c == wcall[w] IN
  /\ WorkerAt(w, "arm")
  /\ \/ /\ job[c].phase \notin Counted
        /\ Goto(w, "exit") /\ wout' = [wout EXCEPT ![w] = "nophase"]
        /\ UNCHANGED job
     \/ /\ job[c].phase \in Counted
        /\ Goto(w, "exit") /\ wout' = [wout EXCEPT ![w] = "timeout"]
        /\ UNCHANGED job
     \/ /\ job[c].phase \in Counted
        /\ Goto(w, "await")
        /\ job' = [job EXCEPT ![c] = [@ EXCEPT !.task = w, !.cancelled = FALSE]]
        /\ UNCHANGED wout
  /\ UNCHANGED <<serverVars, live, opened, spared, wid, wcall, wrt, clientVars, cpc,
                 stopVars>>

(* The init function makes and connects a runtime before it does anything   *)
(* else that can fail; none of its error paths closes it.                   *)
OpenRuntime(c) ==
  /\ opened' = [opened EXCEPT ![c] = @ + 1]
  /\ live' = [live EXCEPT ![c] = @ \union {opened[c] + 1}]

(* The task ends with a result; init returns the runtime it made.           *)
TaskSucceeds(w) ==
  LET c == wcall[w] IN
  /\ WorkerAt(w, "await") /\ ~(job[c].task = w /\ job[c].cancelled)
  /\ Goto(w, "resume")
  /\ wout' = [wout EXCEPT ![w] = "ok"]
  /\ IF StageOf[w] = "init"
     THEN OpenRuntime(c) /\ wrt' = [wrt EXCEPT ![w] = opened[c] + 1]
     ELSE UNCHANGED <<opened, live, wrt>>
  /\ UNCHANGED <<serverVars, job, spared, wid, wcall, clientVars, cpc, stopVars>>

(* The task raises, times out, or ends as cancelled: the finally clause     *)
(* forgets the task.  An init that had made its runtime leaves it open, and *)
(* no variable of the server names it.                                      *)
TaskFails(w) ==
  /\ WorkerAt(w, "await")
  /\ Goto(w, "exit")
  /\ \E o \in {"error", "timeout"} : wout' = [wout EXCEPT ![w] = o]
  /\ job' = [job EXCEPT ![wcall[w]] = [@ EXCEPT !.task = NoWorker, !.cancelled = FALSE]]
  /\ \/ UNCHANGED <<live, opened>>
     \/ StageOf[w] = "init" /\ OpenRuntime(wcall[w])
  /\ UNCHANGED <<serverVars, spared, wid, wcall, wrt, clientVars, cpc, stopVars>>

(* Mutant: the runtime is not kept.                                         *)
Stored_NoRuntime(j, s, rt) ==
  IF s = "init" THEN [j EXCEPT !.task = NoWorker]
  ELSE IF s = "run" THEN [j EXCEPT !.task = NoWorker, !.runResults = TRUE, !.runtime = 0]
  ELSE [j EXCEPT !.task = NoWorker, !.evalResults = TRUE, !.event = TRUE]

(* The task is forgotten and its result stored; after run the runtime is    *)
(* dropped; after eval the event is set.                                    *)
Stored(j, s, rt) ==
  CASE s = "init" -> [j EXCEPT !.task = NoWorker, !.runtime = rt]
    [] s = "run" -> [j EXCEPT !.task = NoWorker, !.runResults = TRUE, !.runtime = 0]
    [] s = "eval" -> [j EXCEPT !.task = NoWorker, !.evalResults = TRUE, !.event = TRUE]

(* The await returns.                                                       *)
Resume(w) ==
  LET c == wcall[w]
      s == StageOf[w] IN
  /\ WorkerAt(w, "resume")
  /\ job' = [job EXCEPT ![c] = Stored(@, s, wrt[w])]
  /\ live' = IF s = "run" THEN CloseOf(c) ELSE live
  /\ Goto(w, IF s = "eval" THEN "exit" ELSE "handover")
  /\ UNCHANGED <<serverVars, opened, spared, wid, wcall, wrt, wout, clientVars, cpc,
                 stopVars>>

(* run_queue.put / evaluate_queue.put, still inside the phase context.      *)
HandOver(w) ==
  /\ WorkerAt(w, "handover")
  /\ queue' = [queue EXCEPT ![NextQueue[StageOf[w]]] = Append(@, wid[w])]
  /\ Goto(w, "exit")
  /\ UNCHANGED <<running, starts, details, active, discarded, objectVars, wid, wcall, wrt,
                 wout, clientVars, cpc, stopVars>>

(* timer.exit_phase(), on the way out of the phase context.                 *)
ExitPhase(w) ==
  /\ WorkerAt(w, "exit")
  /\ job' = [job EXCEPT ![wcall[w]].phase = "others"]
  /\ Goto(w, IF wout[w] = "ok" THEN "final" ELSE "except")
  /\ UNCHANGED <<serverVars, live, opened, spared, wid, wcall, wrt, wout, clientVars,
                 cpc, stopVars>>

(* What both except clauses do first: a timeout is recorded, and a run      *)
(* worker drops the runtime.                                                *)
Failed(j, s, timedOut) ==
  [j EXCEPT !.timeoutError = @ \/ timedOut, !.runtime = IF s = "run" THEN 0 ELSE @]

(* The results of the stage's exception function; the waiter is signalled.  *)
Reported(j, s) == [j EXCEPT !.results = s, !.event = TRUE]

(* The except clauses: a run worker closes the runtime; the stage's         *)
(* exception function makes the results, or raises and ends the thread.     *)
Except(w) ==
  LET c == wcall[w]
      s == StageOf[w]
      j == Failed(job[c], s, wout[w] \in {"timeout", "nophase"}) IN
  /\ WorkerAt(w, "except")
  /\ live' = IF s = "run" THEN CloseOf(c) ELSE live
  /\ \/ job' = [job EXCEPT ![c] = Reported(j, s)] /\ UNCHANGED wout
     \/ /\ "exception_func" \in HandlerFaults /\ c \notin Unmapped
        /\ job' = [job EXCEPT ![c] = j]
        /\ wout' = [wout EXCEPT ![w] = "dying"]
  /\ Goto(w, "final")
  /\ UNCHANGED <<serverVars, opened, spared, wid, wcall, wrt, clientVars, cpc, stopVars>>

Deactivate(s, i) == [active EXCEPT ![s] = @ \ {i}]

(* The finally clause; an exception raised while handling one ends _worker. *)
Finally(w) ==
  /\ WorkerAt(w, "final")
  /\ active' = Deactivate(StageOf[w], wid[w])
  /\ Restart(w, IF wout[w] = "dying" THEN "off" ELSE "get")
  /\ UNCHANGED <<running, starts, details, queue, discarded, objectVars, clientVars, cpc,
                 stopVars>>

WorkerStep(w) ==
  \/ Dequeue(w) \/ Lookup(w) \/ Register(w) \/ EnterPhase(w) \/ Arm(w)
  \/ TaskSucceeds(w) \/ TaskFails(w) \/ Resume(w) \/ HandOver(w) \/ ExitPhase(w)
  \/ Except(w) \/ Finally(w)

-----------------------------------------------------------------------------
(* cancel_job().                                                            *)

(* The unlocked test that the job exists.                                   *)
CancelCheck(i) ==
  /\ i \in Cancellable /\ running /\ cpc[i] = "idle" /\ details[i] # NoCall
  /\ cpc' = [cpc EXCEPT ![i] = "checked"]
  /\ UNCHANGED <<serverVars, objectVars, workerVars, clientVars, stopVars>>

TaskPending(d) == job[d].task # NoWorker /\ wpc[job[d].task] = "await"

(* Under _job_details_lock; the del raises if the entry is gone by now.     *)
CancelRemove(i) ==
  LET d == details[i] IN
  /\ cpc[i] = "checked"
  /\ IF d = NoCall
     THEN cpc' = [cpc EXCEPT ![i] = "idle"] /\ UNCHANGED <<details, job, live>>
     ELSE /\ job' = [job EXCEPT ![d] = [TimedOut(@) EXCEPT
                                  !.runtime = 0, !.cancelled = TaskPending(d)]]
          /\ live' = CloseOf(d)
          /\ details' = [details EXCEPT ![i] = NoCall]
          /\ cpc' = [cpc EXCEPT ![i] = "removed"]
  /\ UNCHANGED <<running, starts, queue, active, discarded, opened, spared, workerVars,
                 clientVars, stopVars>>

(* Under _state_lock.                                                       *)
CancelMark(i) ==
  /\ cpc[i] = "removed"
  /\ active' = [s \in Stages |-> active[s] \ {i}]
  /\ discarded' = discarded \union {i}
  /\ cpc' = [cpc EXCEPT ![i] = "idle"]
  /\ UNCHANGED <<running, starts, details, queue, objectVars, workerVars, clientVars,
                 stopVars>>

CancelStep(i) == CancelCheck(i) \/ CancelRemove(i) \/ CancelMark(i)

-----------------------------------------------------------------------------
(* stop().                                                                  *)

(* Steps 1 and 2: not running; the active jobs are collected.               *)
StopBegin ==
  /\ StopAllowed /\ running /\ spc = "idle"
  /\ running' = FALSE
  /\ toSignal' = UNION {active[s] : s \in Stages}
  /\ spc' = "signal"
  /\ UNCHANGED <<starts, details, queue, active, discarded, objectVars, workerVars,
                 clientVars, cpc>>

(* Step 2: a collected job is completed as timed out, its runtime closed.   *)
StopSignal(i) ==
  LET d == details[i] IN
  /\ spc = "signal" /\ i \in toSignal
  /\ toSignal' = toSignal \ {i}
  /\ IF d = NoCall THEN UNCHANGED <<job, live>>
     ELSE /\ job' = [job EXCEPT ![d] = [TimedOut(@) EXCEPT !.runtime = 0]]
          /\ live' = CloseOf(d)
  /\ UNCHANGED <<serverVars, opened, spared, workerVars, clientVars, cpc, spc>>

(* Step 3: one sentinel per configured worker.                              *)
StopSentinels ==
  /\ spc = "signal" /\ toSignal = {}
  /\ queue' = [s \in Stages |-> queue[s] \o [k \in 1..MaxWorkers[s] |-> STOP]]
  /\ spc' = "clearState"
  /\ UNCHANGED <<running, starts, details, active, discarded, objectVars, workerVars,
                 clientVars, cpc, toSignal>>

(* Step 4, after sleep(1); under _state_lock, then under _job_details_lock. *)
StopClearState ==
  /\ spc = "clearState"
  /\ SleepSuffices => \A w \in Workers : wpc[w] = "get" => queue[StageOf[w]] = <<>>
  /\ active' = [s \in Stages |-> {}]
  /\ discarded' = {}
  /\ spc' = "clearDetails"
  /\ UNCHANGED <<running, starts, details, queue, objectVars, workerVars, clientVars,
                 cpc, toSignal>>

StopClearDetails ==
  /\ spc = "clearDetails"
  /\ details' = [i \in Ids |-> NoCall]
  /\ spc' = "clearQueues"
  /\ UNCHANGED <<running, starts, queue, active, discarded, objectVars, workerVars,
                 clientVars, cpc, toSignal>>

(* Steps 5 to 7: clear_queue() on the three queues, every container that is *)
(* not spared killed, the executor shut down without waiting for threads.   *)
StopClearQueues ==
  /\ spc = "clearQueues"
  /\ queue' = [s \in Stages |-> <<>>]
  /\ live' = [c \in Calls |-> live[c] \intersect spared[c]]
  /\ spc' = "idle"
  /\ UNCHANGED <<running, starts, details, active, discarded, job, opened, spared,
                 workerVars, clientVars, cpc, toSignal>>

StopStep ==
  \/ StopBegin \/ (\E i \in Ids : StopSignal(i)) \/ StopSentinels \/ StopClearState
  \/ StopClearDetails \/ StopClearQueues

-----------------------------------------------------------------------------
Next ==
  \/ Start
  \/ \E c \in Calls : ProcessStep(c)
  \/ \E w \in Workers : WorkerStep(w)
  \/ \E i \in Ids : CancelStep(i)
  \/ StopStep

Spec == Init /\ [][Next]_vars

(* A thread that can run does: the operating system schedules every thread, *)
(* every wait on a task is bounded by its timeout, and a thread inside      *)
(* cancel_job() or stop() finishes the call.  Nobody has to call anything.  *)
Fairness ==
  /\ \A w \in Workers : WF_vars(WorkerStep(w))
  /\ \A c \in Calls : WF_vars(ppc[c] # "idle" /\ ProcessStep(c))
  /\ \A i \in Ids : WF_vars(CancelRemove(i) \/ CancelMark(i))
  /\ WF_vars(spc # "idle" /\ StopStep)

FairSpec == Spec /\ Fairness

-----------------------------------------------------------------------------
(* Properties.                                                              *)

TypeOK ==
  /\ running \in BOOLEAN /\ starts \in 0..MaxStarts
  /\ details \in [Ids -> Calls \union {NoCall}]
  /\ queue \in [Stages -> Seq(Ids \union {STOP})]
  /\ active \in [Stages -> SUBSET Ids]
  /\ discarded \subseteq Ids
  /\ job \in [Calls -> JobDetails]
  /\ live \in [Calls -> SUBSET Nat] /\ spared \in [Calls -> SUBSET Nat]
  /\ opened \in [Calls -> Nat]
  /\ wpc \in [Workers -> WorkerLocs] /\ wid \in [Workers -> Ids \union {STOP}]
  /\ wcall \in [Workers -> Calls \union {NoCall}]
  /\ wrt \in [Workers -> Nat] /\ wout \in [Workers -> Outcomes]
  /\ ppc \in [Calls -> ClientLocs] /\ answer \in [Calls -> Answers]
  /\ cpc \in [Ids -> {"idle", "checked", "removed"}]
  /\ spc \in {"idle", "signal", "clearState", "clearDetails", "clearQueues"}
  /\ toSignal \subseteq Ids

(* Locations at which a worker drives its job: from the registration in the *)
(* active set to the hand-over to the next queue.                           *)
Driving(w) == wpc[w] \in {"enter", "arm", "await", "resume", "handover"}

(* No two workers drive the same job at a time: the pipeline of queues      *)
(* hands a job on from one _worker loop to the next and never forks it.     *)
OneWorkerPerJob ==
  \A v, w \in Workers : v # w /\ Driving(v) /\ Driving(w) => wcall[v] # wcall[w]

(* process() reports no critical_error only for a job that went through     *)
(* both run and eval: a waiter woken early, by an exception, by cancel_job  *)
(* or by stop, is never told that its job succeeded.                        *)
AnswerSound ==
  \A c \in Calls : answer[c] = "ok" => job[c].runResults /\ job[c].evalResults

(* The agent runs on an open runtime unless its job was already signalled:  *)
(* the cleanups in _worker, process and cancel_job never pull the runtime   *)
(* from under a run that somebody still waits for.                          *)
RunOnLiveRuntime ==
  \A w \in Workers :
    StageOf[w] = "run" /\ wpc[w] = "await" /\ ~job[wcall[w]].event
      => job[wcall[w]].runtime \in live[wcall[w]]

(* A stage is run at most once for a job: a worker never starts the task of *)
(* a stage whose result the job already has, nor a second init.             *)
StageDone(c, s) ==
  CASE s = "init" -> opened[c] > 0
    [] s = "run" -> job[c].runResults
    [] s = "eval" -> job[c].evalResults

StageOnce ==
  [][\A w \in Workers : wpc[w] # "await" /\ wpc'[w] = "await"
                          => ~StageDone(wcall[w], StageOf[w])]_vars

(* Nobody will ever touch the job again: its call has returned, it is not   *)
(* registered, in no queue and with no worker.                              *)
Abandoned(c) ==
  /\ ppc[c] \in {"returned", "raised"}
  /\ details[IdOf[c]] # c
  /\ \A s \in Stages : \A k \in 1..Len(queue[s]) : queue[s][k] # IdOf[c]
  /\ \A w \in Workers : wcall[w] # c /\ wid[w] # IdOf[c]

(* The run stage is over, well or badly.                                    *)
RunOver(c) == job[c].runResults \/ job[c].results \in {"run", "eval"}

(* A job has no open runtime from the end of its run on, whether or not it  *)
(* was cancelled meanwhile.  When nobody can close one any more, a job      *)
(* leaves one open only if its init failed after it had made the runtime,   *)
(* or if it was cancelled before its run was over.  (Both happen: the       *)
(* runtime reaches job_details only when the init function returns.)        *)
RuntimeReclaimed ==
  \A c \in Calls :
    /\ RunOver(c) => live[c] = {}
    /\ Abandoned(c) /\ live[c] # {} => job[c].results = "init" \/ IdOf[c] \in Cancellable

(* Every call that waits for its job's event comes back.                    *)
EveryCallReturns ==
  \A c \in Calls : ppc[c] = "waiting" ~> ppc[c] \in {"returned", "raised"}
=============================================================================
