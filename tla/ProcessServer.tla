--------------------------- MODULE ProcessServer ---------------------------
(***************************************************************************)
(* The process-based OpenHandsServer of                                    *)
(* openhands/nvidia/async_server_process.py.                               *)
(*                                                                         *)
(* A call of process() spawns one worker process, which takes a semaphore  *)
(* permit for each of the three stages in turn and sends one result back.  *)
(* The semaphores, the job_status table and its lock live in a manager     *)
(* process; killing a worker undoes nothing it did there.  The parts of    *)
(* the server's own threads that hold job_status_lock are single actions,  *)
(* the lock is a variable because a worker can die while it holds it.      *)
(***************************************************************************)
EXTENDS Naturals, Sequences, FiniteSets

CONSTANTS
  Calls,          \* process() calls, with distinct job ids
  MaxWorkers,     \* max_init_workers, max_run_workers, max_eval_workers
  Rejected,       \* calls that is_registered_handler() refuses
  Cancellable,    \* jobs the environment may cancel, once each
  CrashAt,        \* where the operating system may kill a worker process
  OpenAtStop,     \* bound: with how many open calls the environment may stop the server
  RegistersFirst, \* is the job in `jobs' before its fresh process has a result?
  ExitsFirst,     \* is a worker that sent its result gone before it is killed?
  Free, STOP      \* no holder of the lock; the None that ends the result thread

Stages == {"init", "run", "eval"}
WorkerLocs == {"none", "acquire", "mark", "step", "release", "pop", "result", "final",
               "exit", "detached"}
Answers == {"none", "ok", "failed"}   \* "failed": any result that reports an error

ASSUME ConstantsAssumption ==
  /\ MaxWorkers \in [Stages -> Nat]
  /\ Rejected \subseteq Calls /\ Cancellable \subseteq Calls
  /\ CrashAt \subseteq WorkerLocs
  /\ OpenAtStop \subseteq Nat /\ RegistersFirst \in BOOLEAN /\ ExitsFirst \in BOOLEAN
  /\ Free \notin Calls /\ STOP \notin Calls \X Answers

VARIABLES
  running,     \* self.running
  jobs,        \* ids in self.jobs
  result,      \* JobState.result
  finished,    \* JobState.finished
  deadSince,   \* _dead_process_timestamps
  manager,     \* is the manager process there?
  status,      \* job_status
  sem,         \* concurrency_control: free permits
  lock,        \* the worker that holds job_status_lock
  inbox,       \* result_queue
  listening,   \* is the result thread running?
  wpc, stage, alive, out, done,   \* per worker process
  ppc, answer, expired, closing,  \* per process() call
  cpc,         \* per job: location of its cancel_job()
  spc, remaining                  \* stop()

serverVars == <<running, jobs, result, finished, deadSince, listening>>
managerVars == <<manager, status, sem, lock, inbox>>
workerVars == <<wpc, stage, alive, out, done>>
clientVars == <<ppc, answer, expired, closing>>
stopVars == <<spc, remaining>>
vars == <<serverVars, managerVars, workerVars, clientVars, cpc, stopVars>>

ClientLocs == {"idle", "monitored", "spawned", "registered", "waiting", "collected",
               "popped", "returned", "raised"}

Init ==
  /\ running = TRUE /\ jobs = {}
  /\ result = [c \in Calls |-> "none"] /\ finished = [c \in Calls |-> FALSE]
  /\ deadSince = {}
  /\ manager = TRUE /\ listening = TRUE
  /\ status = [c \in Calls |-> "none"] /\ sem = MaxWorkers /\ lock = Free /\ inbox = <<>>
  /\ wpc = [c \in Calls |-> "none"] /\ stage = [c \in Calls |-> "init"]
  /\ alive = [c \in Calls |-> FALSE] /\ out = [c \in Calls |-> "ok"]
  /\ done = [c \in Calls |-> {}]
  /\ ppc = [c \in Calls |-> "idle"] /\ answer = [c \in Calls |-> "none"]
  /\ expired = [c \in Calls |-> {}] /\ closing = [c \in Calls |-> {}]
  /\ cpc = [c \in Calls |-> "idle"]
  /\ spc = "idle" /\ remaining = {}

-----------------------------------------------------------------------------
(* Under job_status_lock: the entry is popped and the permit it stands for  *)
(* released; a missing entry releases nothing.                              *)
PopAndRelease(c) ==
  /\ status' = [status EXCEPT ![c] = "none"]
  /\ sem' = [s \in Stages |-> IF s = status[c] THEN sem[s] + 1 ELSE sem[s]]

(* JobState.close() and the removal from jobs: the process is killed and    *)
(* the waiter signalled.                                                    *)
CloseJob(c) ==
  IF c \notin jobs THEN UNCHANGED <<jobs, alive, finished>>
  ELSE /\ jobs' = jobs \ {c}
       /\ alive' = [alive EXCEPT ![c] = FALSE]
       /\ finished' = [finished EXCEPT ![c] = TRUE]

-----------------------------------------------------------------------------
(* process().                                                               *)

(* _monitor_dead_processes(): a job found dead is noted, one noted more     *)
(* than ten seconds ago is to be cleaned up.  With nothing to clean up, a   *)
(* call that will be refused is over at once; it may be made again.         *)
Monitor(c) ==
  LET dead == {j \in jobs : ~alive[j]} IN
  /\ ppc[c] = "idle" /\ running
  /\ \E D \in SUBSET (dead \intersect deadSince) :
       /\ expired' = [expired EXCEPT ![c] = D]
       /\ deadSince' = ((deadSince \intersect jobs) \union dead) \ D
       /\ ppc' = [ppc EXCEPT ![c] = IF c \in Rejected /\ D = {} THEN "idle" ELSE "monitored"]
  /\ UNCHANGED <<running, jobs, result, finished, listening, managerVars, workerVars, answer,
                 closing, cpc, stopVars>>

(* _cleanup_dead_job(), first half; without a manager it raises and the     *)
(* second half is skipped.                                                  *)
CleanupStatus(c) ==
  /\ ppc[c] = "monitored" /\ closing[c] = {}
  /\ \E j \in expired[c] :
       /\ expired' = [expired EXCEPT ![c] = @ \ {j}]
       /\ \/ /\ manager /\ (status[j] # "none" => lock = Free) /\ PopAndRelease(j)
             /\ closing' = [closing EXCEPT ![c] = {j}]
          \/ ~manager /\ UNCHANGED <<status, sem, closing>>
  /\ UNCHANGED <<serverVars, manager, lock, inbox, workerVars, ppc, answer, cpc, stopVars>>

(* _cleanup_dead_job(), second half, under _job_details_lock.               *)
CleanupJob(c) ==
  /\ \E j \in closing[c] : CloseJob(j)
  /\ closing' = [closing EXCEPT ![c] = {}]
  /\ UNCHANGED <<running, result, deadSince, listening, managerVars, wpc, stage, out, done,
                 ppc, answer, expired, cpc, stopVars>>

(* The handler check and p.start().  After stop() the process gets None for *)
(* the queue, the semaphores and the table.                                 *)
Launch(c) ==
  /\ ppc[c] = "monitored" /\ expired[c] = {} /\ closing[c] = {}
  /\ IF c \in Rejected THEN ppc' = [ppc EXCEPT ![c] = "idle"] /\ UNCHANGED <<alive, wpc>>
     ELSE /\ ppc' = [ppc EXCEPT ![c] = "spawned"]
          /\ alive' = [alive EXCEPT ![c] = TRUE]
          /\ wpc' = [wpc EXCEPT ![c] = IF manager THEN "acquire" ELSE "detached"]
  /\ UNCHANGED <<serverVars, managerVars, stage, out, done, answer, expired, closing, cpc,
                 stopVars>>

Register(c) ==
  /\ ppc[c] = "spawned"
  /\ jobs' = jobs \union {c}
  /\ ppc' = [ppc EXCEPT ![c] = "registered"]
  /\ UNCHANGED <<running, result, finished, deadSince, listening, managerVars, workerVars,
                 answer, expired, closing, cpc, stopVars>>

(* Mutant: JobState has no destructor.                                      *)
Leave_NoKill(c) == UNCHANGED alive

(* process() is left and with it the last reference to the JobState, whose  *)
(* destructor kills the process.                                            *)
Leave(c) == alive' = [alive EXCEPT ![c] = FALSE]

(* self.jobs[job_id].finished is looked up: a KeyError after a stop().      *)
Await(c) ==
  /\ ppc[c] = "registered"
  /\ IF c \in jobs THEN ppc' = [ppc EXCEPT ![c] = "waiting"] /\ UNCHANGED alive
     ELSE ppc' = [ppc EXCEPT ![c] = "raised"] /\ Leave(c)
  /\ UNCHANGED <<serverVars, managerVars, wpc, stage, out, done, answer, expired, closing, cpc,
                 stopVars>>

(* finished.wait() returns; a missing job or result becomes an error.       *)
Collect(c) ==
  /\ ppc[c] = "waiting" /\ finished[c]
  /\ answer' = [answer EXCEPT ![c] = IF c \in jobs /\ result[c] # "none" THEN result[c]
                                     ELSE "failed"]
  /\ ppc' = [ppc EXCEPT ![c] = "collected"]
  /\ UNCHANGED <<serverVars, managerVars, workerVars, expired, closing, cpc, stopVars>>

(* Under job_status_lock, which is None after stop().                       *)
PopStatus(c) ==
  /\ ppc[c] = "collected"
  /\ \/ /\ manager /\ lock = Free /\ PopAndRelease(c)
        /\ ppc' = [ppc EXCEPT ![c] = "popped"]
        /\ UNCHANGED alive
     \/ /\ ~manager /\ ppc' = [ppc EXCEPT ![c] = "raised"]
        /\ Leave(c)
        /\ UNCHANGED <<status, sem>>
  /\ UNCHANGED <<serverVars, manager, lock, inbox, wpc, stage, out, done, answer, expired,
                 closing, cpc, stopVars>>

(* Under _job_details_lock: the job is removed; the process is killed now   *)
(* or, if stop() removed the job before, with the JobState.                 *)
Close(c) ==
  /\ ppc[c] = "popped"
  /\ ExitsFirst => ~(alive[c] /\ wpc[c] = "final")
  /\ jobs' = jobs \ {c}
  /\ Leave(c)
  /\ ppc' = [ppc EXCEPT ![c] = "returned"]
  /\ UNCHANGED <<running, finished, result, deadSince, listening, managerVars, wpc, stage, out, done,
                 answer, expired, closing, cpc, stopVars>>

ProcessStep(c) ==
  \/ Monitor(c) \/ CleanupStatus(c) \/ CleanupJob(c) \/ Launch(c) \/ Register(c) \/ Await(c)
  \/ Collect(c) \/ PopStatus(c) \/ Close(c)

-----------------------------------------------------------------------------
(* The worker process: process_job() and Worker.run().                      *)

NextStage == [s \in {"init", "run"} |-> IF s = "init" THEN "run" ELSE "eval"]

(* Mutant: the semaphore is taken without looking at its value.             *)
Acquire_NoCheck(c) ==
  /\ wpc[c] = "acquire" /\ manager
  /\ sem' = [sem EXCEPT ![stage[c]] = @ - 1]
  /\ wpc' = [wpc EXCEPT ![c] = IF alive[c] THEN "mark" ELSE "exit"]
  /\ UNCHANGED <<serverVars, manager, status, lock, inbox, stage, alive, out, done, clientVars,
                 cpc, stopVars>>

(* A permit of the stage's semaphore.  The manager serves an acquire whose  *)
(* process was killed while waiting: the permit is then nobody's.           *)
Acquire(c) ==
  /\ wpc[c] = "acquire" /\ manager /\ sem[stage[c]] > 0
  /\ sem' = [sem EXCEPT ![stage[c]] = @ - 1]
  /\ wpc' = [wpc EXCEPT ![c] = IF alive[c] THEN "mark" ELSE "exit"]
  /\ UNCHANGED <<serverVars, manager, status, lock, inbox, stage, alive, out, done, clientVars,
                 cpc, stopVars>>

(* job_status_lock, for the section that the worker is about to enter; a    *)
(* killed worker's request is served as well.                               *)
TakeLock(c) ==
  /\ wpc[c] \in {"mark", "pop", "final"} /\ manager /\ lock = Free
  /\ lock' = c
  /\ UNCHANGED <<serverVars, manager, status, sem, inbox, workerVars, clientVars, cpc, stopVars>>

(* job_status[job_id] = the stage.                                          *)
Mark(c) ==
  /\ wpc[c] = "mark" /\ alive[c] /\ manager /\ lock = c
  /\ status' = [status EXCEPT ![c] = stage[c]]
  /\ lock' = Free
  /\ wpc' = [wpc EXCEPT ![c] = "step"]
  /\ UNCHANGED <<serverVars, manager, sem, inbox, stage, alive, out, done, clientVars, cpc,
                 stopVars>>

(* run_step(): the stage succeeds, or fails; its exception function then    *)
(* makes the results, or raises and process_job() makes them.               *)
Step(c) ==
  /\ wpc[c] = "step" /\ alive[c]
  /\ \/ out' = [out EXCEPT ![c] = "ok"] /\ done' = [done EXCEPT ![c] = @ \union {stage[c]}]
     \/ out' = [out EXCEPT ![c] = "failed"] /\ UNCHANGED done
  /\ wpc' = [wpc EXCEPT ![c] = "release"]
  /\ UNCHANGED <<serverVars, managerVars, stage, alive, clientVars, cpc, stopVars>>

(* Mutant: a stage that failed keeps its permit.                            *)
Release_OnlyOk(c) ==
  /\ wpc[c] = "release" /\ alive[c] /\ manager
  /\ sem' = IF out[c] = "ok" THEN [sem EXCEPT ![stage[c]] = @ + 1] ELSE sem
  /\ wpc' = [wpc EXCEPT ![c] = "pop"]
  /\ UNCHANGED <<serverVars, manager, status, lock, inbox, stage, alive, out, done, clientVars,
                 cpc, stopVars>>

(* The finally clause: the permit first ...                                 *)
Release(c) ==
  /\ wpc[c] = "release" /\ alive[c] /\ manager
  /\ sem' = [sem EXCEPT ![stage[c]] = @ + 1]
  /\ wpc' = [wpc EXCEPT ![c] = "pop"]
  /\ UNCHANGED <<serverVars, manager, status, lock, inbox, stage, alive, out, done, clientVars,
                 cpc, stopVars>>

(* Mutant: a failed stage is followed by the next one.                      *)
Continues_Always(c) == stage[c] # "eval"

(* event.is_set() is false after a stage that succeeded, eval excepted.     *)
Continues(c) == stage[c] # "eval" /\ out[c] = "ok"

(* ... then the table entry, under the lock; on to the next stage or to     *)
(* the results.                                                             *)
Pop(c) ==
  /\ wpc[c] = "pop" /\ alive[c] /\ manager /\ lock = c
  /\ status' = [status EXCEPT ![c] = "none"]
  /\ lock' = Free
  /\ IF Continues(c)
     THEN /\ stage' = [stage EXCEPT ![c] = NextStage[@]]
          /\ wpc' = [wpc EXCEPT ![c] = "acquire"]
     ELSE wpc' = [wpc EXCEPT ![c] = "result"] /\ UNCHANGED stage
  /\ UNCHANGED <<serverVars, manager, sem, inbox, alive, out, done, clientVars, cpc, stopVars>>

(* get_results(), or the except clause of process_job() when final_result   *)
(* or the stage raised: one result is put in either case.                   *)
PutResult(c) ==
  /\ wpc[c] = "result" /\ alive[c] /\ manager
  /\ RegistersFirst => ppc[c] # "spawned"
  /\ \E r \in {out[c], "failed"} : inbox' = Append(inbox, <<c, r>>)
  /\ wpc' = [wpc EXCEPT ![c] = "final"]
  /\ UNCHANGED <<serverVars, manager, status, sem, lock, stage, alive, out, done, clientVars,
                 cpc, stopVars>>

(* The finally clause of process_job(): what the table still has of the job *)
(* is released; the process ends.                                           *)
Final(c) ==
  /\ wpc[c] = "final" /\ alive[c] /\ manager /\ lock = c
  /\ PopAndRelease(c)
  /\ lock' = Free
  /\ wpc' = [wpc EXCEPT ![c] = "exit"] /\ alive' = [alive EXCEPT ![c] = FALSE]
  /\ UNCHANGED <<serverVars, manager, inbox, stage, out, done, clientVars, cpc, stopVars>>

(* Without a manager every operation on it raises, the error result cannot  *)
(* be put either, and the process ends.                                     *)
Orphaned(c) ==
  /\ alive[c] /\ ~manager /\ wpc[c] \notin {"step", "detached"}
  /\ wpc' = [wpc EXCEPT ![c] = "exit"] /\ alive' = [alive EXCEPT ![c] = FALSE]
  /\ UNCHANGED <<serverVars, managerVars, stage, out, done, clientVars, cpc, stopVars>>

(* The operating system kills the process.                                  *)
Crash(c) ==
  /\ alive[c] /\ wpc[c] \in CrashAt
  /\ alive' = [alive EXCEPT ![c] = FALSE]
  /\ UNCHANGED <<serverVars, managerVars, wpc, stage, out, done, clientVars, cpc, stopVars>>

WorkerStep(c) ==
  \/ Acquire(c) \/ TakeLock(c) \/ Mark(c) \/ Step(c) \/ Release(c) \/ Pop(c)
  \/ PutResult(c) \/ Final(c) \/ Orphaned(c)

-----------------------------------------------------------------------------
(* Mutant: the result is stored and the waiter left waiting.                *)
Deliver_NoSignal ==
  /\ listening /\ inbox # <<>>
  /\ inbox' = Tail(inbox)
  /\ listening' = (Head(inbox) # STOP)
  /\ IF Head(inbox) # STOP /\ Head(inbox)[1] \in jobs
     THEN result' = [result EXCEPT ![Head(inbox)[1]] = Head(inbox)[2]]
     ELSE UNCHANGED result
  /\ UNCHANGED <<running, jobs, finished, deadSince, manager, status, sem, lock, workerVars,
                 clientVars, cpc, stopVars>>

(* The result thread: the result of an unknown job is dropped.              *)
Deliver ==
  /\ listening /\ inbox # <<>>
  /\ inbox' = Tail(inbox)
  /\ listening' = (Head(inbox) # STOP)
  /\ IF Head(inbox) # STOP /\ Head(inbox)[1] \in jobs
     THEN /\ result' = [result EXCEPT ![Head(inbox)[1]] = Head(inbox)[2]]
          /\ finished' = [finished EXCEPT ![Head(inbox)[1]] = TRUE]
     ELSE UNCHANGED <<result, finished>>
  /\ UNCHANGED <<running, jobs, deadSince, manager, status, sem, lock, workerVars,
                 clientVars, cpc, stopVars>>

-----------------------------------------------------------------------------
(* cancel_job(): the waiter is signalled ...                                *)
CancelSignal(c) ==
  /\ c \in Cancellable /\ cpc[c] = "idle" /\ running /\ c \in jobs
  /\ finished' = [finished EXCEPT ![c] = TRUE]
  /\ cpc' = [cpc EXCEPT ![c] = "signalled"]
  /\ UNCHANGED <<running, jobs, result, deadSince, listening, managerVars, workerVars,
                 clientVars, stopVars>>

(* ... and the permit the job has according to the table is released.       *)
CancelRelease(c) ==
  /\ cpc[c] = "signalled"
  /\ \/ manager /\ lock = Free /\ PopAndRelease(c)
     \/ ~manager /\ UNCHANGED <<status, sem>>
  /\ cpc' = [cpc EXCEPT ![c] = "finished"]
  /\ UNCHANGED <<serverVars, manager, lock, inbox, workerVars, clientVars, stopVars>>

-----------------------------------------------------------------------------
(* stop().                                                                  *)
StopBegin ==
  /\ running /\ spc = "idle"
  /\ Cardinality({c \in Calls : ppc[c] \notin {"idle", "returned", "raised"}}) \in OpenAtStop
  /\ running' = FALSE
  /\ remaining' = jobs
  /\ spc' = "closing"
  /\ UNCHANGED <<jobs, result, finished, deadSince, listening, managerVars, workerVars,
                 clientVars, cpc>>

StopClose(c) ==
  /\ spc = "closing" /\ c \in remaining
  /\ CloseJob(c)
  /\ remaining' = remaining \ {c}
  /\ UNCHANGED <<running, result, deadSince, listening, managerVars, wpc, stage, out, done,
                 clientVars, cpc, spc>>

(* jobs.clear(): process() still refers to the JobState, so that nothing    *)
(* closes a job that was registered meanwhile.                              *)
StopClear ==
  /\ spc = "closing" /\ remaining = {}
  /\ jobs' = {}
  /\ spc' = "draining"
  /\ UNCHANGED <<running, result, finished, deadSince, listening, managerVars, workerVars,
                 clientVars, cpc, remaining>>

(* clear_queue() and the None for the result thread.                        *)
StopDrain ==
  /\ spc = "draining"
  /\ inbox' = <<STOP>>
  /\ spc' = "joining"
  /\ UNCHANGED <<serverVars, manager, status, sem, lock, workerVars, clientVars, cpc, remaining>>

(* The join; release_all().                                                 *)
StopRelease ==
  /\ spc = "joining" /\ ~listening
  /\ sem' = [s \in Stages |-> sem[s] + MaxWorkers[s]]
  /\ spc' = "shutdown"
  /\ UNCHANGED <<serverVars, manager, status, lock, inbox, workerVars, clientVars, cpc,
                 remaining>>

StopShutdown ==
  /\ spc = "shutdown"
  /\ manager' = FALSE
  /\ deadSince' = {}
  /\ spc' = "stopped"
  /\ UNCHANGED <<running, jobs, result, finished, listening, status, sem, lock, inbox,
                 workerVars, clientVars, cpc, remaining>>

StopStep ==
  \/ StopBegin \/ (\E c \in Calls : StopClose(c)) \/ StopClear \/ StopDrain \/ StopRelease
  \/ StopShutdown

-----------------------------------------------------------------------------
Next ==
  \/ \E c \in Calls : ProcessStep(c)
  \/ \E c \in Calls : WorkerStep(c) \/ Crash(c)
  \/ Deliver
  \/ \E c \in Calls : CancelSignal(c) \/ CancelRelease(c)
  \/ StopStep

Spec == Init /\ [][Next]_vars

(* Threads and live processes are scheduled, every stage ends within its    *)
(* timeout, and cancel_job() and stop() go on once called.  What the        *)
(* manager does for a dead process may happen or not, and nobody has to     *)
(* call process(), cancel_job() or stop().                                  *)
Fairness ==
  /\ \A c \in Calls : WF_vars(ppc[c] # "idle" /\ ProcessStep(c))
  /\ \A c \in Calls : WF_vars(alive[c] /\ WorkerStep(c))
  /\ WF_vars(Deliver)
  /\ \A c \in Calls : WF_vars(CancelRelease(c))
  /\ WF_vars(spc # "idle" /\ StopStep)

FairSpec == Spec /\ Fairness

-----------------------------------------------------------------------------
(* Properties.                                                              *)

TypeOK ==
  /\ running \in BOOLEAN /\ jobs \subseteq Calls /\ deadSince \subseteq Calls
  /\ result \in [Calls -> Answers] /\ finished \in [Calls -> BOOLEAN]
  /\ manager \in BOOLEAN /\ listening \in BOOLEAN
  /\ status \in [Calls -> Stages \union {"none"}] /\ sem \in [Stages -> Nat]
  /\ lock \in Calls \union {Free}
  /\ inbox \in Seq((Calls \X Answers) \union {STOP})
  /\ wpc \in [Calls -> WorkerLocs] /\ stage \in [Calls -> Stages]
  /\ alive \in [Calls -> BOOLEAN] /\ out \in [Calls -> Answers]
  /\ done \in [Calls -> SUBSET Stages]
  /\ ppc \in [Calls -> ClientLocs] /\ answer \in [Calls -> Answers]
  /\ expired \in [Calls -> SUBSET Calls] /\ closing \in [Calls -> SUBSET Calls]
  /\ cpc \in [Calls -> {"idle", "signalled", "finished"}]
  /\ spc \in {"idle", "closing", "draining", "joining", "shutdown", "stopped"}
  /\ remaining \subseteq Calls

(* Workers that took a permit of the stage and did not give it back; of a   *)
(* dead one the table still has the entry from which it can be recovered.   *)
Holders(s) ==
  {c \in Calls : /\ stage[c] = s
                 /\ IF alive[c] THEN wpc[c] \in {"mark", "step", "release"}
                    ELSE status[c] = s}

(* Until stop() gives up the semaphores, the permits of a stage and the     *)
(* workers that hold one add up to the configured number, whatever fails or *)
(* dies inside a stage: each permit goes back exactly once, through         *)
(* Worker.run(), process_job(), process() or _cleanup_dead_job().           *)
PermitsConserved ==
  running => \A s \in Stages : sem[s] + Cardinality(Holders(s)) = MaxWorkers[s]

(* At most the configured number of jobs are inside run_step() of a stage.  *)
StageBound ==
  \A s \in Stages :
    Cardinality({c \in Calls : alive[c] /\ wpc[c] = "step" /\ stage[c] = s}) <= MaxWorkers[s]

(* A worker process never outlives the process() call it was started for:   *)
(* by the time the call returns, the process has ended or was killed.       *)
NoStrayProcess == \A c \in Calls : ppc[c] \in {"returned", "raised"} => ~alive[c]

(* process() hands out a success only if all three stages succeeded, even   *)
(* if cancel_job(), stop() or the monitor signalled the waiter first.       *)
ProcessAnswerSound == \A c \in Calls : answer[c] = "ok" => done[c] = Stages

(* Every call that waits for its result comes back, cancelled or not,       *)
(* unless another job is cancelled: the worker that is killed for that one  *)
(* may take a permit or job_status_lock with it.                            *)
EveryCallReturns ==
  \A c \in Calls :
    ppc[c] = "waiting"
      ~> ppc[c] \in {"returned", "raised"} \/ \E d \in Calls \ {c} : cpc[d] # "idle"
=============================================================================
