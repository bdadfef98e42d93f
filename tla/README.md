# Verification of the ProRL agent server

TLA+ models of the rollout system in this repository: the job servers and the coordinator in
front of them, the trainer that drives them, and the parts of the agent that every rollout goes
through. TLC checks the models on small instances; TLAPS proves the most important safety
properties of seven of them for every instance.

## 1. The system

| Part | Source | State | Operations that change it |
|---|---|---|---|
| Thread-based job server | `openhands/nvidia/async_server.py` | job table, three queues, active sets, `JobDetails` objects with event, timer and runtime, worker threads | `start`, `process`, `_worker`, `cancel_job`, `stop` |
| Its HTTP front end | `scripts/start_server_thread.py`, `openhands/nvidia/utils.py` | thread pool | `/start`, `/stop`, `/cancel`, `/process`, `cleanup_timed_out_job` |
| Process-based job server | `openhands/nvidia/async_server_process.py` | `jobs`; in a manager process three semaphores, `job_status` and its lock, the result queue; one worker process per job | `process`, `Worker.run`, the result thread, `_monitor_dead_processes`, `cancel_job`, `stop` |
| Coordinator | `scripts/start_server.py` | `result_futures`, address buffer, child process, three queues, listener threads | `/start`, `/stop`, `/process`, `/cancel`, `/status`, `/add_llm_server`, `/clear_llm_server`, `_response_listener`, `server_worker` |
| Phase timer | `openhands/nvidia/timer.py` | phase, phase times, timeout flag | `enter_phase`, `exit_phase`, `run_with_timeout_awareness` |
| LLM balancer | both servers | heap of weighted addresses | add, clear, give out |
| Rollout dispatcher | `trainer_integration/.../rollout/async_server.py` | job queue, pool of workers, tasks, results | `request_from_openhands` and its coroutines |
| DAPO sampler | `trainer_integration/.../rollout/async_server_dapo.py` | the same, kept over calls, and the input batch | `request_from_openhands_dapo` |
| Batch conversion | `.../rollout/async_server.py`, `.../rollout/utils.py` | none | `_convert_results_to_dataproto_token` |
| Training loop | `.../trainer/ppo/ray_trainer.py` | models, data position, checkpoint folders, tracker file | `fit`, `_save_checkpoint`, `_load_checkpoint` |
| Agent loop | `openhands/controller`, `openhands/events/stream.py`, `openhands/nvidia/controller.py` | event stream, agent state, history | the subscribers' handlers, `_step`, `_reset`, `run_controller` |
| Agent context | `openhands/memory` | history and its condensations | condensers, `process_events`, the conversation window |
| Token-level generation | `openhands/llm/nvidia`, `openhands/nvidia` | messages with tokens | `request_response_tokens`, `process_messages_from_agent_state` |
| Stuck detector | `openhands/controller/stuck.py` | none | `is_stuck` before a step |
| Shell session | `openhands/runtime/utils/efficient_bash.py` | terminal, buffer, command in progress | `execute`, the reader task |

**How they interact.** The training loop asks the dispatcher (or the DAPO sampler) for
rollouts. A dispatcher task posts one message to a coordinator. The coordinator registers a
future under the job id and sends the job to its child, which runs it in a thread that calls
`process()` of a job server. The job goes through *init*, *run* and *eval*; each stage runs under
what the phase timer has left of the budget; the LLM address comes from the balancer. In *run* the
agent loop alternates between the model, to which the agent context or the token-level generation is
shown, and the runtime, where the shell session executes commands; the stuck detector cuts
loops. The result goes back through queue, listener and future to the dispatcher, and the batch
conversion makes a training row of it.

**What makes it hard.** A job is known under its id in several tables with different locks, and
as an object that threads keep after the id has been removed. A waiter can be woken by the last stage,
a failure, a cancellation and `stop()`. Worker processes are killed while they hold permits that live
elsewhere. One event loop serves requests, and blocks while a control handler waits.
Acknowledgments and results share queues across timeouts, crashes and restarts. Requests are
retried while their first attempt may still be at work. A training job may die between any two
writes. The hazards are listed at their lines in `PROJECT.json`.

## 2. The modules

| Module | Models | Proofs in |
|---|---|---|
| `ThreadServer` | thread-based server and front end | `ThreadServerProofs`, `ThreadServerRuntimeProofs` |
| `ProcessServer` | process-based server | `ProcessServerProofs` |
| `Coordinator` | coordinator, listeners and child | `CoordinatorProofs` |
| `PausableTimer` | timer and the worker that uses it | `JobSupportProofs` |
| `LlmBalancer` | what load balancing promises | `JobSupportProofs` |
| `HeapBalancer` | the heap that implements `LlmBalancer` | |
| `RolloutDispatcher` | one call of `request_from_openhands` | `RolloutDispatcherProofs` |
| `RolloutDapo` | calls of `request_from_openhands_dapo`, one after the other | |
| `TrainingLoop` | `fit` with checkpoints and crashes | `TrainingLoopProofs` |
| `TrainingRow` | one conversation to one row | |
| `RolloutBatch` | responses to a batch (extends `TrainingRow`) | |
| `TokenRollout` | one token-level rollout (extends `TrainingRow`) | |
| `AgentLoop` | one headless agent run | |
| `AgentContext` | history, views, condensers, prompt | |
| `StuckDetector` | both detectors and the step that asks them | |
| `BashSession` | shell, terminal, reader and `execute()` | |
| `MCThreadServer`, `MCProcessServer`, `MCCoordinator`, `MCThreadSafe`, `MCServersLive`, `MCProgress`, `MCComponents` | instances for TLC; the last four hold several parts, one of which a behaviour follows | |

**ThreadServer.** A call `c` of `process()` also names the `JobDetails` object it makes; `IdOf`
gives its job id. `job[c]` is that object, `details` the table, `queue` and `active` are
indexed by stage. `live[c]` is the set of open runtimes made for the call. Each worker thread
has a location `wpc` and the locals that survive a step. One action is the code between two
points where another thread can see a change: a section under a lock, a queue operation, the
part before and after an `await`. `TaskSucceeds` and `TaskFails` are the ends of a stage's task; an
init makes its runtime (`OpenRuntime`, the `initialize_agents()` of the task handlers) before it can
fail, so a failing one may leave it open.
The timer appears as its phase only; that a budget is used up is a choice in `Arm` and
`TaskFails`. The front end is part of `Admit` (its checks) and `CleanupTimedOutJob`. `stop()` is six
actions, one per lock section. Constants say which faults may happen.

**ProcessServer.** A call also names its worker process. The manager's objects are variables:
`sem`, `status` (`job_status`), `lock` and `inbox`. `alive` says whether the process is there; a
killed process undoes nothing. The manager also serves the pending `acquire()` of a process
that is killed, which is why `Acquire` and `TakeLock` do not require `alive`. `CrashAt` is where the
operating system may kill a worker. `RegistersFirst` and `ExitsFirst` name two timing assumptions
(a new Python process takes longer to produce a result than the next two lines of `process()`; a
worker that has sent its result ends before the call kills it); safety is checked and proved without
them.

**Coordinator.** `op` is the control handler that blocks the event loop; no other handler runs
meanwhile. `gen` is the child whose queues the globals name. Every `/start` has a listener `g`,
which may outlive its child. The job server is a job that is queued, runs and ends. `Resume` is
the done callback of the future together with the rest of the handler.

**PausableTimer.** Reading the clock and accumulating is one step, switching the phase another;
`Tick` may come between any two. `worked` is the time that coroutines have run.

**HeapBalancer.** A sequence of records, and heapq's two sift loops as in CPython. Addresses are
numbered in the order of their strings. `LeastUsed` is the refinement: its behaviours, seen as
weights per address, are those of `LlmBalancer`.

**RolloutDispatcher.** Everything runs on one event loop, so a step reaches from one suspending
`await` to the next. The dispatcher (`DispatchGet`, `DispatchTask`), a task per job (`Send`,
`ClientTimeout`, `Settle`, `Release`) and the collector interleave. `serving` is what the servers
are still at work on, also for clients that gave up.

**RolloutDapo.** The queues are bags of entries, because their order is the index only and equal
indexes cannot be compared; a queue operation that may compare such a pair may raise. A call ends by
cancelling everything wherever it is.

**TrainingLoop.** Weights are the number of the last step that changed them; a checkpoint is
written in five actions, and `Crash` may come between any two. The next run resumes from the
folder that the tracker names.

**TrainingRow, RolloutBatch, TokenRollout.** A token names its message and its place in it, so that
masks, log-probabilities and positions can be compared with the turn they belong to.
`RolloutBatch` groups, fills, cuts and pads; `TokenRollout` follows what the model is sent and
compares it with what is trained on.

**AgentLoop.** Four subscribers handle events in threads of their own. Adding an event is two steps,
because its id is drawn under the lock and it is delivered outside. What a handler still has to do
is its thread's list. The model's answer, the verdict of the stuck detector and the success of a
command are choices.

**AgentContext.** An event is its kind, its response and tool call, and what it forgets. The policies
are the condensers and the controller's window.

**StuckDetector.** The history is built of whole turns; the detector sees the flattened events, as in
the code, and what it should find is stated about the turns.

**BashSession.** The terminal's lines are numbered. What is printed is a sequence of pieces of
output and of prompts, each with the line it comes from.

## 3. The runs

| Run | Instance | Shows |
|---|---|---|
| `thread_safe` | 2 jobs, 1 worker per stage, one job cancellable, all callbacks may raise; and 1 job with `stop()` and two `start()`s | one worker per job, also while two generations of workers coexist; each stage once and on an open runtime; runtimes reclaimed; success earned |
| `process_safe` | 3 calls of which one is refused, 1 permit per stage, kills inside or after a stage, `stop()` with at most one open call | permits conserved, no stray process, success earned |
| `process_live` | 2 jobs, one cancellable | every waiting call returns |
| `coordinator_safe` | 2 requests, 1 executor thread, 2 children, 2 control messages, timers, crashes, late acknowledgments | no future lost or leaked, 200 earned, addresses agree |
| `servers_live` | thread server: 2 jobs, one cancellable, one without functions; coordinator: no timers and crashes, all control requests | every call returns, own acknowledgments, every request answered |
| `progress` | training: 6 steps in 3 epochs, 2 crashes; dispatcher: 2 messages, 2 servers; agent: 2 iterations | models, data and checkpoints aligned; no message or worker lost, attempts bounded; events in order, commands answered; all three come to their end |
| `components` | one instance each of timer, heap, DAPO, context, shell, batch, tokens, detector | what each of them promises (see `PROJECT.json`) |
| `thread_stop_live` | 1 job, `stop()` | **violated**: a call whose job is queued when `stop()` comes never returns |
| `process_bound` | 2 jobs, one cancelled | **violated**: a cancelled job's permit is released while its worker still runs |
| `coordinator_stale_ack` | 2 requests, a timeout | **violated**: a control handler takes the acknowledgment of an earlier cancel |
| `dapo_orphan` | 2 instances, 2 rounds | **violated**: a round meets entries of instances that it no longer knows |
| `batch_fallback` | 2 instances | **violated**: a batch that begins with an instance without messages cannot be converted |

**Bounds.** Two jobs and one worker or permit per stage are enough for a job to wait behind
another, to be overtaken, and to meet a cancelled one. A refused call still runs the monitor of
dead processes, so that repeating it lets a death be noted and then cleaned up. `OpenAtStop` lets
`stop()` of the process-based server meet one open call, whose fate does not depend on the other's
once the server is stopping. Two `start()`s are enough for leftovers of one life of a server to meet
the next; stages that fail are left to the other part of `thread_safe` (`RestartNext`), where in turn
a budget runs out, and `final_result()` raises, only for the job that is not cancelled (`FaultsNext`): a cancelled one
is marked as timed out, and its call fails, anyway. Two control messages let one meet the
acknowledgment of the other; `/status` and `/cancel`, which change no state of the coordinator, are
the last of them and come while the first child is there (`QueriesLast`), and the second child is not followed beyond
its own death (`OneCrash`). A budget of 3
and a clock to 7 let all three stages take part of the budget, exhaust it in each of them, and wait in
between. Five addresses make a heap of three levels. A save frequency of 4 in 6 steps of 2 per
epoch has checkpoints inside and at the end of epochs, and two crashes let a resumed run die
again. Two messages and two servers let retries overtake each other. Two DAPO rounds are
needed to meet what the first one left. Seven turns and a history of 14 events are beyond what the
detector looks back on in its short scenarios and beyond two condensations. `MaxStarts`, `MaxControl`,
`MaxTime`, `OpenAtStop`, `MaxWeight`, `MaxCrashes`, `MaxRounds`, `MaxIter`, `MaxLength`, `MaxLines`,
`MaxPieces`, `MaxKeys`, `MaxReplies`, `MaxTurns` and the like bound the counters. An agent run is followed until a step
overtakes a reset, a shell session until an interrupt goes astray (section 5): nothing is claimed
beyond. Symmetry is used where the calls are interchangeable and no liveness is checked. Deadlock is
not checked where the system rightly stops: all calls answered, nobody makes new ones.

**Fairness.** Threads and live processes are scheduled (weak fairness per thread); a stage ends
because `wait_for()` bounds it; `cancel_job()` and `stop()` go on once called. Nobody has to call
anything, and nothing has to crash or time out. In the coordinator, resuming a handler has
strong fairness: it needs the loop not to be blocked, which is so again and again. The listener
completes futures from another thread, which does not wake the loop; uvicorn's own periodic
task does. The dispatcher's event loop does not rest while a coroutine can run, and a send ends at the
latest by the client's timeout; the servers owe nothing. Training has fairness for its own work
only. The agent's threads are fair together; the model and the runtime answer, because their calls
have timeouts.

## 4. The proofs

The theorems hold for every value of the constants that satisfies the assumptions named in the
modules: any number of jobs, workers, permits, messages, crashes and restarts. Where a theorem needs
more, its `ASSUME` says so.

| Theorems | Property | Inductive invariant | Extra assumption |
|---|---|---|---|
| `ThreadServerProofs`: `TypeCorrect`, `AnswerCorrect`, `OneDriver`, `StagesRunOnce` | types, `AnswerSound`, `OneWorkerPerJob`, `StageOnce` | `TypeInv`, `AnswerInv`, `TokenInv`, `StageInv` | `InjectiveIds` for all but the first |
| `ThreadServerRuntimeProofs`: `RunsOnOpenRuntime`, `RuntimesAreReclaimed` | `RunOnLiveRuntime`, `RuntimeReclaimed` | `OpenInv`, `TraceInv`, `ReclaimInv` | `InjectiveIds`, no `stop()` |
| `ProcessServerProofs`: `ProcessTypeCorrect`, `WorkersEnd`, `SuccessEarned`, `PermitsKept` | types, `NoStrayProcess`, `ProcessAnswerSound`, `PermitsConserved` | `EarnedInv`, `PermitInv` | `PermitsRecorded` for the last |
| `CoordinatorProofs`: `CoordinatorTypeCorrect`, `FuturesTidy`, `WaitersReachable`, `SuccessEarned`, `AddressesKnown`, `AcksMatch` | types, `NoGhostFuture`, `WaiterReachable`, `SuccessIsEarned`, `AddressesAgree`, `AckMatches` | `Typed`, `Owned`, `Reachable`, `CInv`, `AddressInv`, `AckInv` | `InjectiveIds` for `WaitersReachable` and `SuccessEarned`, `Prompt` for `AcksMatch` |
| `RolloutDispatcherProofs`: `DispatcherTypeCorrect`, `WorkersConserved`, `MessagesConserved`, `AttemptsStayBounded` | types, `WorkerConserved`, `MessageConserved`, `AttemptsBounded` | `DispatcherInv` | `DispatcherAssumption` |
| `TrainingLoopProofs`: `TypeCorrect`, `ResumesAligned`, `CheckpointComplete`, `Overshoot`, `NoStepBack`, `NeverShortOfEpochs` | types, `Aligned`, `TrackedIsComplete`, `OvershootBounded`, `TrackerAdvances`, `EpochsSuffice` | `IInv`, `EInv` | |
| `JobSupportProofs`: `TimerTypeCorrect`, `NoTimeLost`, `WithinBudget`, `LoadEvensOut` | types, `TimeConserved`, `BudgetRespected`, `GapNeverWidens` | `TimerInv` | |

**Thread server.** `TypeOK` alone is not inductive: a worker at a location that uses its object must
have one, so `TypeInv` adds which locals are set where. For `AnswerSound`, `AnswerInv` says that the
table, the queues and the workers connect an id only with the call it belongs to (`Naming`), that a set event
has a cause (`SignalCause`: a timeout mark, results of an exception function, or the evaluation),
and that only a job that ran is in the eval queue or with an eval worker (`RanBeforeEval`). For
`OneWorkerPerJob`, an id is a token: `TokenInv` says it is on one queue, once, or with one worker, or
has not been put yet. `stop()` destroys tokens and never copies one, so the theorem covers restarts.
`StageInv` adds that the stages ahead of the token have left no result, from which `StageOnce`, an
action property, follows. `OpenInv` says that from the end of init to the end of run an unsignalled job's
runtime is open. `TraceInv` covers all jobs, the cancelled ones included: while a job is handed on from init to
run nothing but the runtime of its object is open, so that the end of the run, which closes that one,
leaves none. `ReclaimInv` says of a job that cannot be cancelled that its call waits, unsignalled, as
long as a queue or a worker has it, and that after the signal nothing is open unless its init failed.
The assumptions are needed. With a shared id two workers may drive the same object. `stop()` closes the
runtime of a job that another thread is still handing over, and forgets jobs in the queues.

**Process server.** `NoStrayProcess` is inductive with the types. `EarnedInv` follows a
success from the worker through the result queue and `JobState` to the answer: every copy is of a job
that passed all stages. `PermitInv` says how the table, the location of a worker and its being alive fit
together (`Standing`), that only a worker at its end has reported, and that free permits and holders
add up (`Balanced`); each action moves at most one permit of one job (`BalancedMove`). `PermitsRecorded` says that no
job is cancelled and no worker is killed between taking a permit and recording it, or between
giving it back and erasing the record. Without it the property is false: `cancel_job()` releases a permit
in use (run `process_bound`), and a kill in these moments loses or doubles one.

**Coordinator.** `Owned`: `result_futures` has a request under its own id and only while its
handler runs. `Reachable`: a pending future is in the map or in a listener's hands.
`CInv` adds that a request is sent to a child once (`SentOnce`), and that whatever is on its way, in
the queues, in the hands of a listener or in a future, is how the job ended (`Truthful`). Requests that share
an id overwrite each other's future, hence `InjectiveIds`; the other theorems do without.
`AddressInv`: while the child lives, an address is buffered exactly when it is due there, that is,
when the child will have it after the messages in its queue. `Due` says this without recursion:
the queue adds it and does not clear it again, or the child has it and the queue clears nothing. A child that is
started gets the buffer, and only a dead child's queue is discarded.
`AckInv`: the message of the control handler that waits is the only control message in the queue, or
its acknowledgment is the only one in the control queue; nothing is on its way while nobody waits.
`Prompt` says that no timer fires and no child crashes. Without it the property is false: the
acknowledgment of a handler that gave up is taken by the next one (run `coordinator_stale_ack`).

**Dispatcher.** `WorkerInv` and `MessageInv` say that every worker and every message is in exactly one
place, and there once, in terms of quantifiers; the theorems turn that into the cardinalities the
properties speak of. `CountInv` ties the collector's counter to the answered messages. `AttemptInv`:
an attempt that is still to be sent is later than all that the servers have of its message, so that
attempts at the servers are distinct and bounded by the retry limit. `DispatcherAssumption` is that messages
and workers are distinct.

**Training loop.** Models, data and step are equal only between two steps, and a folder is
complete only after its last write: `IInv` says for each place in `fit()` how far they are apart and
how far the tracker is behind. `EInv` relates the passes a run has begun to the batches drawn; its
arithmetic is the lemma `NextMultiple`.

**Timer and balancer.** `TimerInv` says which phase the timer is in at each location, up to which
instant the phase times reach, and that coroutine time never exceeds counted time, which needs
`worked + (deadline - now) <= Timeout` while a coroutine runs. `LoadEvensOut`: only a least used
address gets a job, so that it can get ahead of another by at most one.

**Model-checked only.**

* All liveness (`EveryCallReturns`, `EveryRequestAnswered`, `CallReturns`, `TrainingEnds`, `RunEnds`): fairness is out
  of the prover's reach.
* `HeapBalancer`, `RolloutBatch`, `TokenRollout`, `AgentContext`, `StuckDetector` and `BashSession`: loops and
  scans over data, which need induction over sequences or recursive operators.
* `RolloutDapo` and `AgentLoop`: state machines whose invariants have not been proved yet.

## 5. What the models showed

The five violated runs are disagreements between the code and its own text; `PROJECT.json`
quotes both. Further definitions state what a comment says and do not hold in the model; they are kept
in their modules and are in no run:

* `AgentLoop.ResetAnswers`: a step that begins while another thread is in `_reset()` issues a command that
  nobody answers. `CommandsAnswered` is stated up to that point.
* `AgentContext.OverflowCuts`, `RecentIsNoOp`: an overflow may cut nothing of a view with several turns,
  because half of the whole history is kept, and the view may lie in that half; the recent-events condenser
  also cuts views within its limit.
* `BashSession.NeverTwo`, `RejectedWhileRunning`: an interrupt that takes effect late lets a command be
  typed into a running process, or a command be rejected after the previous one ended.

Other behaviours met while modelling, which bound what the passing runs claim:

* `async_server.py:258`: `_discarded_jobs` is never consumed, because a worker looks for the job in
  the table first. A reused id is then dropped, and its call waits.
* `swe_agent/utils.py:273`: an init that makes its runtime and then fails or times out leaves it open, since
  the server learns of a runtime only when init returns. The other task handlers do the same
  (`math_utils.py:207`, `code_utils.py:237`, `stem_utils.py:206`, `gui_utils.py:524`). Only `stop()`,
  which kills the Singularity containers it did not find at `start()`, ends it.
* `async_server.py:432`: a job cancelled between the return of its init task and the assignment
  keeps its runtime open. `RuntimeReclaimed` bounds both: nothing is
  open once the run is over, cancelled or not, and a job that cannot be cancelled leaves a runtime only behind
  a failed init.
* `agent_controller.py:1193`: an overflow with nothing to cut forgets the range from 0 to 0, which is the
  event with id 0, the system message, although line 1207 says that it is "always included".
  `_ensure_system_message()` puts one back in front of the prompt, so that `ViewSound` still holds;
  `WindowRespected` names the case.
* `async_server.py:436`: the job is queued inside the phase context. The next stage may find the timer in
  "others" (`timer.py:199` says "this should not happen") and is then timed out.
* `async_server.py:634`: sentinels are cleared before busy workers take them; these workers survive.
* `async_server_process.py:319`: a worker killed before line 325 keeps its permit.
* `async_server_process.py:482`: a worker killed inside this section keeps `job_status_lock`.
  `EveryCallReturns` therefore excepts the cancellation of another job.
* `async_server_process.py:826`: only later calls notice a dead worker.
* `start_server.py:690`: the 504 of a timeout is caught and answered as 500.
* `start_server.py:238`: a job cancelled in the executor's queue sends no result; its request
  waits for its own timer.
* `ray_trainer.py:935`: the tracker is emptied before it is written; a crash in between leaves a
  file that no later run can read. `TrainingEnds` names the case.
* `qwen3.py:125`: with two messages pending (parallel tool calls, an invalid reply) the training
  row has generation prompts that the model was not sent. `TrainedAsSampled` allows exactly these.
* The text path of the conversion (`_convert_results_to_dataproto`) cannot complete: it calls
  `pad_to_max_length_right` without log-probabilities and unpacks fewer values than it returns.
* `stuck.py`, scenario 5 counts an observation that only views hold, so that a loop of context-window
  errors is not detected; neither are alternations of a message and a command. Such runs end at
  `max_iterations`.

## 6. Limits

Most of the repository's lines are vendored OpenHands and verl code outside the rollout path
(integrations, user interfaces, benchmarks, model wrappers); the components with status
`not_modelled` in `PROJECT.json` give the reasons for what is near it. Within the modelled parts these are left out: client-chosen job ids
that collide; `start()` of the process-based server after a `stop()`; CPU assignment; a queue corrupted
by killing its writer; a wall clock that is set back; a coroutine that blocks the event loop beyond its
deadline; delegates, confirmation mode and replay of the agent; the text of prompts; the death of the
shell; sleeping and waking of the inference engine; the arithmetic of advantages and losses; the deletion of old
checkpoints (`max_actor_ckpt_to_keep`, `max_critic_ckpt_to_keep`) and of a checkpoint once it is loaded
(`del_local_ckpt_after_load`), both off by default, which could delete the folder the tracker names; the
`except` clause of the dispatcher's job (`rollout/async_server.py:1615`), which drops a message but is not
reached through `_send_single_message_to_openhands()`.

Next: proofs about `RolloutDapo` (`SettledLeaves`, `RemainingQueued`) and `AgentLoop` (`DeliveredOnce`,
`OneResult`); an abstract job service that both servers and the coordinator implement; client-chosen ids.
