---------------------------- MODULE RolloutDapo ----------------------------
(***************************************************************************)
(* The DAPO variant of the trainer's rollout: request_from_openhands_dapo()*)
(* is called once per training step, draws instances until it has a batch  *)
(* of them whose trajectories disagree in their outcome, cancels the rest, *)
(* and keeps what is left for the next call in job_queue and               *)
(* all_input_batch.                                                        *)
(*                                                                         *)
(* job_queue and results_queue are PriorityQueues of (index, (index,       *)
(* message, ...)).  Entries of equal index but different messages can not  *)
(* be compared: whether heapq compares them depends on the layout of the   *)
(* heap, which is left out, so that an operation on a queue that holds     *)
(* such a pair may or may not raise.                                       *)
(***************************************************************************)
EXTENDS Naturals, Sequences, FiniteSets, Bags

CONSTANTS
  Instances,    \* of the training set
  Trajectories, \* of an instance: 0 .. num_trajectories - 1
  PoolSize,     \* server workers
  Request,      \* train_batch_size
  Draw,         \* instances in a batch of the data loader
  MaxRounds,    \* bound on the calls
  MaxEvents,    \* bound on the batches drawn and the jobs that fail, together
  Nothing       \* the dispatcher holds no job

MaxRetry == 2   \* "Maximum 3 attempts"
n == Cardinality(Trajectories)

(* What the configuration guarantees.                                       *)
DapoAssumption ==
  /\ Trajectories = 0..(n - 1) /\ n > 1
  /\ PoolSize \in Nat \ {0} /\ Request \in Nat \ {0} /\ Draw \in 1..Cardinality(Instances)
  /\ MaxRounds \in Nat /\ MaxEvents \in Nat

VARIABLES
  round, loc,        \* the call, and where it is
  heap, ordered,     \* self.job_queue: a bag of entries; is it still a heap?
  batch,             \* self.all_input_batch
  lastIndex,         \* self.last_data_index
  dataIndex, held,   \* of job_dispatcher(): data_index, the entry it has taken
  idle,              \* size of available_servers_queue
  active,            \* active_job_tasks: a bag of entries being sent
  results,           \* results_queue
  responses,         \* all_responses
  filtered,          \* filtered_instance_ids
  output,            \* the instances of the last batch that was returned
  events             \* batches drawn and jobs that failed

keptVars == <<heap, ordered, batch, lastIndex>>
callVars == <<dataIndex, held, idle, active, results, responses, filtered>>
dapoVars == <<round, loc, keptVars, callVars, output, events>>

Entry(i, m, r) == [index |-> i, message |-> m, retry |-> r]
Message == [instance : Instances, trajectory : Trajectories]
Outcome == {"resolved", "unresolved"}
One(x) == SetToBag({x})
NoResponses == [i \in Instances |-> <<>>]

(* DataProto2Messages(): the trajectories of every instance, in order.      *)
MessageAt(b, i) == [instance |-> b[(i \div n) + 1], trajectory |-> i % n]

(* The entries of a batch, with the indices from first on.                  *)
Entries(b, first) ==
  [e \in {Entry(first + i, MessageAt(b, i), 0) : i \in 0..(n * Len(b) - 1)} |-> 1]

(* A dictionary of trajectories is a function on the ones it has.           *)
Store(resp, m, o) ==
  [resp EXCEPT ![m.instance] = [t \in DOMAIN @ \union {m.trajectory} |->
                                  IF t = m.trajectory THEN o ELSE @[t]]]
Full(resp) == {i \in Instances : Cardinality(DOMAIN resp[i]) = n}
Uniform(resp) == {i \in Full(resp) : \A t, u \in Trajectories : resp[i][t] = resp[i][u]}

DapoTypeOK ==
  /\ round \in 0..MaxRounds /\ loc \in {"idle", "collecting", "cancelling", "failed"}
  /\ IsABag(heap) /\ IsABag(active) /\ IsABag(results)
  /\ \A e \in DOMAIN heap \union DOMAIN active :
       e.index \in Nat /\ e.message \in Message /\ e.retry \in 0..MaxRetry
  /\ batch \in Seq(Instances) /\ output \subseteq Instances
  /\ filtered \subseteq Instances /\ idle \in 0..PoolSize
  /\ \A i \in Instances : DOMAIN responses[i] \subseteq Trajectories

DapoInit ==
  /\ round = 0 /\ loc = "idle"
  /\ heap = EmptyBag /\ ordered = TRUE /\ batch = <<>> /\ lastIndex = 0
  /\ dataIndex = 0 /\ held = Nothing /\ idle = 0 /\ active = EmptyBag /\ results = EmptyBag
  /\ responses = NoResponses /\ filtered = {}
  /\ output = {} /\ events = 0

-----------------------------------------------------------------------------
(* A call starts: everything but the queue and the input batch is new.      *)
StartRound ==
  /\ loc = "idle" /\ round < MaxRounds
  /\ round' = round + 1 /\ loc' = "collecting"
  /\ dataIndex' = lastIndex /\ held' = Nothing /\ idle' = PoolSize
  /\ active' = EmptyBag /\ results' = EmptyBag
  /\ responses' = NoResponses /\ filtered' = {}
  /\ UNCHANGED <<keptVars, output, events>>

(* job_dispatcher() finds a free worker and no job.  The data loader is     *)
(* iterated anew each time, so that a batch may repeat earlier instances.   *)
Refill(b) ==
  /\ loc = "collecting" /\ held = Nothing /\ idle > 0 /\ heap = EmptyBag
  /\ events < MaxEvents /\ events' = events + 1
  /\ heap' = Entries(b, dataIndex) /\ ordered' = TRUE
  /\ dataIndex' = dataIndex + n * Draw
  /\ batch' = batch \o b
  /\ UNCHANGED <<round, loc, lastIndex, held, idle, active, results, responses, filtered,
                 output>>

Clash(q) == \E e, f \in DOMAIN q : e.index = f.index /\ e.message # f.message
First(q, e) == e \in DOMAIN q /\ (ordered => \A f \in DOMAIN q : e.index <= f.index)

(* The dispatcher takes an entry and a worker.                              *)
DispatchGet(e) ==
  /\ loc = "collecting" /\ held = Nothing /\ idle > 0 /\ First(heap, e)
  /\ heap' = heap (-) One(e) /\ idle' = idle - 1 /\ held' = e
  /\ UNCHANGED <<round, loc, ordered, batch, lastIndex, dataIndex, active, results,
                 responses, filtered, output, events>>

(* get() raises in heappop(): the entry is gone, and the worker with it.    *)
DispatchGetRaises(e) ==
  /\ loc = "collecting" /\ held = Nothing /\ idle > 0 /\ First(heap, e) /\ Clash(heap)
  /\ heap' = heap (-) One(e) /\ idle' = idle - 1 /\ ordered' = FALSE
  /\ UNCHANGED <<round, loc, batch, lastIndex, dataIndex, held, active, results,
                 responses, filtered, output, events>>

DispatchTask ==
  /\ loc = "collecting" /\ held # Nothing
  /\ active' = active (+) One(held) /\ held' = Nothing
  /\ UNCHANGED <<round, loc, keptVars, dataIndex, idle, results, responses, filtered,
                 output, events>>

-----------------------------------------------------------------------------
Result(e, o) == [index |-> e.index, message |-> e.message, outcome |-> o]

(* process_job_on_server(): the server answered with messages.              *)
Succeed(e, o) ==
  /\ loc = "collecting" /\ e \in DOMAIN active
  /\ active' = active (-) One(e) /\ idle' = idle + 1
  /\ results' = results (+) One(Result(e, o))
  /\ UNCHANGED <<round, loc, keptVars, dataIndex, held, responses, filtered, output,
                 events>>

(* The send failed or timed out (the server was told to cancel the job):    *)
(* retry, or report None, which counts as unresolved.  A put() that raises  *)
(* leaves the entry in the queue.                                           *)
Fail(e) ==
  /\ loc = "collecting" /\ e \in DOMAIN active
  /\ IF e.retry = 0 THEN events < MaxEvents /\ events' = events + 1 ELSE UNCHANGED events
  /\ active' = active (-) One(e) /\ idle' = idle + 1
  /\ IF e.retry < MaxRetry
     THEN heap' = heap (+) One([e EXCEPT !.retry = @ + 1]) /\ UNCHANGED results
     ELSE results' = results (+) One(Result(e, "unresolved")) /\ UNCHANGED heap
  /\ UNCHANGED <<round, loc, ordered, batch, lastIndex, dataIndex, held, responses,
                 filtered, output>>

-----------------------------------------------------------------------------
(* filter_easy_hard_instance(): all trajectories resolved, or none.         *)
Dropped(resp) == Uniform(resp)

(* The collector takes a result, filters, and stops at a full batch:        *)
(* dispatcher and tasks are cancelled.                                      *)
Collect(r) ==
  /\ loc = "collecting" /\ r \in DOMAIN results
  /\ \A s \in DOMAIN results : r.index <= s.index
  /\ results' = results (-) One(r)
  /\ LET resp == Store(responses, r.message, r.outcome)
         drop == Dropped(resp)
         left == [i \in Instances |-> IF i \in drop THEN <<>> ELSE resp[i]]
         full == Cardinality(Full(left)) >= Request
     IN  /\ responses' = left /\ filtered' = filtered \union drop
         /\ loc' = IF full THEN "cancelling" ELSE loc
         /\ held' = IF full THEN Nothing ELSE held
         /\ active' = IF full THEN EmptyBag ELSE active
  /\ UNCHANGED <<round, keptVars, dataIndex, idle, output, events>>

(* get() of the collector compares two results of one index.                *)
CollectRaises ==
  /\ loc = "collecting"
  /\ \E r \in DOMAIN results :
       results[r] > 1 \/ \E s \in DOMAIN results \ {r} : r.index = s.index
  /\ loc' = "failed"
  /\ UNCHANGED <<round, keptVars, callVars, output, events>>

-----------------------------------------------------------------------------
Drawn == {batch[i] : i \in DOMAIN batch}

(* filter_uncompleted_instances(): what stays in all_input_batch.           *)
Remain == SelectSeq(batch, LAMBDA i : i \notin filtered /\ i \notin Full(responses))

(* Mutant: only the trajectories without a response are queued again.       *)
Push_Missing(b) ==
  [e \in {x \in DOMAIN Entries(b, 0) :
            x.message.trajectory \notin DOMAIN responses[x.message.instance]} |-> 1]

(* push_remaining_train_data_to_job_queue().                                *)
Push(b) == Entries(b, 0)

(* A completed instance without a place in the batch is a KeyError, a       *)
(* filtered one fails the assertion on the instance ids.                    *)
Accounted == Full(responses) \subseteq Drawn /\ filtered \subseteq Drawn

(* The call returns its batch and queues the rest; servers are stopped.     *)
Return ==
  /\ loc = "cancelling" /\ Accounted
  /\ loc' = "idle" /\ output' = Full(responses)
  /\ batch' = Remain /\ heap' = heap (+) Push(Remain) /\ lastIndex' = n * Len(Remain)
  /\ UNCHANGED <<round, ordered, callVars, events>>

(* It raises: on an instance that is not accounted for, or when put()       *)
(* compares a new entry with an old one of the same index.                  *)
Raise ==
  /\ loc = "cancelling"
  /\ ~Accounted \/ Clash(heap (+) Push(Remain))
  /\ loc' = "failed"
  /\ UNCHANGED <<round, keptVars, callVars, output, events>>

DapoNext ==
  \/ StartRound
  \/ \E b \in [1..Draw -> Instances] :
       (\A i, j \in 1..Draw : i # j => b[i] # b[j]) /\ Refill(b)
  \/ \E e \in DOMAIN heap : DispatchGet(e) \/ DispatchGetRaises(e)
  \/ DispatchTask
  \/ \E e \in DOMAIN active : Fail(e) \/ \E o \in Outcome : Succeed(e, o)
  \/ \E r \in DOMAIN results : Collect(r)
  \/ CollectRaises \/ Return \/ Raise

DapoSpec == DapoInit /\ [][DapoNext]_dapoVars

-----------------------------------------------------------------------------
(* Between two calls every instance that stays in all_input_batch has an    *)
(* entry for each of its trajectories in job_queue: cancelled, lost and     *)
(* half-finished work is done again.                                        *)
RemainingQueued ==
  loc = "idle" =>
    \A i \in Drawn, t \in Trajectories :
      \E e \in DOMAIN heap : e.message = [instance |-> i, trajectory |-> t]

(* A returned batch has the requested number of instances, each with all    *)
(* its trajectories and with both outcomes among them, although duplicate   *)
(* entries may overwrite a response that was already counted.               *)
BatchInformative ==
  (loc = "idle" /\ round > 0) =>
    /\ Cardinality(output) = Request
    /\ \A i \in output : /\ DOMAIN responses[i] = Trajectories
                         /\ \E t, u \in Trajectories : responses[i][t] # responses[i][u]

(* An instance that a call returned or filtered is no longer in the input   *)
(* batch when the call ends.                                                *)
SettledLeaves == loc = "idle" => Drawn \intersect (output \union filtered) = {}

(* When a call returns, its batch holds instances with both outcomes only,  *)
(* what it returned or filtered has left the input batch, and all           *)
(* unfinished work is queued for the next call.                             *)
RoundSound == BatchInformative /\ SettledLeaves /\ RemainingQueued

(* A call succeeds: its instances are accounted for, as its assertion "The  *)
(* instance_ids before filtering and the instance_ids in the output batch   *)
(* are not the same" expects.                                               *)
RoundAccounted == loc = "cancelling" => Accounted
=============================================================================
