---------------------- MODULE RolloutDispatcherProofs ----------------------
(***************************************************************************)
(* Proofs about request_from_openhands(), for any number of messages,      *)
(* workers and servers: no worker is leaked, no message is lost or         *)
(* answered twice, and a message has at most three requests going.         *)
(***************************************************************************)
EXTENDS RolloutDispatcher, FiniteSetTheorems, TLAPS

-----------------------------------------------------------------------------
(* Types *)

(* What the constants are, apart from the rest.                             *)
LEMMA Constants ==
  ASSUME DispatcherAssumption
  PROVE  /\ Messages \in Seq(Msgs) /\ Len(Messages) \in Nat
         /\ DOMAIN Messages = 1..Len(Messages)
         /\ \A i \in DOMAIN Messages : Messages[i] \in Msgs
         /\ Workers \in Seq(Pool) /\ \A w \in Pool : ServerOf[w] \in Servers
         /\ NoTask \notin [job : Jobs, worker : Pool]
  BY DEF DispatcherAssumption, Jobs

(* A queue in front of which, or behind which, something happens.           *)
LEMMA JobQueue ==
  ASSUME DispatcherTypeOK
  PROVE  /\ \A j \in Jobs : Append(jobQ, j) \in Seq(Jobs)
         /\ jobQ # <<>> => Head(jobQ) \in Jobs /\ Tail(jobQ) \in Seq(Jobs)
  BY DEF DispatcherTypeOK

LEMMA WorkerQueue ==
  ASSUME DispatcherTypeOK
  PROVE  /\ \A w \in Pool : Append(avail, w) \in Seq(Pool)
         /\ avail # <<>> => Head(avail) \in Pool /\ Tail(avail) \in Seq(Pool)
  BY DEF DispatcherTypeOK

(* What the results queue holds.                                            *)
Reports == [msg : Msgs, result : Results]

LEMMA ResultQueue ==
  ASSUME DispatcherTypeOK
  PROVE  /\ resQ \in Seq(Reports)
         /\ \A r \in Reports : Append(resQ, r) \in Seq(Reports)
         /\ resQ # <<>> => Head(resQ) \in Reports /\ Tail(resQ) \in Seq(Reports)
  <1>1. resQ \in Seq(Reports)
    BY DEF DispatcherTypeOK, Reports
  <1>2. QED  BY <1>1

(* The parts of a task, and the task after a step.                          *)
LEMMA TaskParts ==
  ASSUME NEW t \in Tasks
  PROVE  /\ t.job \in Jobs /\ t.job.msg \in Msgs /\ t.job.retry \in Nat
         /\ t.worker \in Pool /\ t.result \in Results
         /\ t.loc \in {"send", "wait", "answered", "release"}
  BY DEF Tasks, Jobs

Stages == {"send", "wait", "answered", "release"}
Moved(t, l, r) == [t EXCEPT !.loc = l, !.result = r]

LEMMA TaskMoved ==
  ASSUME NEW t \in Tasks, NEW l \in Stages, NEW r \in Results
  PROVE  /\ Moved(t, l, r) \in Tasks
         /\ Moved(t, l, r).job = t.job /\ Moved(t, l, r).worker = t.worker
         /\ Moved(t, l, r).loc = l /\ Moved(t, l, r).result = r
  BY Zenon DEF Tasks, Moved, Stages

LEMMA TypedInit == DispatcherInit => DispatcherTypeOK
  BY DEF DispatcherInit, DispatcherTypeOK

(* The steps of the call itself.                                            *)
LEMMA TypedCall ==
  ASSUME DispatcherAssumption, DispatcherTypeOK,
         Call \/ (\E S \in SUBSET Servers : StartServers(S) \/ StopServers(S))
         \/ DispatchGet \/ DispatchTask \/ Collect \/ Finish
  PROVE  DispatcherTypeOK'
  <1>1. CASE Call
    BY <1>1 DEF Call, DispatcherTypeOK
  <1>2. ASSUME NEW S \in SUBSET Servers, StartServers(S) PROVE DispatcherTypeOK'
    <2>1. jobQ' \in Seq(Jobs)
      <3>1. \A i \in 1..Len(Messages) : [msg |-> Messages[i], retry |-> 0] \in Jobs
        BY Constants DEF Jobs
      <3>2. jobQ' = [i \in 1..Len(Messages) |-> [msg |-> Messages[i], retry |-> 0]]
        BY <1>2, Constants DEF StartServers
      <3>3. QED  BY <3>1, <3>2, Constants
    <2>2. avail' \in Seq(Pool)
      BY <1>2, Constants DEF StartServers
    <2>3. QED  BY <1>2, <2>1, <2>2 DEF StartServers, DispatcherTypeOK
  <1>3. ASSUME NEW S \in SUBSET Servers, StopServers(S) PROVE DispatcherTypeOK'
    BY <1>3 DEF StopServers, DispatcherTypeOK
  <1>4. CASE DispatchGet
    <2>1. jobQ' \in Seq(Jobs) /\ avail' \in Seq(Pool)
      BY Zenon, <1>4, JobQueue, WorkerQueue DEF DispatchGet
    <2>2. got' \in [job : Jobs, worker : Pool]
      BY Zenon, <1>4, JobQueue, WorkerQueue DEF DispatchGet
    <2>3. QED  BY Zenon, <1>4, <2>1, <2>2 DEF DispatchGet, DispatcherTypeOK
  <1>5. CASE DispatchTask
    <2>1. got.job \in Jobs /\ got.worker \in Pool
      BY <1>5 DEF DispatchTask, DispatcherTypeOK
    <2>2. [job |-> got.job, worker |-> got.worker, loc |-> "send", result |-> "none"] \in Tasks
      BY Zenon, <2>1 DEF Tasks, Results
    <2>3. QED  BY <1>5, <2>2 DEF DispatchTask, DispatcherTypeOK
  <1>6. CASE Collect
    <2>1. Head(resQ) \in Reports /\ resQ' \in Seq(Reports)
      BY <1>6, ResultQueue DEF Collect
    <2>2. Head(resQ).msg \in Msgs /\ Head(resQ).result \in Results
      BY <2>1 DEF Reports
    <2>3. responses' \in [Msgs -> Results \union {"missing"}]
      BY <1>6, <2>2 DEF Collect, DispatcherTypeOK
    <2>4. completed' \in 0..Len(Messages)
      BY <1>6, Constants DEF Collect, DispatcherTypeOK
    <2>5. QED  BY Zenon, <1>6, <2>1, <2>3, <2>4 DEF Collect, DispatcherTypeOK, Reports
  <1>7. CASE Finish
    BY <1>7 DEF Finish, DispatcherTypeOK
  <1>8. QED  BY <1>1, <1>2, <1>3, <1>4, <1>5, <1>6, <1>7

(* A step of a task or of a server leaves the job and the worker of every   *)
(* task as they are.                                                        *)
Relabels(f) ==
  /\ f \in [tasks -> Tasks]
  /\ tasks' = {f[t] : t \in tasks}
  /\ \A t \in tasks : f[t].job = t.job /\ f[t].worker = t.worker

(* It may change the stage of one of them.                                  *)
LEMMA MoveRelabels ==
  ASSUME DispatcherTypeOK, NEW t \in tasks, NEW l \in Stages,
         NEW r \in Results, tasks' = Move(t, l, r)
  PROVE  Relabels([s \in tasks |-> IF s = t THEN Moved(t, l, r) ELSE s])
  <1>1. tasks \subseteq Tasks /\ t \in Tasks
    BY DEF DispatcherTypeOK
  <1>2. /\ Moved(t, l, r) \in Tasks
        /\ Moved(t, l, r).job = t.job /\ Moved(t, l, r).worker = t.worker
    BY <1>1, TaskMoved
  <1>3. tasks' = (tasks \ {t}) \union {Moved(t, l, r)}
    BY DEF Move, Moved
  <1> DEFINE f == [s \in tasks |-> IF s = t THEN Moved(t, l, r) ELSE s]
  <1>4. f \in [tasks -> Tasks] /\ \A s \in tasks : f[s].job = s.job /\ f[s].worker = s.worker
    BY <1>1, <1>2
  <1>5. tasks' = {f[s] : s \in tasks}
    BY Zenon, <1>3
  <1>6. QED  BY <1>4, <1>5 DEF Relabels

LEMMA ServerRelabels ==
  ASSUME DispatcherTypeOK, NEW r, NEW res \in Results, ServerEnds(r, res)
  PROVE  Relabels([t \in tasks |-> IF t.loc = "wait" /\ Request(t) = r
                                   THEN Moved(t, "answered", res) ELSE t])
  <1>1. tasks \subseteq Tasks
    BY DEF DispatcherTypeOK
  <1>2. \A t \in tasks : /\ Moved(t, "answered", res) \in Tasks
                         /\ Moved(t, "answered", res).job = t.job
                         /\ Moved(t, "answered", res).worker = t.worker
    BY <1>1, TaskMoved DEF Stages
  <1> DEFINE f == [t \in tasks |-> IF t.loc = "wait" /\ Request(t) = r
                                   THEN Moved(t, "answered", res) ELSE t]
  <1>3. f \in [tasks -> Tasks] /\ \A s \in tasks : f[s].job = s.job /\ f[s].worker = s.worker
    BY Zenon, <1>1, <1>2
  <1>4. tasks' = {f[t] : t \in tasks}
    BY Zenon DEF ServerEnds, Moved
  <1>5. QED  BY Zenon, <1>3, <1>4 DEF Relabels

LEMMA TypedTask ==
  ASSUME DispatcherAssumption, DispatcherTypeOK, (\E t \in tasks : Step(t)) \/ Answer
  PROVE  DispatcherTypeOK'
  <1>1. \A f : Relabels(f) => tasks' \subseteq Tasks
    BY DEF Relabels
  <1>2. ASSUME NEW t \in tasks, Send(t) PROVE DispatcherTypeOK'
    <2>1. Request(t) \in [job : Jobs, server : Servers]
      BY TaskParts, Constants DEF Request, DispatcherTypeOK
    <2>2. serving' \subseteq [job : Jobs, server : Servers]
      BY <1>2, <2>1 DEF Send, DispatcherTypeOK
    <2>3. PICK l \in {"wait", "answered"} : tasks' = Move(t, l, "none")
      BY <1>2 DEF Send
    <2>4. tasks' \subseteq Tasks
      BY Zenon, <1>1, <2>3, MoveRelabels DEF Results, Stages
    <2>5. QED  BY <1>2, <2>2, <2>4 DEF Send, DispatcherTypeOK
  <1>3. ASSUME NEW t \in tasks, ClientTimeout(t) PROVE DispatcherTypeOK'
    <2>1. tasks' \subseteq Tasks
      BY Zenon, <1>1, <1>3, MoveRelabels DEF ClientTimeout, Results, Stages
    <2>2. QED  BY <1>3, <2>1 DEF ClientTimeout, DispatcherTypeOK
  <1>4. ASSUME NEW t \in tasks, Settle(t) PROVE DispatcherTypeOK'
    <2>1. t \in Tasks
      BY DEF DispatcherTypeOK
    <2>2. /\ [t.job EXCEPT !.retry = @ + 1] \in Jobs
          /\ [msg |-> t.job.msg, result |-> t.result] \in Reports
      BY <2>1, TaskParts DEF Jobs, Reports
    <2>3. jobQ' \in Seq(Jobs)
      BY Zenon, <1>4, <2>2, JobQueue DEF Settle, DispatcherTypeOK
    <2>4. resQ' \in Seq(Reports)
      BY Zenon, <1>4, <2>2, ResultQueue DEF Settle
    <2>5. tasks' \subseteq Tasks
      BY Zenon, <1>1, <1>4, <2>1, TaskParts, MoveRelabels DEF Settle, Stages
    <2>6. QED  BY <1>4, <2>3, <2>4, <2>5 DEF Settle, DispatcherTypeOK, Reports
  <1>5. ASSUME NEW t \in tasks, Release(t) PROVE DispatcherTypeOK'
    <2>1. t.worker \in Pool
      BY TaskParts DEF DispatcherTypeOK
    <2>2. avail' \in Seq(Pool) /\ tasks' \subseteq Tasks
      BY <1>5, <2>1, WorkerQueue DEF Release, DispatcherTypeOK
    <2>3. QED  BY <1>5, <2>2 DEF Release, DispatcherTypeOK
  <1>6. ASSUME NEW r \in serving, NEW res \in Results, ServerEnds(r, res) PROVE DispatcherTypeOK'
    <2>1. tasks' \subseteq Tasks
      BY Zenon, <1>1, <1>6, ServerRelabels
    <2>2. QED  BY Zenon, <1>6, <2>1 DEF ServerEnds, DispatcherTypeOK
  <1>7. QED  BY Zenon, <1>2, <1>3, <1>4, <1>5, <1>6 DEF Step, Answer

LEMMA TypedStep ==
  ASSUME DispatcherAssumption, DispatcherTypeOK, [DispatcherNext]_dispatcherVars
  PROVE  DispatcherTypeOK'
  <1>1. CASE UNCHANGED dispatcherVars
    BY <1>1 DEF dispatcherVars, DispatcherTypeOK
  <1>2. CASE DispatcherNext
    BY <1>2, TypedCall, TypedTask DEF DispatcherNext, LoopStep
  <1>3. QED  BY <1>1, <1>2

-----------------------------------------------------------------------------
(* Workers *)

(* Before the queues are filled there is nothing.                           *)
Quiet ==
  phase \in {"idle", "starting"} =>
    /\ tasks = {} /\ got = NoTask /\ serving = {} /\ resQ = <<>> /\ completed = 0
    /\ \A m \in Msgs : responses[m] = "missing"

(* Where a worker is.                                                       *)
Pooled(w) == \E i \in 1..Len(avail) : avail[i] = w
Held(w) == got # NoTask /\ got.worker = w
Bound(w) == \E t \in tasks : t.worker = w

(* It is in one place, once.                                                *)
WorkerInv ==
  phase = "collecting" =>
    /\ \A i, j \in 1..Len(avail) : avail[i] = avail[j] => i = j
    /\ \A s, t \in tasks : s.worker = t.worker => s = t
    /\ \A w \in Pool : /\ Pooled(w) \/ Held(w) \/ Bound(w)
                       /\ ~(Pooled(w) /\ Held(w)) /\ ~(Pooled(w) /\ Bound(w))
                       /\ ~(Held(w) /\ Bound(w))

LEMMA QuietStep == ASSUME DispatcherTypeOK, Quiet, [DispatcherNext]_dispatcherVars PROVE Quiet'
  <1>1. CASE UNCHANGED dispatcherVars
    BY <1>1 DEF dispatcherVars, Quiet
  <1>2. CASE Call
    BY <1>2 DEF Call, Quiet
  <1>3. CASE LoopStep
    <2>1. phase' \in {"idle", "starting"} =>
            phase = "starting" /\ \E t \in tasks : Step(t)
      BY Zenon, <1>3 DEF LoopStep, StartServers, StopServers, DispatchGet, DispatchTask, Collect,
         Finish,
         Step, Send, ClientTimeout, Settle, Release
    <2>2. QED  BY <2>1 DEF Quiet
  <1>4. CASE Answer
    <2>1. phase' = phase /\ serving # {}
      BY Zenon, <1>4 DEF Answer, ServerEnds
    <2>2. QED  BY Zenon, <2>1 DEF Quiet
  <1>5. QED  BY <1>1, <1>2, <1>3, <1>4 DEF DispatcherNext

(* The steps that only relabel tasks.                                       *)
LEMMA TaskFrame ==
  ASSUME DispatcherTypeOK, (\E t \in tasks : Send(t) \/ ClientTimeout(t) \/ Settle(t)) \/ Answer
  PROVE  (\E f : Relabels(f)) /\ UNCHANGED <<phase, avail, got>>
  <1>1. ASSUME NEW t \in tasks, Send(t) \/ ClientTimeout(t) \/ Settle(t) PROVE \E f : Relabels(f)
    <2>1. t.result \in Results /\ "none" \in Results
      BY TaskParts DEF DispatcherTypeOK, Results
    <2>2. \E l \in Stages, r \in Results : tasks' = Move(t, l, r)
      BY <1>1, <2>1 DEF Send, ClientTimeout, Settle, Stages
    <2>3. QED  BY Zenon, <2>2, MoveRelabels
  <1>2. ASSUME Answer PROVE \E f : Relabels(f)
    BY Zenon, <1>2, ServerRelabels DEF Answer
  <1>3. UNCHANGED <<phase, avail, got>>
    BY Zenon DEF Send, ClientTimeout, Settle, Answer, ServerEnds
  <1>4. QED  BY <1>1, <1>2, <1>3

LEMMA WorkersFilled ==
  ASSUME DispatcherAssumption, Quiet, NEW S, StartServers(S) PROVE WorkerInv'
  <1>1. avail' = Workers /\ got' = NoTask /\ tasks' = {}
    BY DEF StartServers, Quiet
  <1>2. /\ Workers \in Seq(Pool) /\ DOMAIN Workers = 1..Len(Workers)
        /\ \A i, j \in DOMAIN Workers : Workers[i] = Workers[j] => i = j
        /\ \A w \in Pool : \E i \in DOMAIN Workers : Workers[i] = w
    BY DEF DispatcherAssumption, IsInjective, Pool, Range
  <1>3. QED  BY <1>1, <1>2 DEF WorkerInv, Pooled, Held, Bound

LEMMA WorkersStep ==
  ASSUME DispatcherAssumption, DispatcherTypeOK, Quiet, WorkerInv, [DispatcherNext]_dispatcherVars
  PROVE  WorkerInv'
  <1> SUFFICES ASSUME phase = "collecting", phase' = "collecting" PROVE WorkerInv'
    <2>1. phase' = "collecting" => phase = "collecting" \/ \E S : StartServers(S)
      BY Zenon DEF DispatcherNext, dispatcherVars, Call, LoopStep, StartServers, StopServers, DispatchGet,
         DispatchTask, Step,
         Send, ClientTimeout, Settle, Release, Collect, Finish, Answer, ServerEnds
    <2>2. QED  BY Zenon, <2>1, WorkersFilled DEF WorkerInv
  <1>1. avail \in Seq(Pool)
    BY DEF DispatcherTypeOK
  <1>2. CASE DispatchGet
    <2>1. /\ got = NoTask /\ avail # <<>> /\ UNCHANGED tasks /\ avail' = Tail(avail)
          /\ got' = [job |-> Head(jobQ), worker |-> Head(avail)] /\ jobQ # <<>>
      BY <1>2 DEF DispatchGet
    <2>2. got' # NoTask /\ got'.worker = Head(avail)
      BY <2>1, JobQueue, WorkerQueue, Constants
    <2>3. /\ Head(avail) = avail[1] /\ 1 \in 1..Len(avail)
          /\ \A i \in 1..Len(avail') : /\ i + 1 \in 1..Len(avail) /\ i + 1 # 1
                                       /\ avail'[i] = avail[i + 1]
          /\ \A i \in 1..Len(avail) : i # 1 => /\ i - 1 \in 1..Len(avail')
                                               /\ avail'[i - 1] = avail[i]
      BY <1>1, <2>1
    <2>4. \A i, j \in 1..Len(avail') : avail'[i] = avail'[j] => i = j
      <3>1. ASSUME NEW i \in 1..Len(avail'), NEW j \in 1..Len(avail'), avail'[i] = avail'[j]
            PROVE  i = j
        <4>1. i + 1 = j + 1
          BY <2>3, <3>1 DEF WorkerInv
        <4>2. QED  BY <4>1
      <3>2. QED  BY Zenon, <3>1
    <2>5. \A w \in Pool : /\ Pooled(w)' <=> Pooled(w) /\ w # Head(avail)
                          /\ Held(w)' <=> w = Head(avail)
                          /\ Bound(w)' <=> Bound(w)
      BY <2>1, <2>2, <2>3 DEF Pooled, Held, Bound, WorkerInv
    <2>6. Pooled(Head(avail)) /\ \A w : ~Held(w)
      BY Zenon, <2>1, <2>3 DEF Pooled, Held
    <2>7. \A w \in Pool : /\ (Pooled(w) \/ Held(w) \/ Bound(w))'
                          /\ ~(Pooled(w) /\ Held(w))' /\ ~(Pooled(w) /\ Bound(w))'
                          /\ ~(Held(w) /\ Bound(w))'
      BY Zenon, <2>5, <2>6 DEF WorkerInv
    <2>8. QED  BY Zenon, <2>1, <2>4, <2>7 DEF WorkerInv
  <1>3. CASE DispatchTask
    <2> DEFINE n == [job |-> got.job, worker |-> got.worker, loc |-> "send", result |-> "none"]
    <2>1. got # NoTask /\ tasks' = tasks \union {n} /\ got' = NoTask /\ UNCHANGED avail
      BY Zenon, <1>3 DEF DispatchTask
    <2>2. n.worker = got.worker /\ got.worker \in Pool
      BY Zenon, <2>1 DEF DispatcherTypeOK
    <2> HIDE DEF n
    <2>3. Held(got.worker) /\ \A t \in tasks : t.worker # got.worker
      BY Zenon, <2>1, <2>2 DEF WorkerInv, Held, Bound
    <2>4. \A s, t \in tasks' : s.worker = t.worker => s = t
      BY Zenon, <2>1, <2>2, <2>3 DEF WorkerInv
    <2>5. \A w \in Pool : /\ Pooled(w)' <=> Pooled(w)
                          /\ ~Held(w)'
                          /\ Bound(w)' <=> Bound(w) \/ Held(w)
      BY Zenon, <2>1, <2>2 DEF Pooled, Held, Bound
    <2>6. QED  BY Zenon, <2>1, <2>4, <2>5 DEF WorkerInv
  <1>4. ASSUME NEW t \in tasks, Release(t) PROVE WorkerInv'
    <2>1. tasks' = tasks \ {t} /\ avail' = Append(avail, t.worker) /\ UNCHANGED got
      BY Zenon, <1>4 DEF Release
    <2>2. t.worker \in Pool
      BY Zenon, TaskParts DEF DispatcherTypeOK
    <2>3. ~Pooled(t.worker) /\ ~Held(t.worker) /\ Bound(t.worker)
      BY Zenon, <2>2 DEF WorkerInv, Bound
    <2>4. /\ \A i \in 1..Len(avail) : i \in 1..Len(avail') /\ avail'[i] = avail[i]
          /\ Len(avail) + 1 \in 1..Len(avail') /\ avail'[Len(avail) + 1] = t.worker
          /\ \A i \in 1..Len(avail') : i \in 1..Len(avail) \/ i = Len(avail) + 1
      BY <1>1, <2>1, <2>2
    <2>5. \A i, j \in 1..Len(avail') : avail'[i] = avail'[j] => i = j
      BY <2>3, <2>4 DEF WorkerInv, Pooled
    <2>6. \A w \in Pool : /\ Pooled(w)' <=> Pooled(w) \/ w = t.worker
                          /\ Held(w)' <=> Held(w)
                          /\ Bound(w)' <=> Bound(w) /\ w # t.worker
      BY <2>1, <2>4 DEF Pooled, Held, Bound, WorkerInv
    <2>7. \A r, u \in tasks' : r.worker = u.worker => r = u
      BY Zenon, <2>1 DEF WorkerInv
    <2>8. QED  BY Zenon, <2>3, <2>5, <2>6, <2>7 DEF WorkerInv
  <1>5. CASE (\E t \in tasks : Send(t) \/ ClientTimeout(t) \/ Settle(t)) \/ Answer
    <2>1. PICK f : Relabels(f)
      BY Zenon, <1>5, TaskFrame
    <2>2. UNCHANGED <<avail, got>>
      BY Zenon, <1>5, TaskFrame
    <2>3. \A s, t \in tasks' : s.worker = t.worker => s = t
      BY <2>1 DEF Relabels, WorkerInv
    <2>4. \A w \in Pool : /\ Pooled(w)' <=> Pooled(w)
                          /\ Held(w)' <=> Held(w)
                          /\ Bound(w)' <=> Bound(w)
      BY <2>1, <2>2 DEF Relabels, Pooled, Held, Bound
    <2>5. QED  BY Zenon, <2>2, <2>3, <2>4 DEF WorkerInv
  <1>6. CASE Collect \/ UNCHANGED dispatcherVars
    <2>1. UNCHANGED <<avail, got, tasks>>
      BY Zenon, <1>6 DEF Collect, dispatcherVars
    <2>2. QED  BY Zenon, <2>1 DEF WorkerInv, Pooled, Held, Bound
  <1>7. QED
    BY Zenon, <1>2, <1>3, <1>4, <1>5, <1>6 DEF DispatcherNext, Call, LoopStep, StartServers, StopServers,
       Step, Finish

-----------------------------------------------------------------------------
(* Messages *)

(* Where a message is.                                                      *)
Queued(m) == \E i \in 1..Len(jobQ) : jobQ[i].msg = m
Taken(m) == got # NoTask /\ got.job.msg = m
Running(m) == \E t \in tasks : t.job.msg = m /\ Unsettled(t)
Reported(m) == \E i \in 1..Len(resQ) : resQ[i].msg = m
Answered(m) == responses[m] # "missing"

Active == phase \in {"collecting", "stopping"}

(* It is in one place ...                                                   *)
OnePlace(m) ==
  /\ Queued(m) \/ Taken(m) \/ Running(m) \/ Reported(m) \/ Answered(m)
  /\ Queued(m) => ~Taken(m) /\ ~Running(m) /\ ~Reported(m) /\ ~Answered(m)
  /\ Taken(m) => ~Running(m) /\ ~Reported(m) /\ ~Answered(m)
  /\ Running(m) => ~Reported(m) /\ ~Answered(m)
  /\ Reported(m) => ~Answered(m)

(* ... and there once.                                                      *)
QueuedOnce == \A i, j \in 1..Len(jobQ) : jobQ[i].msg = jobQ[j].msg => i = j
ReportedOnce == \A i, j \in 1..Len(resQ) : resQ[i].msg = resQ[j].msg => i = j
RunningOnce ==
  \A s, t \in tasks : Unsettled(s) /\ Unsettled(t) /\ s.job.msg = t.job.msg => s = t

MessageInv ==
  Active => QueuedOnce /\ ReportedOnce /\ RunningOnce /\ \A m \in Msgs : OnePlace(m)

(* The collector counts the answered messages.                              *)
AnsweredSet == {m \in Msgs : Answered(m)}
CountInv == IsFiniteSet(AnsweredSet) /\ Cardinality(AnsweredSet) = completed

LEMMA IntervalCount ==
  ASSUME NEW n \in Nat PROVE IsFiniteSet(1..n) /\ Cardinality(1..n) = n
  <1>1. 1 \in Int /\ n \in Int
    OBVIOUS
  <1>2. IsFiniteSet(1..n) /\ Cardinality(1..n) = IF 1 > n THEN 0 ELSE n - 1 + 1
    BY Zenon, <1>1, FS_Interval
  <1>3. QED  BY <1>2

LEMMA MessageCount ==
  ASSUME DispatcherAssumption PROVE IsFiniteSet(Msgs) /\ Cardinality(Msgs) = Len(Messages)
  <1>1. Len(Messages) \in Nat /\ DOMAIN Messages = 1..Len(Messages)
    BY Zenon, Constants
  <1>2. IsFiniteSet(1..Len(Messages)) /\ Cardinality(1..Len(Messages)) = Len(Messages)
    BY Zenon, <1>1, IntervalCount
  <1>3. Messages \in Surjection(1..Len(Messages), Msgs)
    BY <1>1, Constants DEF Surjection, Msgs, Range
  <1>4. Messages \in Injection(1..Len(Messages), Msgs)
    BY <1>1, Constants DEF Injection, IsInjective, DispatcherAssumption
  <1>5. QED  BY Zenon, <1>2, <1>3, <1>4, FS_Surjection

LEMMA MessagesFilled ==
  ASSUME DispatcherAssumption, Quiet, phase = "starting", NEW S, StartServers(S)
  PROVE  MessageInv'
  <1>1. /\ jobQ' = [i \in DOMAIN Messages |-> [msg |-> Messages[i], retry |-> 0]]
        /\ got' = NoTask /\ tasks' = {} /\ resQ' = <<>> /\ UNCHANGED responses
        /\ \A m \in Msgs : responses[m] = "missing"
    BY Zenon DEF StartServers, Quiet
  <1>2. /\ Len(Messages) \in Nat /\ DOMAIN Messages = 1..Len(Messages)
        /\ \A i, j \in DOMAIN Messages : Messages[i] = Messages[j] => i = j
        /\ \A m \in Msgs : \E i \in DOMAIN Messages : Messages[i] = m
    BY Zenon, Constants DEF DispatcherAssumption, IsInjective, Msgs, Range
  <1>3. Len(jobQ') = Len(Messages) /\ \A i \in 1..Len(jobQ') : jobQ'[i].msg = Messages[i]
    BY <1>1, <1>2
  <1>4. QueuedOnce' /\ \A m \in Msgs : Queued(m)'
    BY <1>2, <1>3 DEF QueuedOnce, Queued
  <1>5. ReportedOnce' /\ RunningOnce'
    BY <1>1 DEF ReportedOnce, RunningOnce
  <1>6. \A m \in Msgs : ~Taken(m)' /\ ~Running(m)' /\ ~Reported(m)' /\ ~Answered(m)'
    BY <1>1 DEF Taken, Running, Reported, Answered
  <1>7. QED  BY Zenon, <1>4, <1>5, <1>6 DEF MessageInv, OnePlace

(* The head of the job queue leaves it.                                     *)
LEMMA MessagesTaken ==
  ASSUME DispatcherAssumption, DispatcherTypeOK, MessageInv, DispatchGet PROVE MessageInv'
  <1>1. /\ Active /\ got = NoTask /\ jobQ # <<>> /\ avail # <<>> /\ jobQ' = Tail(jobQ)
        /\ got' = [job |-> Head(jobQ), worker |-> Head(avail)]
        /\ UNCHANGED <<phase, tasks, resQ, responses>>
    BY Zenon DEF DispatchGet, Active
  <1>2. got' # NoTask /\ got'.job = Head(jobQ)
    BY <1>1, JobQueue, WorkerQueue, Constants
  <1>3. jobQ \in Seq(Jobs)
    BY Zenon DEF DispatcherTypeOK
  <1>4. /\ Head(jobQ) = jobQ[1] /\ 1 \in 1..Len(jobQ)
        /\ \A i \in 1..Len(jobQ') : i + 1 \in 1..Len(jobQ) /\ i + 1 # 1 /\ jobQ'[i] = jobQ[i + 1]
        /\ \A i \in 1..Len(jobQ) : i # 1 => i - 1 \in 1..Len(jobQ') /\ jobQ'[i - 1] = jobQ[i]
    BY <1>1, <1>3
  <1>5. QueuedOnce'
    <2>1. ASSUME NEW i \in 1..Len(jobQ'), NEW j \in 1..Len(jobQ'), jobQ'[i].msg = jobQ'[j].msg
          PROVE  i = j
      <3>1. i + 1 = j + 1
        BY <1>1, <1>4, <2>1 DEF MessageInv, QueuedOnce
      <3>2. QED  BY <3>1
    <2>2. QED  BY Zenon, <2>1 DEF QueuedOnce
  <1>6. \A m \in Msgs : /\ Queued(m)' <=> Queued(m) /\ m # Head(jobQ).msg
                        /\ Taken(m)' <=> m = Head(jobQ).msg
    <2>1. \A m \in Msgs : Taken(m)' <=> m = Head(jobQ).msg
      BY Zenon, <1>1, <1>2 DEF Taken
    <2>2. \A m \in Msgs : Queued(m)' <=> Queued(m) /\ m # Head(jobQ).msg
      BY <1>1, <1>4 DEF Queued, MessageInv, QueuedOnce
    <2>3. QED  BY Zenon, <2>1, <2>2
  <1>7. Queued(Head(jobQ).msg) /\ \A m : ~Taken(m)
    BY Zenon, <1>1, <1>4 DEF Queued, Taken
  <1>8. \A m \in Msgs : /\ Running(m)' <=> Running(m)
                        /\ Reported(m)' <=> Reported(m)
                        /\ Answered(m)' <=> Answered(m)
    BY Zenon, <1>1 DEF Running, Reported, Answered
  <1>9. ReportedOnce' /\ RunningOnce'
    BY Zenon, <1>1 DEF MessageInv, ReportedOnce, RunningOnce
  <1>10. \A m \in Msgs : OnePlace(m)'
    BY Zenon, <1>1, <1>6, <1>7, <1>8 DEF MessageInv, OnePlace
  <1>11. QED  BY Zenon, <1>5, <1>9, <1>10 DEF MessageInv

LEMMA MessagesBound ==
  ASSUME DispatcherAssumption, DispatcherTypeOK, MessageInv, DispatchTask PROVE MessageInv'
  <1> DEFINE n == [job |-> got.job, worker |-> got.worker, loc |-> "send", result |-> "none"]
  <1>1. /\ Active /\ got # NoTask /\ tasks' = tasks \union {n} /\ got' = NoTask
        /\ UNCHANGED <<phase, jobQ, resQ, responses>>
    BY Zenon DEF DispatchTask, Active
  <1>2. n.job = got.job /\ Unsettled(n) /\ got.job.msg \in Msgs
    BY Zenon, <1>1 DEF Unsettled, DispatcherTypeOK, Jobs
  <1> HIDE DEF n
  <1>3. Taken(got.job.msg) /\ \A t \in tasks : t.job.msg = got.job.msg => ~Unsettled(t)
    BY Zenon, <1>1, <1>2 DEF MessageInv, OnePlace, Taken, Running
  <1>4. RunningOnce'
    BY <1>1, <1>2, <1>3 DEF MessageInv, RunningOnce, Unsettled
  <1>5. \A m \in Msgs : ~Taken(m)' /\ (Running(m)' <=> Running(m) \/ Taken(m))
    BY Zenon, <1>1, <1>2 DEF Taken, Running, Unsettled
  <1>6. \A m \in Msgs : /\ Queued(m)' <=> Queued(m)
                        /\ Reported(m)' <=> Reported(m)
                        /\ Answered(m)' <=> Answered(m)
    BY Zenon, <1>1 DEF Queued, Reported, Answered
  <1>7. QueuedOnce' /\ ReportedOnce'
    BY Zenon, <1>1 DEF MessageInv, QueuedOnce, ReportedOnce
  <1>8. \A m \in Msgs : OnePlace(m)'
    BY Zenon, <1>1, <1>5, <1>6 DEF MessageInv, OnePlace
  <1>9. QED  BY Zenon, <1>4, <1>7, <1>8 DEF MessageInv

(* A step that moves a task on, short of settling it.                       *)
LEMMA MessagesMoved ==
  ASSUME DispatcherTypeOK, MessageInv, NEW f, Relabels(f), \A t \in tasks : Unsettled(f[t]) <=> Unsettled(t),
         UNCHANGED <<phase, jobQ, got, resQ, responses>>
  PROVE  MessageInv'
  <1>1. Active => RunningOnce'
    BY DEF MessageInv, RunningOnce, Relabels, Unsettled
  <1>2. \A m \in Msgs : Running(m)' <=> Running(m)
    BY DEF Running, Relabels, Unsettled
  <1>3. \A m \in Msgs : /\ Queued(m)' <=> Queued(m)
                        /\ Taken(m)' <=> Taken(m)
                        /\ Reported(m)' <=> Reported(m)
                        /\ Answered(m)' <=> Answered(m)
    BY Zenon DEF Queued, Taken, Reported, Answered
  <1>4. Active' <=> Active
    BY Zenon DEF Active
  <1>5. Active => QueuedOnce' /\ ReportedOnce'
    BY Zenon DEF MessageInv, QueuedOnce, ReportedOnce
  <1>6. Active => \A m \in Msgs : OnePlace(m)'
    BY Zenon, <1>2, <1>3 DEF MessageInv, OnePlace
  <1>7. QED  BY Zenon, <1>1, <1>4, <1>5, <1>6 DEF MessageInv

(* A settled task no longer holds its message.                              *)
LEMMA TaskSettled ==
  ASSUME DispatcherTypeOK, Active, MessageInv, NEW t \in tasks, Settle(t)
  PROVE  /\ Unsettled(t) /\ t.job.msg \in Msgs /\ RunningOnce'
         /\ \A m \in Msgs : Running(m)' <=> Running(m) /\ m # t.job.msg
  <1>1. t \in Tasks /\ tasks \subseteq Tasks /\ t.result \in Results /\ t.job.msg \in Msgs
    BY Zenon, TaskParts DEF DispatcherTypeOK
  <1> DEFINE n == Moved(t, "release", t.result)
  <1>2. n.job = t.job /\ n.loc = "release" /\ Unsettled(t)
    BY Zenon, <1>1 DEF Tasks, Moved, Settle, Unsettled
  <1>3. tasks' = (tasks \ {t}) \union {n}
    BY Zenon DEF Settle, Move, Moved
  <1> HIDE DEF n
  <1>4. \A s \in tasks' : Unsettled(s) => s \in tasks /\ s # t
    BY Zenon, <1>2, <1>3 DEF Unsettled
  <1>5. \A s \in tasks : s # t => s \in tasks'
    BY Zenon, <1>3
  <1>6. RunningOnce'
    BY Zenon, <1>4 DEF MessageInv, RunningOnce, Unsettled
  <1>7. \A m \in Msgs : Running(m)' <=> Running(m) /\ m # t.job.msg
    BY Zenon, <1>2, <1>4, <1>5 DEF MessageInv, RunningOnce, Running, Unsettled
  <1>8. QED  BY Zenon, <1>1, <1>2, <1>6, <1>7

LEMMA MessagesSettled ==
  ASSUME DispatcherTypeOK, Active, MessageInv, NEW t \in tasks, Settle(t) PROVE MessageInv'
  <1> DEFINE m0 == t.job.msg
  <1>1. /\ Unsettled(t) /\ m0 \in Msgs /\ RunningOnce'
        /\ \A m \in Msgs : Running(m)' <=> Running(m) /\ m # m0
    BY Zenon, TaskSettled
  <1>2. Running(m0) /\ ~Queued(m0) /\ ~Taken(m0) /\ ~Reported(m0) /\ ~Answered(m0)
    BY Zenon, <1>1 DEF MessageInv, OnePlace, Running
  <1>3. \A m \in Msgs : (Taken(m)' <=> Taken(m)) /\ (Answered(m)' <=> Answered(m))
    BY Zenon DEF Settle, Taken, Answered
  <1>4. Active' /\ t.job \in Jobs /\ t.result \in Results
    BY Zenon, TaskParts DEF Settle, DispatcherTypeOK, Active
  <1>5. CASE t.result = "none" /\ t.job.retry < MaxRetry
    <2> DEFINE n == [t.job EXCEPT !.retry = @ + 1]
    <2>1. jobQ' = Append(jobQ, n) /\ UNCHANGED resQ
      BY Zenon, <1>5 DEF Settle
    <2>2. n \in Jobs /\ n.msg = m0 /\ jobQ \in Seq(Jobs)
      <3>1. jobQ \in Seq(Jobs)
        BY Zenon DEF DispatcherTypeOK
      <3>2. n.msg = m0
        BY Zenon, <1>4 DEF Jobs
      <3>3. n \in Jobs
        BY <1>4, <1>5 DEF Jobs
      <3>4. QED  BY Zenon, <3>1, <3>2, <3>3
    <2> HIDE DEF n
    <2>3. /\ \A i \in 1..Len(jobQ) : i \in 1..Len(jobQ') /\ jobQ'[i] = jobQ[i]
          /\ Len(jobQ) + 1 \in 1..Len(jobQ') /\ jobQ'[Len(jobQ) + 1] = n
          /\ \A i \in 1..Len(jobQ') : i \in 1..Len(jobQ) \/ i = Len(jobQ) + 1
      BY <2>1, <2>2
    <2>4. QueuedOnce' /\ ReportedOnce'
      BY <1>2, <2>1, <2>2, <2>3 DEF MessageInv, QueuedOnce, ReportedOnce, Queued
    <2>5. \A m \in Msgs : /\ Queued(m)' <=> Queued(m) \/ m = m0
                          /\ Reported(m)' <=> Reported(m)
      BY Zenon, <2>1, <2>2, <2>3 DEF Queued, Reported
    <2>6. \A m \in Msgs : OnePlace(m)'
      BY Zenon, <1>1, <1>2, <1>3, <2>5 DEF MessageInv, OnePlace
    <2>7. QED  BY Zenon, <1>1, <1>4, <2>4, <2>6 DEF MessageInv
  <1>6. CASE ~(t.result = "none" /\ t.job.retry < MaxRetry)
    <2> DEFINE n == [msg |-> t.job.msg, result |-> t.result]
    <2>1. resQ' = Append(resQ, n) /\ UNCHANGED jobQ
      BY Zenon, <1>6 DEF Settle
    <2>2. n \in Reports /\ n.msg = m0 /\ resQ \in Seq(Reports)
      BY Zenon, <1>1, <1>4, ResultQueue DEF Reports
    <2> HIDE DEF n
    <2>3. /\ \A i \in 1..Len(resQ) : i \in 1..Len(resQ') /\ resQ'[i] = resQ[i]
          /\ Len(resQ) + 1 \in 1..Len(resQ') /\ resQ'[Len(resQ) + 1] = n
          /\ \A i \in 1..Len(resQ') : i \in 1..Len(resQ) \/ i = Len(resQ) + 1
      BY <2>1, <2>2
    <2>4. QueuedOnce' /\ ReportedOnce'
      BY <1>2, <2>1, <2>2, <2>3 DEF MessageInv, QueuedOnce, ReportedOnce, Reported
    <2>5. \A m \in Msgs : /\ Reported(m)' <=> Reported(m) \/ m = m0
                          /\ Queued(m)' <=> Queued(m)
      BY Zenon, <2>1, <2>2, <2>3 DEF Queued, Reported
    <2>6. \A m \in Msgs : OnePlace(m)'
      BY Zenon, <1>1, <1>2, <1>3, <2>5 DEF MessageInv, OnePlace
    <2>7. QED  BY <1>1, <1>4, <2>4, <2>6 DEF MessageInv
  <1>7. QED  BY Zenon, <1>5, <1>6

LEMMA MessagesReleased ==
  ASSUME MessageInv, NEW t \in tasks, Release(t) PROVE MessageInv'
  <1>1. ~Unsettled(t) /\ tasks' = tasks \ {t} /\ UNCHANGED <<phase, jobQ, got, resQ, responses>>
    BY Zenon DEF Release, Unsettled
  <1>2. \A s : s \in tasks' /\ Unsettled(s) <=> s \in tasks /\ Unsettled(s)
    BY Zenon, <1>1
  <1>3. \A m \in Msgs : /\ Queued(m)' <=> Queued(m)
                        /\ Taken(m)' <=> Taken(m)
                        /\ Running(m)' <=> Running(m)
                        /\ Reported(m)' <=> Reported(m)
                        /\ Answered(m)' <=> Answered(m)
    BY Zenon, <1>1, <1>2 DEF Queued, Taken, Running, Reported, Answered, Unsettled
  <1>4. Active => QueuedOnce' /\ ReportedOnce' /\ RunningOnce'
    BY Zenon, <1>1, <1>2 DEF MessageInv, QueuedOnce, ReportedOnce, RunningOnce, Unsettled
  <1>5. QED  BY Zenon, <1>1, <1>3, <1>4 DEF MessageInv, OnePlace, Active

(* The collector answers the message of the first report.                   *)
LEMMA MessagesCollected ==
  ASSUME DispatcherAssumption, DispatcherTypeOK, MessageInv, CountInv, Collect
  PROVE  MessageInv' /\ CountInv'
  <1> DEFINE m0 == Head(resQ).msg
  <1>1. /\ Active /\ resQ # <<>> /\ resQ' = Tail(resQ) /\ completed' = completed + 1
        /\ responses' = [responses EXCEPT ![m0] = Head(resQ).result]
        /\ UNCHANGED <<phase, jobQ, got, tasks>>
    BY Zenon DEF Collect, Active
  <1>2. resQ \in Seq(Reports) /\ m0 \in Msgs /\ Head(resQ).result \in Results
    BY Zenon, <1>1, ResultQueue DEF Reports
  <1>3. \A m \in Msgs : Answered(m)' <=> Answered(m) \/ m = m0
    BY Zenon, <1>1, <1>2 DEF Answered, DispatcherTypeOK, Results
  <1>4. /\ Head(resQ) = resQ[1] /\ 1 \in 1..Len(resQ)
        /\ \A i \in 1..Len(resQ') : i + 1 \in 1..Len(resQ) /\ i + 1 # 1 /\ resQ'[i] = resQ[i + 1]
        /\ \A i \in 1..Len(resQ) : i # 1 => i - 1 \in 1..Len(resQ') /\ resQ'[i - 1] = resQ[i]
    BY <1>1, <1>2
  <1>0. resQ[1].msg = m0
    BY Zenon, <1>4
  <1> HIDE DEF m0
  <1>5. ReportedOnce'
    <2>1. ASSUME NEW i \in 1..Len(resQ'), NEW j \in 1..Len(resQ'), resQ'[i].msg = resQ'[j].msg
          PROVE  i = j
      <3>1. i + 1 = j + 1
        BY <1>1, <1>4, <2>1 DEF MessageInv, ReportedOnce
      <3>2. QED  BY <3>1
    <2>2. QED  BY Zenon, <2>1 DEF ReportedOnce
  <1>6. Reported(m0) /\ \A m \in Msgs : Reported(m)' <=> Reported(m) /\ m # m0
    <2>1. \A i \in 1..Len(resQ) : resQ[i].msg = m0 <=> i = 1
      BY Zenon, <1>0, <1>1, <1>4 DEF MessageInv, ReportedOnce
    <2>2. Reported(m0)
      BY Zenon, <1>0, <1>4 DEF Reported
    <2>3. ASSUME NEW m \in Msgs, Reported(m)' PROVE Reported(m) /\ m # m0
      <3>1. PICK i \in 1..Len(resQ') : resQ'[i].msg = m
        BY Zenon, <2>3 DEF Reported
      <3>2. i + 1 \in 1..Len(resQ) /\ i + 1 # 1 /\ resQ[i + 1].msg = m
        BY Zenon, <1>4, <3>1
      <3>3. QED  BY Zenon, <2>1, <3>2 DEF Reported
    <2>4. ASSUME NEW m \in Msgs, Reported(m), m # m0 PROVE Reported(m)'
      BY ZenonT(30), <1>0, <1>4, <2>4 DEF Reported
    <2>5. QED  BY Zenon, <2>2, <2>3, <2>4
  <1>7. \A m \in Msgs : /\ Queued(m)' <=> Queued(m)
                        /\ Taken(m)' <=> Taken(m)
                        /\ Running(m)' <=> Running(m)
    BY Zenon, <1>1 DEF Queued, Taken, Running
  <1>8. QueuedOnce' /\ RunningOnce'
    BY Zenon, <1>1 DEF MessageInv, QueuedOnce, RunningOnce
  <1>9. \A m \in Msgs : OnePlace(m)'
    BY Zenon, <1>1, <1>2, <1>3, <1>6, <1>7 DEF MessageInv, OnePlace
  <1>10. AnsweredSet' = AnsweredSet \union {m0} /\ m0 \notin AnsweredSet
    BY Zenon, <1>1, <1>2, <1>3, <1>6 DEF AnsweredSet, MessageInv, OnePlace
  <1>11. CountInv'
    BY Zenon, <1>1, <1>10, FS_AddElement DEF CountInv
  <1>12. QED  BY Zenon, <1>5, <1>8, <1>9, <1>11 DEF MessageInv

(* When as many messages are answered as there are, all are, and the        *)
(* dispatcher that is cancelled holds none.                                 *)
LEMMA MessagesFinished ==
  ASSUME DispatcherAssumption, DispatcherTypeOK, MessageInv, CountInv, Finish PROVE MessageInv'
  <1>1. /\ Active /\ got' = NoTask /\ completed = Len(Messages)
        /\ UNCHANGED <<jobQ, tasks, resQ, responses>>
    BY Zenon DEF Finish, Active
  <1>2. AnsweredSet \in SUBSET Msgs
    BY Zenon DEF AnsweredSet
  <1>3. AnsweredSet = Msgs
    BY Zenon, <1>1, <1>2, MessageCount, FS_Subset DEF CountInv
  <1>4. \A m \in Msgs : ~Taken(m) /\ ~Taken(m)'
    BY Zenon, <1>1, <1>3 DEF AnsweredSet, MessageInv, OnePlace, Taken
  <1>5. \A m \in Msgs : /\ Queued(m)' <=> Queued(m)
                        /\ Running(m)' <=> Running(m)
                        /\ Reported(m)' <=> Reported(m)
                        /\ Answered(m)' <=> Answered(m)
    BY Zenon, <1>1 DEF Queued, Running, Reported, Answered
  <1>6. QueuedOnce' /\ ReportedOnce' /\ RunningOnce'
    BY Zenon, <1>1 DEF MessageInv, QueuedOnce, ReportedOnce, RunningOnce
  <1>7. QED  BY Zenon, <1>1, <1>4, <1>5, <1>6 DEF MessageInv, OnePlace

LEMMA CountStep ==
  ASSUME DispatcherAssumption, DispatcherTypeOK, MessageInv, CountInv, [DispatcherNext]_dispatcherVars
  PROVE  CountInv'
  <1>1. Collect \/ UNCHANGED <<responses, completed>>
    BY Zenon DEF DispatcherNext, dispatcherVars, Call, LoopStep, StartServers, StopServers, DispatchGet, DispatchTask,
       Step,
       Send, ClientTimeout, Settle, Release, Finish, Answer, ServerEnds
  <1>2. CASE UNCHANGED <<responses, completed>>
    BY Zenon, <1>2 DEF CountInv, AnsweredSet, Answered
  <1>3. QED  BY Zenon, <1>1, <1>2, MessagesCollected

(* Sending, timing out and answering keep a message with its task.          *)
LEMMA TaskMovesOn ==
  ASSUME DispatcherTypeOK, (\E t \in tasks : Send(t) \/ ClientTimeout(t)) \/ Answer
  PROVE  \E f : Relabels(f) /\ \A t \in tasks : Unsettled(f[t]) <=> Unsettled(t)
  <1>1. tasks \subseteq Tasks /\ "none" \in Results
    BY Zenon DEF DispatcherTypeOK, Results
  <1>2. ASSUME NEW t \in tasks, Send(t) \/ ClientTimeout(t)
        PROVE  \E f : Relabels(f) /\ \A s \in tasks : Unsettled(f[s]) <=> Unsettled(s)
    <2>1. PICK l \in {"wait", "answered"} : tasks' = Move(t, l, "none")
      BY Zenon, <1>2 DEF Send, ClientTimeout
    <2> DEFINE f == [s \in tasks |-> IF s = t THEN Moved(t, l, "none") ELSE s]
    <2>2. Relabels(f)
      BY Zenon, <1>1, <2>1, MoveRelabels DEF Stages
    <2>3. Moved(t, l, "none").loc = l
      BY Zenon, <1>1 DEF Tasks, Moved
    <2>4. \A s \in tasks : Unsettled(f[s]) <=> Unsettled(s)
      BY Zenon, <1>2, <2>3 DEF Send, ClientTimeout, Unsettled
    <2>5. QED  BY Zenon, <2>2, <2>4
  <1>3. ASSUME Answer
        PROVE  \E f : Relabels(f) /\ \A s \in tasks : Unsettled(f[s]) <=> Unsettled(s)
    <2>1. PICK r \in serving, res \in Results : ServerEnds(r, res)
      BY Zenon, <1>3 DEF Answer
    <2> DEFINE f == [t \in tasks |-> IF t.loc = "wait" /\ Request(t) = r
                                     THEN Moved(t, "answered", res) ELSE t]
    <2>2. Relabels(f)
      BY Zenon, <2>1, ServerRelabels
    <2>3. \A t \in tasks : Moved(t, "answered", res).loc = "answered"
      BY Zenon, <1>1 DEF Tasks, Moved
    <2>4. \A s \in tasks : Unsettled(f[s]) <=> Unsettled(s)
      BY Zenon, <2>3 DEF Unsettled
    <2>5. QED  BY Zenon, <2>2, <2>4
  <1>4. QED  BY Zenon, <1>2, <1>3

LEMMA MessagesStep ==
  ASSUME DispatcherAssumption, DispatcherTypeOK, Quiet, MessageInv, CountInv, [DispatcherNext]_dispatcherVars
  PROVE  MessageInv'
  <1>1. CASE UNCHANGED dispatcherVars \/ Call
    BY ZenonT(30), <1>1 DEF dispatcherVars, Call, MessageInv, Active, OnePlace, QueuedOnce, ReportedOnce,
       RunningOnce,
       Queued, Taken, Running, Reported, Answered
  <1>2. ASSUME NEW S, StartServers(S) PROVE MessageInv'
    BY Zenon, <1>2, MessagesFilled DEF StartServers
  <1>3. ASSUME NEW S, StopServers(S) PROVE MessageInv'
    BY Zenon, <1>3 DEF StopServers, MessageInv, Active
  <1>4. ASSUME NEW t \in tasks, Settle(t), phase # "idle" PROVE MessageInv'
    <2>1. Active \/ ~Active'
      BY Zenon, <1>4 DEF Settle, Active
    <2>2. QED  BY Zenon, <1>4, <2>1, MessagesSettled DEF MessageInv
  <1>5. CASE (\E t \in tasks : Send(t) \/ ClientTimeout(t)) \/ Answer
    <2>1. PICK f : Relabels(f) /\ \A t \in tasks : Unsettled(f[t]) <=> Unsettled(t)
      BY Zenon, <1>5, TaskMovesOn
    <2>2. UNCHANGED <<phase, jobQ, got, resQ, responses>>
      BY Zenon, <1>5 DEF Send, ClientTimeout, Answer, ServerEnds
    <2>3. QED  BY Zenon, <2>1, <2>2, MessagesMoved
  <1>6. QED
    BY ZenonT(30), <1>1, <1>2, <1>3, <1>4, <1>5, MessagesTaken, MessagesBound, MessagesReleased,
       MessagesCollected, MessagesFinished DEF DispatcherNext, LoopStep, Step

-----------------------------------------------------------------------------
(* Attempts *)

(* A job is sent once, and no message beyond its last attempt.              *)
SentOnce ==
  /\ \A r \in serving : r.job.retry \in 0..MaxRetry
  /\ \A r, s \in serving : r.job = s.job => r = s

(* An attempt that is to be sent is later than all that the servers have;   *)
(* one that was sent is at least as late.                                   *)
Fresh(S, j) == j.retry <= MaxRetry /\ \A r \in S : r.job.msg = j.msg => r.job.retry < j.retry
Latest(S, j) == j.retry <= MaxRetry /\ \A r \in S : r.job.msg = j.msg => r.job.retry <= j.retry

AttemptInv ==
  /\ SentOnce
  /\ Active => /\ \A i \in 1..Len(jobQ) : Fresh(serving, jobQ[i])
               /\ got # NoTask => Fresh(serving, got.job)
               /\ \A t \in tasks : t.loc = "send" => Fresh(serving, t.job)
               /\ \A t \in tasks : Unsettled(t) => Latest(serving, t.job)

LEMMA FreshIsLatest ==
  ASSUME DispatcherTypeOK, NEW j \in Jobs, Fresh(serving, j) PROVE Latest(serving, j)
  BY DEF Fresh, Latest, DispatcherTypeOK, Jobs

(* What a step that sends nothing has to keep.                              *)
LEMMA AttemptsKept ==
  ASSUME AttemptInv, serving' \subseteq serving,
         Active' => /\ \A i \in 1..Len(jobQ') : Fresh(serving, jobQ'[i])
                    /\ got' # NoTask => Fresh(serving, got'.job)
                    /\ \A t \in tasks' : t.loc = "send" => Fresh(serving, t.job)
                    /\ \A t \in tasks' : Unsettled(t) => Latest(serving, t.job)
  PROVE  AttemptInv'
  <1>1. SentOnce'
    BY Zenon DEF AttemptInv, SentOnce
  <1>2. \A j : (Fresh(serving, j) => Fresh(serving', j)) /\ (Latest(serving, j) => Latest(serving', j))
    BY Zenon DEF Fresh, Latest
  <1>3. QED  BY Zenon, <1>1, <1>2 DEF AttemptInv, Unsettled

LEMMA AttemptsTaken ==
  ASSUME DispatcherAssumption, DispatcherTypeOK, AttemptInv, DispatchGet PROVE AttemptInv'
  <1>1. /\ Active /\ got = NoTask /\ jobQ # <<>> /\ avail # <<>> /\ jobQ' = Tail(jobQ)
        /\ got' = [job |-> Head(jobQ), worker |-> Head(avail)]
        /\ UNCHANGED <<phase, tasks, serving>>
    BY Zenon DEF DispatchGet, Active
  <1>2. jobQ \in Seq(Jobs) /\ got'.job = Head(jobQ)
    BY Zenon, <1>1 DEF DispatcherTypeOK
  <1>3. /\ Head(jobQ) = jobQ[1] /\ 1 \in 1..Len(jobQ)
        /\ \A i \in 1..Len(jobQ') : i + 1 \in 1..Len(jobQ) /\ jobQ'[i] = jobQ[i + 1]
    BY <1>1, <1>2
  <1>4. \A i \in 1..Len(jobQ') : Fresh(serving, jobQ'[i])
    BY Zenon, <1>1, <1>3 DEF AttemptInv
  <1>5. Fresh(serving, got'.job)
    BY Zenon, <1>1, <1>2, <1>3 DEF AttemptInv
  <1>6. QED  BY Zenon, <1>1, <1>4, <1>5, AttemptsKept DEF AttemptInv

LEMMA AttemptsBound ==
  ASSUME DispatcherAssumption, DispatcherTypeOK, AttemptInv, DispatchTask PROVE AttemptInv'
  <1> DEFINE n == [job |-> got.job, worker |-> got.worker, loc |-> "send", result |-> "none"]
  <1>1. /\ Active /\ got # NoTask /\ tasks' = tasks \union {n} /\ got' = NoTask
        /\ UNCHANGED <<phase, jobQ, serving>>
    BY Zenon DEF DispatchTask, Active
  <1>2. n.job = got.job /\ got.job \in Jobs
    BY Zenon, <1>1 DEF DispatcherTypeOK
  <1> HIDE DEF n
  <1>3. Fresh(serving, got.job) /\ Latest(serving, got.job)
    BY Zenon, <1>1, <1>2, FreshIsLatest DEF AttemptInv
  <1>4. \A t \in tasks' : /\ t.loc = "send" => Fresh(serving, t.job)
                          /\ Unsettled(t) => Latest(serving, t.job)
    BY Zenon, <1>1, <1>2, <1>3 DEF AttemptInv
  <1>5. QED  BY Zenon, <1>1, <1>4, AttemptsKept DEF AttemptInv

LEMMA AttemptsSettled ==
  ASSUME DispatcherTypeOK, AttemptInv, NEW t \in tasks, Settle(t) PROVE AttemptInv'
  <1> SUFFICES ASSUME Active PROVE AttemptInv'
    BY Zenon, AttemptsKept DEF Settle, Active, AttemptInv
  <1> DEFINE n == Moved(t, "release", t.result)
  <1>1. t.job \in Jobs /\ t.result \in Results /\ t \in Tasks
    BY Zenon, TaskParts DEF DispatcherTypeOK
  <1>2. n.loc = "release" /\ tasks' = (tasks \ {t}) \union {n}
    BY Zenon, <1>1 DEF Settle, Move, Moved, Tasks
  <1> HIDE DEF n
  <1>3. \A s \in tasks' : s.loc = "send" \/ Unsettled(s) => s \in tasks
    BY Zenon, <1>2 DEF Unsettled
  <1>4. Latest(serving, t.job)
    BY Zenon DEF AttemptInv, Settle, Unsettled
  <1>5. \A i \in 1..Len(jobQ') : Fresh(serving, jobQ'[i])
    <2>1. CASE t.result = "none" /\ t.job.retry < MaxRetry
      <3> DEFINE k == [t.job EXCEPT !.retry = @ + 1]
      <3>1. jobQ' = Append(jobQ, k) /\ jobQ \in Seq(Jobs)
        BY Zenon, <2>1 DEF Settle, DispatcherTypeOK
      <3>2. k \in Jobs /\ k.msg = t.job.msg /\ k.retry = t.job.retry + 1
        BY <1>1 DEF Jobs
      <3> HIDE DEF k
      <3>3. \A r \in serving : r.job.retry \in Nat
        BY Zenon DEF DispatcherTypeOK, Jobs
      <3>4. Fresh(serving, k)
        BY <1>1, <1>4, <2>1, <3>2, <3>3 DEF Fresh, Latest, MaxRetry, Jobs
      <3>5. \A i \in 1..Len(jobQ') : (i \in 1..Len(jobQ) /\ jobQ'[i] = jobQ[i]) \/ jobQ'[i] = k
        BY <3>1, <3>2
      <3>6. QED  BY Zenon, <3>4, <3>5 DEF AttemptInv
    <2>2. CASE ~(t.result = "none" /\ t.job.retry < MaxRetry)
      BY Zenon, <2>2 DEF Settle, AttemptInv
    <2>3. QED  BY Zenon, <2>1, <2>2
  <1>6. UNCHANGED <<got, serving>>
    BY Zenon DEF Settle
  <1>7. QED  BY Zenon, <1>3, <1>5, <1>6, AttemptsKept DEF AttemptInv, Unsettled

(* A task posts its job: no other task, and nothing else, has the message. *)
LEMMA AttemptsSent ==
  ASSUME DispatcherAssumption, DispatcherTypeOK, Active, MessageInv, AttemptInv,
         NEW t \in tasks, Send(t), ServerOf[t.worker] \in started
  PROVE  AttemptInv'
  <1> DEFINE q == Request(t)  n == Moved(t, "wait", "none")
  <1>1. /\ t \in Tasks /\ tasks \subseteq Tasks /\ t.job \in Jobs /\ Unsettled(t)
        /\ t.loc = "send" /\ t.job.msg \in Msgs /\ t.job.retry \in Nat
    BY Zenon, TaskParts DEF DispatcherTypeOK, Send, Unsettled
  <1>2. q.job = t.job /\ serving' = serving \union {q} /\ UNCHANGED <<phase, jobQ, got>>
    BY Zenon DEF Send, Request
  <1>3. n.job = t.job /\ n.loc = "wait" /\ tasks' = (tasks \ {t}) \union {n}
    BY Zenon, <1>1 DEF Send, Move, Moved, Tasks
  <1>4. Fresh(serving, t.job)
    BY Zenon, <1>1 DEF AttemptInv
  <1>5. /\ Running(t.job.msg)
        /\ \A i \in 1..Len(jobQ) : jobQ[i].msg # t.job.msg
        /\ got # NoTask => got.job.msg # t.job.msg
        /\ \A s \in tasks : Unsettled(s) /\ s # t => s.job.msg # t.job.msg
    BY Zenon, <1>1 DEF MessageInv, OnePlace, Running, Queued, Taken, RunningOnce
  <1> HIDE DEF q, n
  <1>6. SentOnce'
    BY <1>1, <1>2, <1>4 DEF AttemptInv, SentOnce, Fresh, MaxRetry
  <1>7. \A j : j.msg # t.job.msg => /\ Fresh(serving, j) => Fresh(serving', j)
                                    /\ Latest(serving, j) => Latest(serving', j)
    BY <1>2 DEF Fresh, Latest
  <1>8. Latest(serving', t.job)
    <2>1. Latest(serving, t.job)
      BY Zenon, <1>1, <1>4, FreshIsLatest
    <2>2. QED  BY <1>1, <1>2, <2>1 DEF Latest
  <1>9. \A i \in 1..Len(jobQ') : Fresh(serving', jobQ'[i])
    BY Zenon, <1>2, <1>5, <1>7 DEF AttemptInv
  <1>10. got' # NoTask => Fresh(serving', got'.job)
    BY Zenon, <1>2, <1>5, <1>7 DEF AttemptInv
  <1>11. \A s \in tasks' : s = n \/ (s \in tasks /\ (Unsettled(s) => s.job.msg # t.job.msg))
    BY Zenon, <1>3, <1>5
  <1>12. \A s \in tasks' : Unsettled(s) => Latest(serving', s.job)
    BY Zenon, <1>3, <1>7, <1>8, <1>11 DEF AttemptInv
  <1>13. \A s \in tasks' : s.loc = "send" => Fresh(serving', s.job)
    BY Zenon, <1>3, <1>7, <1>11 DEF AttemptInv, Unsettled
  <1>14. QED  BY Zenon, <1>6, <1>9, <1>10, <1>12, <1>13 DEF AttemptInv, Unsettled

(* A task whose request ends, one way or the other, before or after it was *)
(* accepted.                                                                *)
LEMMA AttemptsMoved ==
  ASSUME AttemptInv, NEW f, Relabels(f), serving' \subseteq serving,
         \A t \in tasks : /\ Unsettled(f[t]) <=> Unsettled(t)
                          /\ f[t].loc = "send" => t.loc = "send",
         UNCHANGED <<phase, jobQ, got>>
  PROVE  AttemptInv'
  <1>1. \A s \in tasks' : \E t \in tasks : s.job = t.job /\ s = f[t]
    BY Zenon DEF Relabels
  <1>2. Active => \A s \in tasks' : /\ s.loc = "send" => Fresh(serving, s.job)
                                    /\ Unsettled(s) => Latest(serving, s.job)
    BY <1>1 DEF AttemptInv
  <1>3. QED  BY Zenon, <1>2, AttemptsKept DEF AttemptInv, Active

LEMMA AttemptsEnded ==
  ASSUME DispatcherTypeOK, AttemptInv,
         (\E t \in tasks : ClientTimeout(t) \/ (Send(t) /\ ServerOf[t.worker] \notin started))
           \/ Answer
  PROVE  AttemptInv'
  <1>1. tasks \subseteq Tasks /\ "none" \in Results
    BY Zenon DEF DispatcherTypeOK, Results
  <1>2. ASSUME NEW t \in tasks,
               ClientTimeout(t) \/ (Send(t) /\ ServerOf[t.worker] \notin started)
        PROVE  AttemptInv'
    <2>1. /\ tasks' = Move(t, "answered", "none") /\ serving' = serving /\ Unsettled(t)
          /\ UNCHANGED <<phase, jobQ, got>>
      BY Zenon, <1>2 DEF ClientTimeout, Send, Unsettled
    <2> DEFINE f == [s \in tasks |-> IF s = t THEN Moved(t, "answered", "none") ELSE s]
    <2>2. Relabels(f)
      BY Zenon, <1>1, <2>1, MoveRelabels DEF Stages
    <2>3. Moved(t, "answered", "none").loc = "answered"
      BY <1>1, TaskMoved DEF Stages
    <2>4. \A s \in tasks : /\ Unsettled(f[s]) <=> Unsettled(s)
                           /\ f[s].loc = "send" => s.loc = "send"
      BY Zenon, <2>1, <2>3 DEF Unsettled
    <2> HIDE DEF f
    <2>5. QED  BY Zenon, <2>1, <2>2, <2>4, AttemptsMoved
  <1>3. ASSUME NEW r \in serving, NEW res \in Results, ServerEnds(r, res) PROVE AttemptInv'
    <2> DEFINE f == [t \in tasks |-> IF t.loc = "wait" /\ Request(t) = r
                                     THEN Moved(t, "answered", res) ELSE t]
    <2>1. Relabels(f)
      BY Zenon, <1>3, ServerRelabels
    <2>2. \A t \in tasks : Moved(t, "answered", res).loc = "answered"
      BY <1>1, TaskMoved DEF Stages
    <2>3. \A s \in tasks : /\ Unsettled(f[s]) <=> Unsettled(s)
                           /\ f[s].loc = "send" => s.loc = "send"
      BY Zenon, <2>2 DEF Unsettled
    <2>4. serving' \subseteq serving /\ UNCHANGED <<phase, jobQ, got>>
      BY Zenon, <1>3 DEF ServerEnds
    <2> HIDE DEF f
    <2>5. QED  BY Zenon, <2>1, <2>3, <2>4, AttemptsMoved
  <1>4. QED  BY Zenon, <1>2, <1>3 DEF Answer

LEMMA AttemptsFilled ==
  ASSUME DispatcherAssumption, Quiet, AttemptInv, NEW S, StartServers(S) PROVE AttemptInv'
  <1>1. /\ jobQ' = [i \in DOMAIN Messages |-> [msg |-> Messages[i], retry |-> 0]]
        /\ got' = NoTask /\ tasks' = {} /\ serving = {} /\ serving' = {}
    BY Zenon DEF StartServers, Quiet
  <1>2. DOMAIN Messages = 1..Len(Messages) /\ Len(Messages) \in Nat
    BY Zenon, Constants
  <1>3. \A i \in 1..Len(jobQ') : jobQ'[i].retry = 0
    BY <1>1, <1>2
  <1>4. \A i \in 1..Len(jobQ') : Fresh(serving, jobQ'[i])
    BY <1>1, <1>3 DEF Fresh, MaxRetry
  <1>5. QED  BY Zenon, <1>1, <1>4, AttemptsKept

LEMMA AttemptsStep ==
  ASSUME DispatcherAssumption, DispatcherTypeOK, Quiet, MessageInv, AttemptInv, [DispatcherNext]_dispatcherVars
  PROVE  AttemptInv'
  <1>1. CASE UNCHANGED dispatcherVars \/ Call
    BY Zenon, <1>1, AttemptsKept DEF dispatcherVars, Call, AttemptInv, Active
  <1>2. ASSUME NEW S, StopServers(S) PROVE AttemptInv'
    BY Zenon, <1>2, AttemptsKept DEF StopServers, Active
  <1>3. ASSUME NEW t \in tasks, Release(t) PROVE AttemptInv'
    BY Zenon, <1>3, AttemptsKept DEF Release, AttemptInv, Active
  <1>4. CASE Collect \/ Finish
    BY Zenon, <1>4, AttemptsKept DEF Collect, Finish, AttemptInv, Active
  <1>5. ASSUME NEW t \in tasks, Send(t), phase \notin {"idle", "returned"} PROVE AttemptInv'
    <2>1. Active
      BY Zenon, <1>5 DEF Active, Quiet, DispatcherTypeOK
    <2>2. QED  BY Zenon, <1>5, <2>1, AttemptsSent, AttemptsEnded
  <1>6. QED
    BY <1>1, <1>2, <1>3, <1>4, <1>5, AttemptsFilled, AttemptsTaken, AttemptsBound, AttemptsSettled,
       AttemptsEnded DEF DispatcherNext, LoopStep, Step

-----------------------------------------------------------------------------
(* Counting *)

LEMMA AtMostOne ==
  ASSUME NEW S, \A x, y \in S : x = y
  PROVE  IsFiniteSet(S) /\ Cardinality(S) = IF S = {} THEN 0 ELSE 1
  <1>1. CASE S = {}
    BY Zenon, <1>1, FS_EmptySet
  <1>2. CASE S # {}
    <2>1. PICK x : S = {x}
      BY <1>2
    <2>2. QED  BY Zenon, <2>1, FS_Singleton
  <1>3. QED  BY Zenon, <1>1, <1>2

LEMMA WorkersCounted == ASSUME DispatcherTypeOK, WorkerInv PROVE WorkerConserved
  <1> SUFFICES ASSUME phase = "collecting", NEW w \in Pool
               PROVE  Cardinality({i \in DOMAIN avail : avail[i] = w})
                        + (IF got # NoTask /\ got.worker = w THEN 1 ELSE 0)
                        + Cardinality({t \in tasks : t.worker = w}) = 1
    BY Zenon DEF WorkerConserved
  <1> DEFINE A == {i \in DOMAIN avail : avail[i] = w}  B == {t \in tasks : t.worker = w}
  <1>1. DOMAIN avail = 1..Len(avail)
    BY DEF DispatcherTypeOK
  <1>2. /\ \A x, y \in A : x = y
        /\ A # {} <=> Pooled(w)
    BY Zenon, <1>1 DEF WorkerInv, Pooled
  <1>3. /\ \A x, y \in B : x = y
        /\ B # {} <=> Bound(w)
    BY Zenon DEF WorkerInv, Bound
  <1> HIDE DEF A, B
  <1>4. /\ Cardinality(A) = IF A = {} THEN 0 ELSE 1
        /\ Cardinality(B) = IF B = {} THEN 0 ELSE 1
    BY Zenon, <1>2, <1>3, AtMostOne
  <1>5. Cardinality(A) + (IF Held(w) THEN 1 ELSE 0) + Cardinality(B) = 1
    BY <1>2, <1>3, <1>4 DEF WorkerInv
  <1>6. QED  BY Zenon, <1>5 DEF A, B, Held

LEMMA MessagesCounted == ASSUME DispatcherTypeOK, MessageInv PROVE MessageConserved
  <1> SUFFICES ASSUME Active, NEW m \in Msgs PROVE Places(m) = 1
    BY Zenon DEF MessageConserved, Active
  <1> DEFINE A == {i \in DOMAIN jobQ : jobQ[i].msg = m}
             B == {t \in tasks : t.job.msg = m /\ Unsettled(t)}
             C == {i \in DOMAIN resQ : resQ[i].msg = m}
  <1>1. DOMAIN jobQ = 1..Len(jobQ) /\ DOMAIN resQ = 1..Len(resQ)
    BY DEF DispatcherTypeOK
  <1>2. /\ \A x, y \in A : x = y
        /\ A # {} <=> Queued(m)
    BY Zenon, <1>1 DEF MessageInv, QueuedOnce, Queued
  <1>3. /\ \A x, y \in B : x = y
        /\ B # {} <=> Running(m)
    BY Zenon DEF MessageInv, RunningOnce, Running
  <1>4. /\ \A x, y \in C : x = y
        /\ C # {} <=> Reported(m)
    BY Zenon, <1>1 DEF MessageInv, ReportedOnce, Reported
  <1>5. Places(m) = Cardinality(A) + (IF Taken(m) THEN 1 ELSE 0) + Cardinality(B)
                      + Cardinality(C) + (IF Answered(m) THEN 1 ELSE 0)
    BY Zenon DEF Places, Taken, Answered
  <1> HIDE DEF A, B, C
  <1>6. /\ Cardinality(A) = IF A = {} THEN 0 ELSE 1
        /\ Cardinality(B) = IF B = {} THEN 0 ELSE 1
        /\ Cardinality(C) = IF C = {} THEN 0 ELSE 1
    BY Zenon, <1>2, <1>3, <1>4, AtMostOne
  <1>7. QED  BY <1>2, <1>3, <1>4, <1>5, <1>6 DEF MessageInv, OnePlace

(* The requests of a message have different attempt numbers out of three.  *)
LEMMA AttemptsCounted == ASSUME DispatcherTypeOK, AttemptInv PROVE AttemptsBounded
  <1> SUFFICES ASSUME NEW m \in Msgs PROVE Cardinality({r \in serving : r.job.msg = m}) <= 3
    BY Zenon DEF AttemptsBounded
  <1> DEFINE R == {r \in serving : r.job.msg = m}
             f == [r \in R |-> r.job.retry + 1]
  <1>1. \A r \in R : r.job \in Jobs /\ r.job.msg = m /\ r.job.retry \in 0..2 /\ r \in serving
    BY Zenon DEF AttemptInv, SentOnce, MaxRetry, DispatcherTypeOK
  <1>2. \A r, s \in R : r.job.retry = s.job.retry => r = s
    <2> SUFFICES ASSUME NEW r \in R, NEW s \in R, r.job.retry = s.job.retry PROVE r = s
      OBVIOUS
    <2>1. r.job = s.job
      BY <1>1 DEF Jobs
    <2>2. QED  BY Zenon, <1>1, <2>1 DEF AttemptInv, SentOnce
  <1> HIDE DEF R
  <1>3. f \in [R -> 1..3]
    BY <1>1
  <1>4. f \in Injection(R, 1..3)
    BY <1>1, <1>2, <1>3 DEF Injection, IsInjective
  <1>5. IsFiniteSet(1..3) /\ Cardinality(1..3) = 3
    BY Zenon, IntervalCount
  <1>6. IsFiniteSet(R) /\ Cardinality(R) <= Cardinality(1..3)
    BY <1>4, <1>5, FS_Injection
  <1>7. QED  BY Zenon, <1>5, <1>6 DEF R

-----------------------------------------------------------------------------
(* The inductive invariant, and what follows from it for every trajectory  *)
(* count, every pool of workers and every placement of them.                *)
DispatcherInv == DispatcherTypeOK /\ Quiet /\ WorkerInv /\ MessageInv /\ CountInv /\ AttemptInv

LEMMA InvInit == DispatcherInit => DispatcherInv
  <1> SUFFICES ASSUME DispatcherInit PROVE DispatcherInv
    OBVIOUS
  <1>1. DispatcherTypeOK
    BY Zenon, TypedInit
  <1>2. Quiet /\ WorkerInv /\ MessageInv /\ AttemptInv
    BY Zenon DEF DispatcherInit, Quiet, WorkerInv, MessageInv, AttemptInv, SentOnce, Active
  <1>3. AnsweredSet = {}
    BY Zenon DEF DispatcherInit, AnsweredSet, Answered
  <1>4. CountInv
    BY Zenon, <1>3, FS_EmptySet DEF CountInv, DispatcherInit
  <1>5. QED  BY Zenon, <1>1, <1>2, <1>4 DEF DispatcherInv

LEMMA InvStep ==
  ASSUME DispatcherAssumption, DispatcherInv, [DispatcherNext]_dispatcherVars PROVE DispatcherInv'
  BY Zenon, TypedStep, QuietStep, WorkersStep, MessagesStep, CountStep,
     AttemptsStep DEF DispatcherInv

LEMMA InvHolds == ASSUME DispatcherAssumption PROVE DispatcherSpec => []DispatcherInv
  BY InvInit, InvStep, PTL DEF DispatcherSpec

(* Every queue, task and request of request_from_openhands() keeps its     *)
(* type, and the collector counts no more results than there are messages.  *)
THEOREM DispatcherTypeCorrect == ASSUME DispatcherAssumption PROVE DispatcherSpec => []DispatcherTypeOK
  <1>1. DispatcherInv => DispatcherTypeOK
    BY Zenon DEF DispatcherInv
  <1>2. QED  BY <1>1, InvHolds, PTL

(* However tasks, retries, client timeouts and late server answers          *)
(* interleave, a worker is at any time in the pool, with the dispatcher or  *)
(* with one task: none is leaked, none handed out twice.                    *)
THEOREM WorkersConserved == ASSUME DispatcherAssumption PROVE DispatcherSpec => []WorkerConserved
  <1>1. DispatcherInv => WorkerConserved
    BY Zenon, WorkersCounted DEF DispatcherInv
  <1>2. QED  BY <1>1, InvHolds, PTL

(* A message is at any time in exactly one place, from the filling of the  *)
(* job queue to the end of the call: it is neither lost nor answered twice, *)
(* and the count on which the collector stops is the count of answers.      *)
THEOREM MessagesConserved == ASSUME DispatcherAssumption PROVE DispatcherSpec => []MessageConserved
  <1>1. DispatcherInv => MessageConserved
    BY Zenon, MessagesCounted DEF DispatcherInv
  <1>2. QED  BY <1>1, InvHolds, PTL

(* The servers never work on more than three requests of a message, though  *)
(* a client that timed out tells no server and the retry starts another.    *)
THEOREM AttemptsStayBounded == ASSUME DispatcherAssumption PROVE DispatcherSpec => []AttemptsBounded
  <1>1. DispatcherInv => AttemptsBounded
    BY Zenon, AttemptsCounted DEF DispatcherInv
  <1>2. QED  BY <1>1, InvHolds, PTL
=============================================================================
