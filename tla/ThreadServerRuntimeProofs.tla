--------------------- MODULE ThreadServerRuntimeProofs ---------------------
(***************************************************************************)
(* What becomes of the runtime of a job of ThreadServer, for any number of *)
(* calls, workers and starts, when no two calls share an id and nobody     *)
(* calls stop().                                                           *)
(***************************************************************************)
EXTENDS ThreadServerProofs

(* The runtime of a job that nobody has signalled is open from the end of  *)
(* its init to the end of its run.                                          *)
Fetched(w, c) == StageOf[w] = "init" /\ wpc[w] = "resume" /\ wcall[w] = c

ReadyAt(w) ==
  \/ StageOf[w] = "init" /\ wpc[w] = "handover"
  \/ StageOf[w] = "run" /\ wpc[w] \in {"lookup", "register", "enter", "arm", "await"}
Ready(c) == Queued("run", IdOf[c]) \/ \E w \in Workers : wid[w] = IdOf[c] /\ ReadyAt(w)

OpenInv ==
  /\ spc = "idle"
  /\ \A c \in Calls : ppc[c] = "woken" => job[c].event
  /\ \A c \in Calls :
       ~job[c].event => /\ Ready(c) => job[c].runtime \in live[c]
                        /\ \A w \in Workers : Fetched(w, c) => wrt[w] \in live[c]

(* From the end of its init to the end of its run a job is handed on; what  *)
(* is open then is the runtime of its object, which the end of the run      *)
(* closes.  A failed init leaves a runtime to a job that is never handed on.*)
HandedAt(w) ==
  \/ StageOf[w] = "init" /\ wpc[w] = "handover"
  \/ StageOf[w] = "run" /\ Owns(w)
Handed(c) == Queued("run", IdOf[c]) \/ \E w \in Workers : wid[w] = IdOf[c] /\ HandedAt(w)

Traced(c) ==
  /\ 0 \notin live[c]
  /\ opened[c] = 0 => live[c] = {} /\ ~Handed(c) /\ ~RunOver(c)
  /\ \A w \in Workers : Fetched(w, c) => live[c] \subseteq {wrt[w]} /\ opened[c] # 0
  /\ Handed(c) => live[c] \subseteq {job[c].runtime}
  /\ RunOver(c) => live[c] = {}

TraceInv == /\ \A w \in Workers : GenOf[w] > starts => wpc[w] = "off"
            /\ \A c \in Calls : Traced(c)

(* A job that cannot be cancelled is signalled when no queue and no worker  *)
(* has it any more, by the end of its eval or by the stage that failed.     *)
Held(c) == (\E s \in Stages : Queued(s, IdOf[c])) \/ \E w \in Workers : Owns(w) /\ wid[w] = IdOf[c]
Past(c) == job[c].event \/ ppc[c] \in {"woken", "failed", "returned", "raised"}

Reclaimed(c) ==
  /\ cpc[IdOf[c]] = "idle"
  /\ Early(c) => ~job[c].event /\ live[c] = {}
  /\ Held(c) => ppc[c] = "waiting" /\ ~job[c].event
  /\ Past(c) => live[c] = {} \/ job[c].results = "init"

ReclaimInv == \A c \in Calls : IdOf[c] \notin Cancellable => Reclaimed(c)

-----------------------------------------------------------------------------
(* The runtime of a run *)

LEMMA OpenInit == Init => OpenInv
  <1> SUFFICES ASSUME Init PROVE OpenInv
    OBVIOUS
  <1>1. "run" \in Stages
    BY DEF Stages
  <1>2. \A c \in Calls : ~Queued("run", IdOf[c]) /\ ppc[c] = "idle"
    BY <1>1 DEF Init, Queued
  <1>3. \A w \in Workers : ~ReadyAt(w) /\ wpc[w] = "off"
    BY DEF Init, ReadyAt
  <1>4. QED  BY <1>2, <1>3 DEF OpenInv, Init, Ready, Fetched

LEMMA OpenKept ==
  ASSUME OpenInv, spc' = "idle",
         \A c \in Calls : ppc'[c] = "woken" => job[c].event,
         \A c \in Calls : job'[c].event \/ (Untouched(c) /\ live[c] \subseteq live'[c]),
         \A c \in Calls : Ready(c)' => Ready(c),
         \A c \in Calls, w \in Workers : Fetched(w, c)' => Fetched(w, c) /\ wrt'[w] = wrt[w]
  PROVE  OpenInv'
  BY DEF OpenInv, Untouched

(* Steps of other threads than workers.                                     *)
LEMMA OpenOutside ==
  ASSUME TypeInv, OpenInv, ~StopAllowed, [Next]_vars, ~ \E w \in Workers : WorkerStep(w)
  PROVE  OpenInv'
  <1> USE DEF serverVars, objectVars, workerVars, clientVars, stopVars
  <1>1. ~StopStep
    BY DEF StopStep, StopBegin, StopSignal, StopSentinels, StopClearState, StopClearDetails,
       StopClearQueues, OpenInv
  <1>2. /\ spc' = "idle" /\ UNCHANGED <<wid, wcall, wrt>>
        /\ \A w \in Workers : wpc'[w] = wpc[w] \/ wpc'[w] = "get"
    BY Zenon, <1>1 DEF Next, vars, Start, ProcessStep, Admit, Store, Enqueue, Wake, Conclude,
       CleanupTimedOutJob, CancelStep, CancelCheck, CancelRemove, CancelMark, OpenInv
  <1>3. queue'["run"] = queue["run"]
    BY Zenon, <1>1 DEF Next, vars, Start, ProcessStep, Admit, Store, Enqueue, Wake, Conclude,
       CleanupTimedOutJob, CancelStep, CancelCheck, CancelRemove, CancelMark, TypeInv, TypeOK,
          Stages
  <1>4. \A c \in Calls : Ready(c)' => Ready(c)
    BY <1>2, <1>3 DEF Ready, ReadyAt, Queued
  <1>5. \A c \in Calls, w \in Workers : Fetched(w, c)' => Fetched(w, c) /\ wrt'[w] = wrt[w]
    BY Zenon, <1>2 DEF Fetched
  <1>6. \A c \in Calls : job'[c].event \/ (Untouched(c) /\ live[c] \subseteq live'[c])
    <2>1. ASSUME NEW d \in Calls, Conclude(d), NEW c \in Calls
          PROVE  job'[c].event \/ (Untouched(c) /\ live[c] \subseteq live'[c])
      <3>1. UNCHANGED job /\ (c # d => live'[c] = live[c]) /\ (c = d => job[c].event)
        BY Zenon, <2>1 DEF Conclude, CloseOf, OpenInv, TypeInv, TypeOK
      <3>2. QED  BY Zenon, <3>1 DEF Untouched, SameResults
    <2>2. CASE UNCHANGED <<job, live>>
      BY Zenon, <2>2 DEF Untouched, SameResults
    <2>3. QED
      BY Zenon, <1>1, <2>1, <2>2, SignalJob DEF Next, vars, Start, ProcessStep, Admit, Store,
         Enqueue, Wake,
         CancelStep, CancelCheck, CancelMark
  <1>7. \A c \in Calls : ppc'[c] = "woken" => job[c].event
    <2>1. ppc \in [Calls -> ClientLocs] /\ \A c \in Calls : ppc[c] = "woken" => job[c].event
      BY Zenon DEF TypeInv, TypeOK, OpenInv
    <2>2. ASSUME NEW d \in Calls, ProcessStep(d)
          PROVE  /\ \A c \in Calls \ {d} : ppc'[c] = ppc[c]
                 /\ ppc'[d] = "woken" => job[d].event
      BY Zenon, <2>1, <2>2 DEF ProcessStep, Admit, Store, Enqueue, Wake, Conclude, CleanupTimedOutJob
    <2>3. CASE UNCHANGED ppc
      BY Zenon, <2>1, <2>3
    <2>4. QED
      BY Zenon, <1>1, <2>1, <2>2, <2>3 DEF Next, vars, Start, CancelStep, CancelCheck, CancelRemove,
         CancelMark
  <1>8. QED  BY Zenon, <1>2, <1>4, <1>5, <1>6, <1>7, OpenKept

(* A worker reaches the run stage, or a fetched runtime, by two steps only. *)
LEMMA ReadyMoves ==
  ASSUME NEW w \in Workers, TypeInv, Internal(w)
  PROVE  /\ ReadyAt(w)' => (ReadyAt(w) /\ wid'[w] = wid[w]) \/ (Resume(w) /\ StageOf[w] = "init")
         /\ wpc'[w] = "resume" => TaskSucceeds(w)
  <1> USE DEF WorkerAt, Goto, ReadyAt
  <1>1. /\ wpc \in [Workers -> WorkerLocs] /\ wid \in [Workers -> Ids \union {STOP}]
    BY Zenon DEF TypeInv, TypeOK
  <1>2. CASE Lookup(w) \/ Register(w) \/ Finally(w)
    BY Zenon, <1>1, <1>2 DEF Lookup, Register, Finally, Restart
  <1>3. CASE EnterPhase(w) \/ Arm(w) \/ TaskFails(w)
    BY Zenon, <1>1, <1>3 DEF EnterPhase, Arm, TaskFails
  <1>4. CASE TaskSucceeds(w) \/ Resume(w)
    BY Zenon, <1>1, <1>4 DEF TaskSucceeds, Resume
  <1>5. CASE ExitPhase(w) \/ Except(w)
    BY Zenon, <1>1, <1>5 DEF ExitPhase, Except
  <1>6. QED  BY Zenon, <1>2, <1>3, <1>4, <1>5 DEF Internal

LEMMA ReadyOthers ==
  ASSUME NEW w \in Workers, TypeInv, TokenInv, Internal(w)
  PROVE  /\ \A c \in Calls : Ready(c)' => Ready(c) \/ (ReadyAt(w)' /\ wid'[w] = IdOf[c])
         /\ \A c \in Calls : \A v \in Workers \ {w} :
              Fetched(v, c)' => Fetched(v, c) /\ wrt'[v] = wrt[v]
  <1>1. \A v \in Workers \ {w} : /\ wpc'[v] = wpc[v] /\ wid'[v] = wid[v]
                                 /\ wcall'[v] = wcall[v] /\ wrt'[v] = wrt[v]
    BY Zenon, WorkerFrame DEF Internal, WorkerStep
  <1>2. UNCHANGED queue
    BY Zenon, OwnerMoves
  <1>3. \A v \in Workers \ {w} : ReadyAt(v)' <=> ReadyAt(v)
    BY Zenon, <1>1 DEF ReadyAt
  <1>4. \A c \in Calls : Queued("run", IdOf[c])' <=> Queued("run", IdOf[c])
    BY Zenon, <1>2 DEF Queued
  <1>5. QED  BY Zenon, <1>1, <1>3, <1>4 DEF Ready, Fetched

(* What a worker owns, no queue and no other worker has.                    *)
LEMMA ReadyOwner ==
  ASSUME NEW w \in Workers, TypeInv, AnswerInv, TokenInv, Internal(w), Owns(w),
         NEW c \in Calls, IdOf[c] = wid[w]
  PROVE  /\ Ready(c)' => ReadyAt(w)'
         /\ \A v \in Workers \ {w} : ~Fetched(v, c)'
  <1>1. \A v \in Workers \ {w} : /\ wpc'[v] = wpc[v] /\ wid'[v] = wid[v] /\ wcall'[v] = wcall[v]
    BY Zenon, WorkerFrame DEF Internal, WorkerStep
  <1>2. UNCHANGED queue
    BY Zenon, OwnerMoves
  <1>3. ~Queued("run", IdOf[c])'
    BY ZenonT(30), <1>2 DEF Queued, TokenInv, Stages
  <1>4. \A v \in Workers \ {w} : ~(Owns(v) /\ wid[v] = IdOf[c])
    BY Zenon DEF TokenInv
  <1>5. \A v \in Workers \ {w} : ~(ReadyAt(v)' /\ wid'[v] = IdOf[c])
    BY Zenon, <1>1, <1>4 DEF ReadyAt, Owns, Carries
  <1>6. \A v \in Workers \ {w} : ~Fetched(v, c)'
    BY <1>1, <1>4 DEF Fetched, Owns, Carries, AnswerInv, Naming
  <1>7. QED  BY Zenon, <1>3, <1>5, <1>6 DEF Ready

LEMMA OpenQueue ==
  ASSUME NEW w \in Workers, TypeInv, TokenInv, OpenInv, Dequeue(w) \/ HandOver(w)
  PROVE  OpenInv'
  <1>1. /\ queue \in [Stages -> Seq(Ids \union {STOP})] /\ StageOf[w] \in Stages
        /\ wpc \in [Workers -> WorkerLocs] /\ wid \in [Workers -> Ids \union {STOP}]
        /\ wpc[w] = "handover" => wid[w] \in Ids /\ StageOf[w] \in {"init", "run"}
    BY Zenon, ConstantsAssumption DEF TypeInv, TypeOK, WorkerLocals
  <1>2. UNCHANGED <<job, live, ppc, spc, wrt, wcall>> /\ wpc'[w] # "resume"
    BY Zenon, <1>1 DEF Dequeue, HandOver, objectVars, clientVars, stopVars, Goto
  <1>3. \A v \in Workers \ {w} : wpc'[v] = wpc[v] /\ wid'[v] = wid[v]
    BY Zenon, WorkerFrame DEF WorkerStep
  <1>4. \A c \in Calls, v \in Workers : Fetched(v, c)' => Fetched(v, c) /\ wrt'[v] = wrt[v]
    BY Zenon, <1>2, <1>3 DEF Fetched
  <1>5. \A c \in Calls : Ready(c)' => Ready(c)
    <2>1. \A v \in Workers \ {w} : ReadyAt(v)' <=> ReadyAt(v)
      BY Zenon, <1>3 DEF ReadyAt
    <2>2. CASE Dequeue(w)
      <3>1. PICK h : h = Head(queue[StageOf[w]])
        OBVIOUS
      <3>2. /\ queue' = [queue EXCEPT ![StageOf[w]] = Tail(queue[StageOf[w]])]
            /\ queue[StageOf[w]] # <<>>
            /\ \/ wpc'[w] = "off"
               \/ wpc'[w] = "lookup" /\ wid'[w] = h
        BY Zenon, <1>1, <2>2, <3>1 DEF Dequeue, Goto
      <3>3. In(queue[StageOf[w]], h) /\ \A i : In(Tail(queue[StageOf[w]]),
         i) => In(queue[StageOf[w]], i)
        BY Zenon, <1>1, <3>1, <3>2, TailOnce DEF TokenInv
      <3>4. \A i : In(queue'["run"], i) => In(queue["run"], i)
        BY <1>1, <3>2, <3>3
      <3>5. ReadyAt(w)' => In(queue["run"], wid'[w])
        BY Zenon, <3>2, <3>3 DEF ReadyAt
      <3>6. \A c \in Calls : Ready(c)' =>
              In(queue'["run"], IdOf[c]) \/ \E v \in Workers : wid'[v] = IdOf[c] /\ ReadyAt(v)'
        BY Zenon DEF Ready, Queued, In
      <3>7. QED  BY ZenonT(60), <1>3, <2>1, <3>4, <3>5, <3>6 DEF Ready, Queued, In
    <2>3. CASE HandOver(w)
      <3>1. /\ wpc[w] = "handover" /\ wpc'[w] = "exit" /\ wid' = wid
            /\ queue' = [queue EXCEPT ![NextQueue[StageOf[w]]] = Append(@, wid[w])]
        BY Zenon, <1>1, <2>3 DEF HandOver, WorkerAt, Goto
      <3>2. CASE StageOf[w] = "init"
        <4>1. queue'["run"] = Append(queue["run"],
           wid[w]) /\ queue["run"] \in Seq(Ids \union {STOP})
          BY Zenon, <1>1, <3>1, <3>2 DEF NextQueue, Stages
        <4>2. \A i : In(queue'["run"], i) <=> i = wid[w] \/ In(queue["run"], i)
          <5>1. wid[w] \in Ids
            BY Zenon, <1>1, <3>1
          <5>2. \A i : In(Append(queue["run"], wid[w]), i) <=> i = wid[w] \/ In(queue["run"], i)
            BY Zenon, <4>1, <5>1, AppendOnce
          <5>3. QED  BY Zenon, <4>1, <5>2
        <4>3. ReadyAt(w) /\ ~ReadyAt(w)'
          BY Zenon, <3>1, <3>2 DEF ReadyAt
        <4>4. \A c \in Calls : Ready(c)' =>
                In(queue'["run"], IdOf[c]) \/ \E v \in Workers : wid'[v] = IdOf[c] /\ ReadyAt(v)'
          BY DEF Ready, Queued, In
        <4>5. QED  BY Zenon, <2>1, <3>1, <4>2, <4>3, <4>4 DEF Ready, Queued, In
      <3>3. CASE StageOf[w] = "run"
        <4>1. queue'["run"] = queue["run"]
          BY Zenon, <1>1, <3>1, <3>3 DEF NextQueue, Stages
        <4>2. \A c \in Calls : Queued("run", IdOf[c])' <=> Queued("run", IdOf[c])
          BY Zenon, <4>1 DEF Queued
        <4>3. ~ReadyAt(w)'
          BY Zenon, <3>1 DEF ReadyAt
        <4>4. QED  BY Zenon, <2>1, <3>1, <4>2, <4>3 DEF Ready
      <3>4. QED  BY Zenon, <1>1, <3>1, <3>2, <3>3
    <2>4. QED  BY Zenon, <2>2, <2>3
  <1>6. \A c \in Calls : Untouched(c) /\ live[c] \subseteq live'[c]
    BY Zenon, <1>2 DEF Untouched, SameResults
  <1>7. \A c \in Calls : ppc'[c] = "woken" => job[c].event
    BY ZenonT(30), <1>2 DEF OpenInv
  <1>8. QED  BY Zenon, <1>2, <1>4, <1>5, <1>6, <1>7, OpenKept DEF OpenInv

LEMMA OpenInternal ==
  ASSUME InjectiveIds, NEW w \in Workers, TypeInv, AnswerInv, TokenInv, OpenInv, Internal(w)
  PROVE  OpenInv'
  <1>1. /\ WorkerStep(w) /\ UNCHANGED <<spc, ppc>>
        /\ wpc[w] \notin {"off", "get"} => wid[w] \in Ids
        /\ wpc[w] \notin {"off", "get", "lookup"} => wcall[w] \in Calls /\ IdOf[wcall[w]] = wid[w]
        /\ StageOf[w] \in Stages
        /\ live \in [Calls -> SUBSET Nat] /\ wrt \in [Workers -> Nat] /\ opened \in [Calls -> Nat]
    BY ZenonT(30), ConstantsAssumption DEF Internal, WorkerStep, Lookup, Register, EnterPhase,
       Arm, TaskSucceeds,
       TaskFails, Resume, ExitPhase, Except, Finally, stopVars, clientVars, TypeInv, TypeOK,
       WorkerLocals, AnswerInv, Naming
  <1>2. \A c \in Calls : ppc'[c] = "woken" => job[c].event
    BY Zenon, <1>1 DEF OpenInv
  <1>3. CASE /\ ~(StageOf[w] = "init" /\ (TaskSucceeds(w) \/ Resume(w)))
             /\ ~(StageOf[w] = "run" /\ (Resume(w) \/ Except(w)))
    <2>1. \A c \in Calls : Ready(c)' => Ready(c)
      <3>1. ReadyAt(w)' => ReadyAt(w) /\ wid'[w] = wid[w]
        BY Zenon, <1>3, ReadyMoves
      <3>2. QED  BY Zenon, <3>1, ReadyOthers DEF Ready
    <2>2. \A c \in Calls, v \in Workers : Fetched(v, c)' => Fetched(v, c) /\ wrt'[v] = wrt[v]
      <3>1. \A c \in Calls : ~Fetched(w, c)'
        BY Zenon, <1>3, ReadyMoves DEF Fetched
      <3>2. QED  BY ZenonT(30), <3>1, ReadyOthers
    <2>3. \A c \in Calls : live[c] \subseteq live'[c]
      <3>1. CASE TaskFails(w)
        <4>1. wcall[w] \in Calls
          BY Zenon, <1>1, <3>1 DEF TaskFails, WorkerAt
        <4>2. \/ live' = live
              \/ live' = [live EXCEPT ![wcall[w]] = @ \union {opened[wcall[w]] + 1}]
          BY Zenon, <3>1 DEF TaskFails, OpenRuntime
        <4>3. QED  BY Zenon, <1>1, <4>1, <4>2
      <3>2. CASE ~TaskFails(w)
        <4>1. live' = live
          BY Zenon, <1>3, <3>2 DEF Internal, Lookup, Register, EnterPhase, Arm, TaskSucceeds,
             Resume, ExitPhase, Except, Finally, objectVars
        <4>2. QED  BY Zenon, <4>1
      <3>3. QED  BY Zenon, <3>1, <3>2
    <2>4. \A c \in Calls : job'[c].event \/ Untouched(c)
      <3>1. CASE Resume(w)
        BY ZenonT(30), <1>1, <1>3, <3>1, ResumeJob DEF Stages, Resume, WorkerAt
      <3>2. CASE Except(w)
        BY <1>3, <3>2, ExceptJob DEF Untouched
      <3>3. QED  BY Zenon, <1>1, <3>1, <3>2, WorkerJob
    <2>5. QED  BY ZenonT(30), <1>1, <1>2, <2>1, <2>2, <2>3, <2>4, OpenKept DEF OpenInv
  <1>4. CASE StageOf[w] = "init" /\ TaskSucceeds(w)
    <2>1. PICK c \in Calls : c = wcall[w] /\ IdOf[c] = wid[w]
      BY Zenon, <1>1, <1>4 DEF TaskSucceeds, WorkerAt
    <2>2. /\ live' = [live EXCEPT ![c] = @ \union {opened[c] + 1}] /\ wrt'[w] = opened[c] + 1
          /\ wcall' = wcall /\ wpc[w] = "await" /\ wpc'[w] = "resume"
      BY Zenon, <1>1, <1>4, <2>1 DEF TaskSucceeds, OpenRuntime, WorkerAt, Goto, TypeInv, TypeOK
    <2>3. \A d \in Calls : Ready(d)' => Ready(d)
      BY Zenon, <1>4, <2>2, ReadyOthers DEF ReadyAt
    <2>4. \A d \in Calls : Untouched(d) /\ live[d] \subseteq live'[d]
      <3>1. ~Resume(w) /\ ~Except(w)
        BY Zenon, <2>2 DEF Resume, Except, WorkerAt
      <3>2. QED  BY ZenonT(30), <1>1, <2>2, <3>1, WorkerJob
    <2>5. \A d \in Calls, v \in Workers : ~job'[d].event /\ Fetched(v, d)' => wrt'[v] \in live'[d]
      <3>1. wrt'[w] \in live'[c] /\ \A d \in Calls : Fetched(w, d)' => d = c
        BY Zenon, <1>1, <2>1, <2>2 DEF Fetched
      <3>2. QED  BY <2>4, <3>1, ReadyOthers DEF OpenInv, Untouched
    <2>6. \A d \in Calls : ~job'[d].event /\ Ready(d)' => job'[d].runtime \in live'[d]
      BY Zenon, <2>3, <2>4 DEF OpenInv, Untouched
    <2>7. \A d \in Calls : ppc'[d] = "woken" => job'[d].event
      BY Zenon, <1>2, <2>4 DEF Untouched
    <2>8. QED  BY Zenon, <1>1, <2>5, <2>6, <2>7 DEF OpenInv
  <1>5. CASE (StageOf[w] \in {"init", "run"} /\ Resume(w)) \/ (StageOf[w] = "run" /\ Except(w))
    <2>1. PICK c \in Calls : c = wcall[w] /\ IdOf[c] = wid[w] /\ Owns(w)
      BY Zenon, <1>1, <1>5 DEF Resume, Except, WorkerAt, Owns, Carries
    <2>2. /\ \A d \in Calls \ {c} : Untouched(d) /\ live'[d] = live[d]
          /\ job[c].event => job'[c].event
      <3>1. live' = live \/ live' = CloseOf(c)
        BY Zenon, <1>5, <2>1 DEF Resume, Except
      <3>2. \A d \in Calls \ {c} : live'[d] = live[d]
        BY Zenon, <1>1, <3>1 DEF CloseOf
      <3>3. QED  BY Zenon, <1>5, <2>1, <3>2, ResumeJob, ExceptJob
    <2>3. wpc'[w] # "resume" /\ \A d \in Calls, v \in Workers : Fetched(v, d)' =>
            d # c /\ Fetched(v, d) /\ wrt'[v] = wrt[v]
      <3>1. wpc'[w] # "resume"
        BY Zenon, <1>5 DEF Resume, Except, Goto, TypeInv, TypeOK
      <3>2. QED  BY <2>1, <3>1, ReadyOthers, ReadyOwner DEF Fetched
    <2>4. \A d \in Calls \ {c} : Ready(d)' => Ready(d)
      <3>1. wid' = wid
        BY Zenon, <1>5 DEF Resume, Except
      <3>2. QED  BY <2>1, <3>1, ReadyOthers DEF InjectiveIds
    <2>5. Ready(c)' => job'[c].runtime \in live'[c] \/ job'[c].event
      <3>1. CASE Resume(w) /\ StageOf[w] = "init"
        <4>1. job'[c].runtime = wrt[w] /\ live' = live /\ (job'[c].event <=> job[c].event)
          <5>1. live' = live
            BY Zenon, <3>1 DEF Resume
          <5>2. job'[c].runtime = wrt[w] /\ (job'[c].event <=> job[c].event)
            BY ZenonT(30), <2>1, <3>1, ResumeJob
          <5>3. QED  BY Zenon, <5>1, <5>2
        <4>2. Fetched(w, c)
          BY Zenon, <2>1, <3>1 DEF Fetched, Resume, WorkerAt
        <4>3. QED  BY Zenon, <4>1, <4>2 DEF OpenInv
      <3>2. CASE StageOf[w] = "run"
        <4>1. ~ReadyAt(w)'
          BY ZenonT(30), <1>5, <3>2 DEF Resume, Except, Goto, TypeInv, TypeOK, ReadyAt
        <4>2. QED  BY ZenonT(30), <2>1, <4>1, ReadyOwner
      <3>3. QED  BY Zenon, <1>5, <3>1, <3>2
    <2>6. \A d \in Calls : ~job'[d].event =>
            /\ Ready(d)' => job'[d].runtime \in live'[d]
            /\ \A v \in Workers : Fetched(v, d)' => wrt'[v] \in live'[d]
      BY ZenonT(30), <2>2, <2>3, <2>4, <2>5 DEF OpenInv, Untouched
    <2>7. \A d \in Calls : ppc'[d] = "woken" => job'[d].event
      BY Zenon, <1>2, <2>2 DEF Untouched
    <2>8. QED  BY Zenon, <1>1, <2>6, <2>7 DEF OpenInv
  <1>6. QED  BY Zenon, <1>3, <1>4, <1>5

LEMMA OpenStep ==
  ASSUME InjectiveIds, ~StopAllowed, TypeInv, AnswerInv, TokenInv, OpenInv, [Next]_vars
  PROVE  OpenInv'
  BY Zenon, OpenOutside, OpenQueue, OpenInternal DEF WorkerStep, Internal

LEMMA OpenRuns == ASSUME TypeInv, AnswerInv, OpenInv PROVE RunOnLiveRuntime
  <1> SUFFICES ASSUME NEW w \in Workers, StageOf[w] = "run", wpc[w] = "await", ~job[wcall[w]].event
               PROVE  job[wcall[w]].runtime \in live[wcall[w]]
    BY Zenon DEF RunOnLiveRuntime
  <1>1. wcall[w] \in Calls /\ wid[w] = IdOf[wcall[w]]
    BY Zenon DEF TypeInv, WorkerLocals, AnswerInv, Naming
  <1>2. Ready(wcall[w])
    BY Zenon, <1>1 DEF Ready, ReadyAt
  <1>3. QED  BY Zenon, <1>1, <1>2 DEF OpenInv

-----------------------------------------------------------------------------
(* The runtimes of a job *)

LEMMA TraceInit == Init => TraceInv
  <1> SUFFICES ASSUME Init PROVE TraceInv
    OBVIOUS
  <1>1. \A w \in Workers : wpc[w] = "off" /\ ~HandedAt(w)
    BY Zenon DEF Init, Owns, Carries, HandedAt
  <1>2. \A c \in Calls : /\ live[c] = {} /\ ~Queued("run", IdOf[c])
                         /\ ~job[c].runResults /\ job[c].results = "none"
    BY DEF Init, NewJob, Queued, Stages
  <1>3. QED  BY Zenon, <1>1, <1>2 DEF TraceInv, Traced, Handed, Fetched, RunOver

(* A step that opens nothing and ends no run.                               *)
LEMMA TracedKept ==
  ASSUME NEW c \in Calls, Traced(c), live'[c] \subseteq live[c], opened'[c] = opened[c],
         RunOver(c)' => RunOver(c), Handed(c)' => Handed(c),
         Handed(c) => live'[c] \subseteq {job'[c].runtime},
         \A w \in Workers : Fetched(w, c)' => Fetched(w, c) /\ wrt'[w] = wrt[w]
  PROVE  Traced(c)'
  <1>1. 0 \notin live'[c] /\ (live[c] = {} => live'[c] = {})
    BY Zenon DEF Traced
  <1>2. \A w \in Workers : Fetched(w, c)' => live'[c] \subseteq {wrt'[w]} /\ opened'[c] # 0
    BY Zenon DEF Traced
  <1>3. QED  BY Zenon, <1>1, <1>2 DEF Traced

(* Steps of other threads than workers.                                     *)
LEMMA OutsideFrame ==
  ASSUME TypeInv, [Next]_vars, ~StopStep, ~ \E w \in Workers : WorkerStep(w),
         \A w \in Workers : GenOf[w] > starts => wpc[w] = "off"
  PROVE  /\ UNCHANGED <<wid, wcall, wrt, wout, opened>> /\ queue'["run"] = queue["run"]
         /\ \A w \in Workers : wpc'[w] = wpc[w] \/ (wpc[w] = "off" /\ wpc'[w] = "get")
         /\ \A w \in Workers : GenOf[w] > starts' => wpc'[w] = "off"
  <1> USE DEF serverVars, objectVars, workerVars, clientVars, stopVars
  <1>1. UNCHANGED <<wid, wcall, wrt, wout, opened>>
    BY ZenonT(30) DEF Next, vars, Start, ProcessStep, Admit, Store, Enqueue, Wake, Conclude,
       CleanupTimedOutJob, CancelStep, CancelCheck, CancelRemove, CancelMark
  <1>2. queue'["run"] = queue["run"]
    BY ZenonT(30) DEF Next, vars, Start, ProcessStep, Admit, Store, Enqueue, Wake, Conclude,
       CleanupTimedOutJob, CancelStep, CancelCheck, CancelRemove, CancelMark, TypeInv, TypeOK,
          Stages
  <1>3. starts \in Nat /\ \A w \in Workers : GenOf[w] \in Nat
    BY ConstantsAssumption DEF TypeInv, TypeOK
  <1>4. CASE Start
    <2>1. /\ starts' = starts + 1
          /\ wpc' = [w \in Workers |-> IF GenOf[w] = starts + 1 THEN "get" ELSE wpc[w]]
      BY Zenon, <1>4 DEF Start
    <2>2. QED  BY <1>1, <1>2, <1>3, <2>1
  <1>5. CASE UNCHANGED <<starts, wpc>>
    BY Zenon, <1>1, <1>2, <1>5
  <1>6. QED
    BY ZenonT(30), <1>4, <1>5 DEF Next, vars, ProcessStep, Admit, Store, Enqueue, Wake, Conclude,
       CleanupTimedOutJob, CancelStep, CancelCheck, CancelRemove, CancelMark

(* They close the runtime of the object or leave the object its runtime.    *)
LEMMA OutsideJob ==
  ASSUME TypeInv, [Next]_vars, ~StopStep, ~ \E w \in Workers : WorkerStep(w), NEW c \in Calls
  PROVE  /\ SameResults(c) /\ job'[c].results = job[c].results
         /\ \/ job'[c].runtime = job[c].runtime /\ live'[c] = live[c]
            \/ live'[c] = live[c] \ {job[c].runtime}
  <1> USE DEF serverVars, objectVars, workerVars, clientVars, stopVars
  <1>1. CASE UNCHANGED <<job, live>>
    BY Zenon, <1>1 DEF SameResults
  <1>2. CASE \E d \in Calls : Conclude(d)
    <2>1. PICK d \in Calls : UNCHANGED job /\ live' = CloseOf(d)
      BY Zenon, <1>2 DEF Conclude
    <2>2. live'[c] = live[c] \/ live'[c] = live[c] \ {job[c].runtime}
      BY Zenon, <2>1 DEF CloseOf, TypeInv, TypeOK
    <2>3. QED  BY Zenon, <2>1, <2>2 DEF SameResults
  <1>3. CASE (\E d \in Calls : CleanupTimedOutJob(d)) \/ (\E i \in Ids : CancelRemove(i))
    <2>1. /\ SameResults(c) /\ job'[c].results = job[c].results
          /\ \/ Untouched(c) /\ live'[c] = live[c]
             \/ job'[c].event /\ live'[c] = live[c] \ {job[c].runtime}
      BY Zenon, <1>3, SignalJob
    <2>2. QED  BY Zenon, <2>1 DEF Untouched
  <1>4. QED
    BY ZenonT(30), <1>1, <1>2, <1>3 DEF Next, vars, Start, ProcessStep, Admit, Store, Enqueue, Wake,
       CancelStep, CancelCheck, CancelMark

LEMMA TraceOutside ==
  ASSUME TypeInv, TraceInv, [Next]_vars, ~StopStep, ~ \E w \in Workers : WorkerStep(w)
  PROVE  TraceInv'
  <1>1. /\ UNCHANGED <<wid, wcall, wrt, wout, opened>> /\ queue'["run"] = queue["run"]
        /\ \A w \in Workers : wpc'[w] = wpc[w] \/ (wpc[w] = "off" /\ wpc'[w] = "get")
        /\ \A w \in Workers : GenOf[w] > starts' => wpc'[w] = "off"
    BY Zenon, OutsideFrame DEF TraceInv
  <1>2. \A w \in Workers : HandedAt(w)' => HandedAt(w)
    BY Zenon, <1>1 DEF HandedAt, Owns, Carries
  <1>3. \A c \in Calls : Handed(c)' => Handed(c)
    <2>1. \A c \in Calls : Queued("run", IdOf[c])' <=> Queued("run", IdOf[c])
      BY Zenon, <1>1 DEF Queued
    <2>2. QED  BY Zenon, <1>1, <1>2, <2>1 DEF Handed
  <1>4. \A c \in Calls, w \in Workers : Fetched(w, c)' => Fetched(w, c) /\ wrt'[w] = wrt[w]
    BY Zenon, <1>1 DEF Fetched
  <1>5. ASSUME NEW c \in Calls PROVE Traced(c)'
    <2>1. Traced(c)
      BY Zenon DEF TraceInv
    <2>2. /\ SameResults(c) /\ job'[c].results = job[c].results
          /\ \/ job'[c].runtime = job[c].runtime /\ live'[c] = live[c]
             \/ live'[c] = live[c] \ {job[c].runtime}
      BY Zenon, OutsideJob
    <2>3. RunOver(c)' => RunOver(c)
      BY Zenon, <2>2 DEF RunOver, SameResults
    <2>4. live'[c] \subseteq live[c] /\ (Handed(c) => live'[c] \subseteq {job'[c].runtime})
      BY Zenon, <2>1, <2>2 DEF Traced
    <2>5. QED  BY Zenon, <1>1, <1>3, <1>4, <2>1, <2>3, <2>4, TracedKept
  <1>6. QED  BY Zenon, <1>1, <1>5 DEF TraceInv

(* A job comes to be handed on when its init task's result is stored.       *)
LEMMA HandedInternal ==
  ASSUME NEW w \in Workers, TypeInv, TokenInv, Internal(w), NEW c \in Calls, Handed(c)'
  PROVE  Handed(c) \/ (Resume(w) /\ StageOf[w] = "init" /\ wid[w] = IdOf[c])
  <1>1. \A v \in Workers \ {w} : wpc'[v] = wpc[v] /\ wid'[v] = wid[v] /\ wout'[v] = wout[v]
    BY Zenon, WorkerFrame DEF Internal, WorkerStep
  <1>2. UNCHANGED queue /\ (Owns(w)' => Owns(w) /\ wid'[w] = wid[w])
    BY Zenon, OwnerMoves
  <1>3. \A v \in Workers \ {w} : HandedAt(v)' <=> HandedAt(v)
    BY Zenon, <1>1 DEF HandedAt, Owns, Carries
  <1>4. Queued("run", IdOf[c])' <=> Queued("run", IdOf[c])
    BY Zenon, <1>2 DEF Queued
  <1>5. HandedAt(w)' => wid'[w] = wid[w] /\ (HandedAt(w) \/ (Resume(w) /\ StageOf[w] = "init"))
    <2>1. wpc'[w] = "handover" => Resume(w) /\ Owns(w)'
      <3>1. wpc \in [Workers -> WorkerLocs]
        BY Zenon DEF TypeInv, TypeOK
      <3>2. wpc'[w] = "handover" => Resume(w)
        BY ZenonT(30), <3>1 DEF Internal, Lookup, Register, EnterPhase, Arm, TaskSucceeds, TaskFails,
           ExitPhase, Except, Finally, Restart, Goto, WorkerAt
      <3>3. QED  BY Zenon, <3>2 DEF Owns, Carries
    <2>2. QED  BY Zenon, <1>2, <2>1 DEF HandedAt
  <1>6. QED  BY Zenon, <1>1, <1>3, <1>4, <1>5 DEF Handed

LEMMA HandedQueue ==
  ASSUME NEW w \in Workers, TypeInv, TokenInv, Dequeue(w) \/ HandOver(w),
         NEW c \in Calls, Handed(c)'
  PROVE  Handed(c)
  <1>1. /\ queue \in [Stages -> Seq(Ids \union {STOP})] /\ StageOf[w] \in Stages
        /\ wpc \in [Workers -> WorkerLocs] /\ wid \in [Workers -> Ids \union {STOP}]
        /\ wpc[w] = "handover" => wid[w] \in Ids /\ StageOf[w] \in {"init", "run"}
    BY Zenon, ConstantsAssumption DEF TypeInv, TypeOK, WorkerLocals
  <1>2. \A v \in Workers \ {w} : (HandedAt(v)' <=> HandedAt(v)) /\ wid'[v] = wid[v]
    <2>1. \A v \in Workers \ {w} : wpc'[v] = wpc[v] /\ wid'[v] = wid[v] /\ wout'[v] = wout[v]
      BY Zenon, WorkerFrame DEF WorkerStep
    <2>2. QED  BY Zenon, <2>1 DEF HandedAt, Owns, Carries
  <1>3. In(queue'["run"], IdOf[c]) \/ \E v \in Workers : wid'[v] = IdOf[c] /\ HandedAt(v)'
    BY Zenon DEF Handed, Queued, In
  <1>4. SUFFICES In(queue["run"], IdOf[c]) \/ \E v \in Workers : wid[v] = IdOf[c] /\ HandedAt(v)
    BY Zenon DEF Handed, Queued, In
  <1>5. CASE Dequeue(w)
    <2>1. PICK h : h = Head(queue[StageOf[w]])
      OBVIOUS
    <2>2. /\ queue' = [queue EXCEPT ![StageOf[w]] = Tail(queue[StageOf[w]])]
          /\ queue[StageOf[w]] # <<>>
          /\ wpc'[w] = "off" \/ (wpc'[w] = "lookup" /\ wid'[w] = h)
      BY Zenon, <1>1, <1>5, <2>1 DEF Dequeue, Goto
    <2>3. /\ In(queue[StageOf[w]], h)
          /\ \A i : In(Tail(queue[StageOf[w]]), i) => In(queue[StageOf[w]], i)
      BY Zenon, <1>1, <2>1, <2>2, TailOnce DEF TokenInv
    <2>4. \A i : In(queue'["run"], i) => In(queue["run"], i)
      BY <1>1, <2>2, <2>3
    <2>5. HandedAt(w)' => In(queue["run"], wid'[w])
      BY Zenon, <2>2, <2>3 DEF HandedAt, Owns, Carries
    <2>6. QED  BY ZenonT(30), <1>2, <1>3, <2>4, <2>5
  <1>6. CASE HandOver(w)
    <2>1. /\ wpc[w] = "handover" /\ wpc'[w] = "exit" /\ wid' = wid /\ wout'[w] = "ok"
          /\ queue' = [queue EXCEPT ![NextQueue[StageOf[w]]] = Append(@, wid[w])]
      BY Zenon, <1>1, <1>6 DEF HandOver, WorkerAt, Goto, TokenInv
    <2>2. HandedAt(w) /\ ~HandedAt(w)'
      BY Zenon, <1>1, <2>1 DEF HandedAt, Owns, Carries
    <2>3. CASE StageOf[w] = "init"
      <3>1. queue'["run"] = Append(queue["run"], wid[w]) /\ queue["run"] \in Seq(Ids \union {STOP})
        BY Zenon, <1>1, <2>1, <2>3 DEF NextQueue, Stages
      <3>2. \A i : In(Append(queue["run"], wid[w]), i) <=> i = wid[w] \/ In(queue["run"], i)
        BY Zenon, <1>1, <2>1, <3>1, AppendOnce
      <3>3. \A i : In(queue'["run"], i) <=> i = wid[w] \/ In(queue["run"], i)
        BY Zenon, <3>1, <3>2
      <3>4. QED  BY Zenon, <1>2, <1>3, <2>2, <3>3
    <2>4. CASE StageOf[w] = "run"
      <3>1. queue'["run"] = queue["run"]
        BY Zenon, <1>1, <2>1, <2>4 DEF NextQueue, Stages
      <3>2. QED  BY Zenon, <1>2, <1>3, <2>2, <3>1
    <2>5. QED  BY Zenon, <1>1, <2>1, <2>3, <2>4
  <1>7. QED  BY Zenon, <1>5, <1>6

LEMMA FetchedWorker ==
  ASSUME NEW w \in Workers, TypeInv, WorkerStep(w), NEW c \in Calls, NEW v \in Workers,
         Fetched(v, c)'
  PROVE  \/ Fetched(v, c) /\ wrt'[v] = wrt[v]
         \/ v = w /\ TaskSucceeds(w) /\ StageOf[w] = "init" /\ wcall[w] = c
  <1>1. CASE v # w
    BY Zenon, <1>1, WorkerFrame DEF Fetched
  <1>2. CASE v = w
    <2>1. wpc \in [Workers -> WorkerLocs] /\ wpc'[w] = "resume" /\ StageOf[w] = "init"
      BY Zenon, <1>2 DEF TypeInv, TypeOK, Fetched
    <2>2. TaskSucceeds(w)
      BY ZenonT(30), <2>1 DEF WorkerStep, Dequeue, Lookup, Register, EnterPhase, Arm, TaskFails,
         Resume, HandOver, ExitPhase, Except, Finally, Restart, Goto, WorkerAt
    <2>3. QED  BY Zenon, <1>2, <2>1, <2>2 DEF TaskSucceeds, Fetched
  <1>3. QED  BY Zenon, <1>1, <1>2

(* The init task makes a runtime, whether or not it then returns it.        *)
LEMMA TraceOpen ==
  ASSUME NEW w \in Workers, TypeInv, AnswerInv, TokenInv, StageInv, TraceInv,
         TaskSucceeds(w) \/ TaskFails(w), StageOf[w] = "init",
         NEW c \in Calls, c = wcall[w], OpenRuntime(c)
  PROVE  Traced(c)'
  <1>1. /\ Traced(c) /\ IdOf[c] = wid[w] /\ Internal(w) /\ WorkerStep(w)
        /\ wpc[w] = "await" /\ UNCHANGED wcall
    BY Zenon DEF TraceInv, TaskSucceeds, TaskFails, WorkerAt, AnswerInv, Naming, Internal,
       WorkerStep
  <1>2. At(c, "init")
    BY Zenon, <1>1 DEF At, Carries, Stand
  <1>3. opened[c] = 0
    BY Zenon, <1>2 DEF StageInv, Ahead, Stages
  <1>4. live[c] = {} /\ ~Handed(c) /\ ~RunOver(c) /\ \A v \in Workers : ~Fetched(v, c)
    BY Zenon, <1>1, <1>3 DEF Traced
  <1>5. live'[c] = {1} /\ opened'[c] = 1
    BY <1>3, <1>4 DEF OpenRuntime, TypeInv, TypeOK
  <1>6. ~Resume(w) /\ ~Except(w)
    BY Zenon, <1>1 DEF Resume, Except, WorkerAt
  <1>7. ~RunOver(c)'
    BY Zenon, <1>1, <1>4, <1>6, WorkerJob DEF RunOver, Untouched, SameResults
  <1>8. ~Handed(c)'
    BY Zenon, <1>1, <1>4, <1>6, HandedInternal
  <1>9. \A v \in Workers : Fetched(v, c)' => live'[c] \subseteq {wrt'[v]} /\ opened'[c] # 0
    <2>1. TaskSucceeds(w) => wrt'[w] = 1
      BY <1>3 DEF TaskSucceeds, TypeInv, TypeOK
    <2>2. opened'[c] # 0
      BY <1>5
    <2>3. \A v \in Workers : Fetched(v, c)' => v = w /\ TaskSucceeds(w)
      BY Zenon, <1>1, <1>4, FetchedWorker
    <2>4. QED  BY Zenon, <1>5, <2>1, <2>2, <2>3
  <1>10. 0 \notin live'[c] /\ opened'[c] # 0
    BY <1>5
  <1>11. QED  BY Zenon, <1>7, <1>8, <1>9, <1>10 DEF Traced

(* The job of a worker that stores a result or reports a failure.           *)
LEMMA TraceEnd ==
  ASSUME NEW w \in Workers, TypeInv, AnswerInv, TokenInv, TraceInv,
         Resume(w) \/ Except(w), NEW c \in Calls, c = wcall[w]
  PROVE  Traced(c)'
  <1>1. /\ Traced(c) /\ IdOf[c] = wid[w] /\ Internal(w) /\ WorkerStep(w) /\ Owns(w)
        /\ StageOf[w] \in Stages /\ opened' = opened
    BY Zenon, ConstantsAssumption DEF TraceInv, Resume, Except, WorkerAt, AnswerInv, Naming,
       Internal, WorkerStep, Owns, Carries
  <1>2. \A v \in Workers : Fetched(v, c)' => Fetched(v, c) /\ wrt'[v] = wrt[v]
    <2>1. ~TaskSucceeds(w)
      BY Zenon DEF TaskSucceeds, Resume, Except, WorkerAt
    <2>2. QED  BY Zenon, <1>1, <2>1, FetchedWorker
  <1>3. CASE StageOf[w] = "run"
    <2>1. Handed(c) /\ opened'[c] # 0
      <3>1. Handed(c)
        BY Zenon, <1>1, <1>3 DEF Handed, HandedAt
      <3>2. QED  BY Zenon, <1>1, <3>1 DEF Traced
    <2>2. live'[c] = {}
      <3>1. live' = CloseOf(c)
        BY Zenon, <1>3 DEF Resume, Except
      <3>2. QED  BY Zenon, <1>1, <2>1, <3>1 DEF Traced, CloseOf, TypeInv, TypeOK
    <2>3. QED  BY Zenon, <1>2, <2>1, <2>2 DEF Traced
  <1>4. CASE StageOf[w] = "init" /\ Resume(w)
    <2>1. Fetched(w, c) /\ live' = live
      BY Zenon, <1>4 DEF Fetched, Resume, WorkerAt
    <2>2. live'[c] \subseteq {wrt[w]} /\ opened'[c] # 0 /\ 0 \notin live'[c]
      BY Zenon, <1>1, <2>1 DEF Traced
    <2>3. job'[c].runtime = wrt[w] /\ (RunOver(c)' => RunOver(c))
      <3>1. job'[c].runtime = wrt[w]
        BY ZenonT(30), <1>4, ResumeJob
      <3>2. /\ job'[c].results = job[c].results
            /\ job'[c].runResults <=> job[c].runResults \/ (c = wcall[w] /\ StageOf[w] = "run")
        BY Zenon, <1>4, ResumeJob
      <3>3. QED  BY Zenon, <1>4, <3>1, <3>2 DEF RunOver
    <2>4. RunOver(c)' => live'[c] = {}
      BY Zenon, <1>1, <2>1, <2>3 DEF Traced
    <2>5. \A v \in Workers : Fetched(v, c)' => live'[c] \subseteq {wrt'[v]}
      BY Zenon, <1>1, <1>2, <2>1 DEF Traced
    <2>6. Handed(c)' => live'[c] \subseteq {job'[c].runtime}
      BY Zenon, <2>2, <2>3
    <2>7. QED  BY Zenon, <2>2, <2>4, <2>5, <2>6 DEF Traced
  <1>5. CASE StageOf[w] # "run" /\ ~(StageOf[w] = "init" /\ Resume(w))
    <2>1. live' = live
      BY Zenon, <1>5 DEF Resume, Except
    <2>2. job'[c].runtime = job[c].runtime /\ (RunOver(c)' => RunOver(c))
      <3>1. CASE Except(w)
        <4>1. /\ job'[c].runtime = job[c].runtime
              /\ job'[c].runResults <=> job[c].runResults
              /\ job'[c].results = StageOf[w] \/ job'[c].results = job[c].results
          BY ZenonT(30), <1>5, <3>1, ExceptJob DEF SameResults
        <4>2. StageOf[w] = "eval" => job[c].runResults
          BY Zenon, <1>1 DEF AnswerInv, RanBeforeEval
        <4>3. QED  BY Zenon, <1>1, <1>5, <4>1, <4>2 DEF RunOver, Stages
      <3>2. CASE Resume(w)
        <4>1. /\ job'[c].runtime = job[c].runtime /\ job'[c].results = job[c].results
              /\ job'[c].runResults <=> job[c].runResults
          BY ZenonT(30), <1>5, <3>2, ResumeJob
        <4>2. QED  BY Zenon, <4>1 DEF RunOver
      <3>3. QED  BY Zenon, <3>1, <3>2
    <2>3. Handed(c)' => Handed(c)
      BY Zenon, <1>1, <1>5, HandedInternal
    <2>4. live'[c] \subseteq live[c] /\ (Handed(c) => live'[c] \subseteq {job'[c].runtime})
      BY Zenon, <1>1, <2>1, <2>2 DEF Traced
    <2>5. QED  BY Zenon, <1>1, <1>2, <2>2, <2>3, <2>4, TracedKept
  <1>6. QED  BY Zenon, <1>3, <1>4, <1>5

LEMMA TraceWorker ==
  ASSUME InjectiveIds, TypeInv, AnswerInv, TokenInv, StageInv, TraceInv,
         NEW w \in Workers, WorkerStep(w)
  PROVE  TraceInv'
  <1> USE DEF serverVars, objectVars, workerVars, clientVars, stopVars
  <1>1. \A v \in Workers : GenOf[v] > starts' => wpc'[v] = "off"
    <2>1. UNCHANGED starts /\ wpc[w] # "off"
      BY ZenonT(30) DEF WorkerStep, Dequeue, Lookup, Register, EnterPhase, Arm, TaskSucceeds,
         TaskFails, Resume, HandOver, ExitPhase, Except, Finally, WorkerAt
    <2>2. QED  BY Zenon, <2>1, WorkerFrame DEF TraceInv
  <1> DEFINE Acts == TaskSucceeds(w) \/ TaskFails(w) \/ Resume(w) \/ Except(w)
  <1>2. Acts => wcall[w] \in Calls /\ IdOf[wcall[w]] = wid[w]
    BY Zenon DEF TaskSucceeds, TaskFails, Resume, Except, WorkerAt, TypeInv, WorkerLocals,
       AnswerInv, Naming
  <1>3. ASSUME NEW c \in Calls,
               ~(TaskSucceeds(w) /\ StageOf[w] = "init" /\ c = wcall[w]),
               live'[c] = live[c], opened'[c] = opened[c],
               Untouched(c), ~(Resume(w) /\ wid[w] = IdOf[c])
        PROVE  Traced(c)'
    <2>1. Traced(c)
      BY Zenon DEF TraceInv
    <2>2. Handed(c)' => Handed(c)
      BY Zenon, <1>3, HandedInternal, HandedQueue DEF WorkerStep, Internal
    <2>3. \A v \in Workers : Fetched(v, c)' => Fetched(v, c) /\ wrt'[v] = wrt[v]
      BY Zenon, <1>3, FetchedWorker
    <2>4. RunOver(c)' => RunOver(c)
      BY Zenon, <1>3 DEF RunOver, Untouched, SameResults
    <2>5. live'[c] \subseteq live[c] /\ (Handed(c) => live'[c] \subseteq {job'[c].runtime})
      BY Zenon, <1>3, <2>1 DEF Traced, Untouched
    <2>6. QED  BY Zenon, <1>3, <2>1, <2>2, <2>3, <2>4, <2>5, TracedKept
  <1>4. ASSUME NEW c \in Calls, ~Acts \/ c # wcall[w] PROVE Traced(c)'
    <2>1. live'[c] = live[c] /\ opened'[c] = opened[c]
      <3>1. CASE Acts
        BY Zenon, <1>2, <1>4, <3>1 DEF TaskSucceeds, TaskFails, Resume, Except, OpenRuntime,
           CloseOf, TypeInv, TypeOK
      <3>2. CASE ~Acts
        BY Zenon, <3>2 DEF WorkerStep, Dequeue, Lookup, Register, EnterPhase, Arm, HandOver,
           ExitPhase, Finally
      <3>3. QED  BY Zenon, <3>1, <3>2
    <2>2. Untouched(c)
      BY Zenon, <1>4, WorkerJob, ResumeJob, ExceptJob
    <2>3. ~(Resume(w) /\ wid[w] = IdOf[c])
      BY <1>2, <1>4 DEF InjectiveIds
    <2>4. QED  BY Zenon, <1>3, <1>4, <2>1, <2>2, <2>3
  <1>5. ASSUME NEW c \in Calls, Acts, c = wcall[w] PROVE Traced(c)'
    <2>1. CASE Resume(w) \/ Except(w)
      BY Zenon, <1>5, <2>1, TraceEnd
    <2>2. CASE (TaskSucceeds(w) \/ TaskFails(w)) /\ StageOf[w] = "init" /\ OpenRuntime(c)
      BY Zenon, <1>5, <2>2, TraceOpen
    <2>3. CASE (TaskSucceeds(w) \/ TaskFails(w)) /\ ~(StageOf[w] = "init" /\ OpenRuntime(c))
      <3>1. /\ UNCHANGED <<live, opened>> /\ ~(TaskSucceeds(w) /\ StageOf[w] = "init")
            /\ ~Resume(w) /\ ~Except(w)
        BY Zenon, <1>5, <2>3 DEF TaskSucceeds, TaskFails, Resume, Except, WorkerAt
      <3>2. QED  BY Zenon, <1>3, <3>1, WorkerJob
    <2>4. QED  BY Zenon, <1>5, <2>1, <2>2, <2>3
  <1>6. QED  BY Zenon, <1>1, <1>4, <1>5 DEF TraceInv

-----------------------------------------------------------------------------
(* Jobs that nobody cancels *)

LEMMA ReclaimInit == Init => ReclaimInv
  <1> SUFFICES ASSUME Init PROVE ReclaimInv
    OBVIOUS
  <1>1. \A w \in Workers : ~Owns(w)
    BY Zenon DEF Init, Owns, Carries
  <1>2. \A c \in Calls : /\ cpc[IdOf[c]] = "idle" /\ ppc[c] = "idle" /\ ~job[c].event
                         /\ live[c] = {} /\ \A s \in Stages : ~Queued(s, IdOf[c])
    BY ConstantsAssumption DEF Init, NewJob, Queued
  <1>3. QED  BY Zenon, <1>1, <1>2 DEF ReclaimInv, Reclaimed, Held, Past

LEMMA ReclaimedKept ==
  ASSUME NEW c \in Calls, Reclaimed(c), Untouched(c), live'[c] = live[c],
         ppc'[c] = ppc[c], cpc'[IdOf[c]] = cpc[IdOf[c]], Held(c)' => Held(c)
  PROVE  Reclaimed(c)'
  <1>1. Early(c)' <=> Early(c)
    BY Zenon DEF Early
  <1>2. Past(c)' => Past(c)
    BY Zenon DEF Past, Untouched
  <1>3. QED  BY Zenon, <1>1, <1>2 DEF Reclaimed, Untouched

LEMMA ReclaimProcess ==
  ASSUME InjectiveIds, TypeInv, AnswerInv, ReclaimInv, NEW c \in Calls, ProcessStep(c)
  PROVE  ReclaimInv'
  <1> USE DEF serverVars, objectVars, workerVars, clientVars, stopVars
  <1>1. /\ UNCHANGED <<wpc, wid, wcall, wout, cpc>>
        /\ \A d \in Calls \ {c} : ppc'[d] = ppc[d]
        /\ details \in [Ids -> Calls \union {NoCall}] /\ IdOf \in [Calls -> Ids]
        /\ live \in [Calls -> SUBSET Nat] /\ job \in [Calls -> JobDetails]
        /\ queue \in [Stages -> Seq(Ids \union {STOP})] /\ ppc \in [Calls -> ClientLocs]
    BY ConstantsAssumption DEF ProcessStep, Admit, Store, Enqueue, Wake, Conclude,
       CleanupTimedOutJob, TypeInv, TypeOK
  <1>2. PICK i \in Ids : i = IdOf[c] /\ (details[i] = NoCall \/ details[i] = c)
    BY <1>1 DEF AnswerInv, Naming, InjectiveIds
  <1>3. \A d \in Calls \ {c} : IdOf[d] \in Ids /\ IdOf[d] # i
    BY Zenon, <1>1, <1>2 DEF InjectiveIds
  <1>4. \A w \in Workers : Owns(w)' <=> Owns(w)
    BY Zenon, <1>1 DEF Owns, Carries
  <1>5. \A d \in Calls : (Held(d)' => Held(d)) \/ (d = c /\ Enqueue(c))
    <2>1. CASE Enqueue(c)
      <3>1. "init" \in Stages /\ queue' = [queue EXCEPT !["init"] = Append(queue["init"], i)]
        BY Zenon, <1>2, <2>1 DEF Enqueue, Stages
      <3>2. \A j : In(Append(queue["init"], i), j) <=> j = i \/ In(queue["init"], j)
        BY Zenon, <1>1, <3>1, AppendOnce
      <3>3. \A s \in Stages : \A d \in Calls \ {c} : In(queue'[s], IdOf[d]) => In(queue[s], IdOf[d])
        BY Zenon, <1>1, <1>3, <3>1, <3>2
      <3>4. \A s \in Stages : \A d \in Calls \ {c} : Queued(s, IdOf[d])' => Queued(s, IdOf[d])
        BY Zenon, <3>3 DEF Queued, In
      <3>5. QED  BY Zenon, <1>1, <1>4, <2>1, <3>4 DEF Held
    <2>2. CASE UNCHANGED queue
      <3>1. \A s \in Stages, d \in Calls : Queued(s, IdOf[d])' <=> Queued(s, IdOf[d])
        BY Zenon, <2>2 DEF Queued
      <3>2. QED  BY Zenon, <1>1, <1>4, <3>1 DEF Held
    <2>3. QED  BY Zenon, <2>1, <2>2 DEF ProcessStep, Admit, Store, Wake, Conclude,
       CleanupTimedOutJob
  <1>6. \A d \in Calls \ {c} : job'[d] = job[d] /\ live'[d] = live[d]
    <2>1. CASE Admit(c) \/ Store(c) \/ Enqueue(c) \/ Wake(c)
      BY Zenon, <2>1 DEF Admit, Store, Enqueue, Wake
    <2>2. CASE Conclude(c)
      BY Zenon, <1>1, <2>2 DEF Conclude, CloseOf
    <2>3. CASE CleanupTimedOutJob(c) /\ details[i] = NoCall
      BY Zenon, <1>2, <2>3 DEF CleanupTimedOutJob
    <2>4. CASE CleanupTimedOutJob(c) /\ details[i] = c
      <3>1. job' = [job EXCEPT ![c] = TimedOut(@)] /\ live' = CloseOf(c)
        BY Zenon, <1>2, <2>4, ConstantsAssumption DEF CleanupTimedOutJob
      <3>2. QED  BY Zenon, <1>1, <3>1 DEF CloseOf
    <2>5. QED  BY Zenon, <1>2, <2>1, <2>2, <2>3, <2>4 DEF ProcessStep
  <1>7. \A d \in Calls \ {c} : IdOf[d] \notin Cancellable => Reclaimed(d)'
    BY Zenon, <1>1, <1>5, <1>6, ReclaimedKept DEF ReclaimInv, Untouched, SameResults
  <1>8. ASSUME IdOf[c] \notin Cancellable PROVE Reclaimed(c)'
    <2>1. Reclaimed(c) /\ cpc'[IdOf[c]] = "idle"
      BY Zenon, <1>1, <1>8 DEF ReclaimInv, Reclaimed
    <2>2. CASE Admit(c) \/ Store(c)
      <3>1. /\ ppc[c] \in {"idle", "admitted"} /\ ppc'[c] \in {"failed", "admitted", "stored"}
            /\ UNCHANGED <<job, live>>
        BY Zenon, <1>1, <2>2 DEF Admit, Store
      <3>2. (Held(c)' => Held(c)) /\ live[c] = {} /\ ~job[c].event /\ ~Held(c)
        BY Zenon, <1>5, <2>1, <2>2, <3>1 DEF Enqueue, Admit, Store, Reclaimed, Early
      <3>3. QED  BY Zenon, <2>1, <3>1, <3>2 DEF Reclaimed
    <2>3. CASE Enqueue(c)
      <3>1. ppc[c] = "stored" /\ ppc'[c] = "waiting" /\ UNCHANGED <<job, live>>
        BY Zenon, <1>1, <2>3 DEF Enqueue
      <3>2. QED  BY Zenon, <2>1, <3>1 DEF Reclaimed, Early, Past
    <2>4. CASE Wake(c) \/ Conclude(c) \/ CleanupTimedOutJob(c)
      <3>1. Past(c) /\ ~Held(c)
        BY Zenon, <2>1, <2>4 DEF Wake, Conclude, CleanupTimedOutJob, Past, Reclaimed
      <3>2. ~Held(c)'
        BY Zenon, <1>5, <2>4, <3>1 DEF Enqueue, Wake, Conclude, CleanupTimedOutJob
      <3>3. ~Early(c)'
        BY Zenon, <1>1, <2>4 DEF Wake, Conclude, CleanupTimedOutJob, Early
      <3>4. live'[c] \subseteq live[c] /\ job'[c].results = job[c].results
        <4>1. CASE Wake(c) \/ Conclude(c)
          <5>1. UNCHANGED job /\ (live' = live \/ live' = CloseOf(c))
            BY Zenon, <4>1 DEF Wake, Conclude
          <5>2. live'[c] = live[c] \/ live'[c] = live[c] \ {job[c].runtime}
            BY Zenon, <1>1, <5>1 DEF CloseOf
          <5>3. QED  BY Zenon, <5>1, <5>2
        <4>2. CASE CleanupTimedOutJob(c)
          BY Zenon, <4>2, SignalJob
        <4>3. QED  BY Zenon, <2>4, <4>1, <4>2
      <3>5. live'[c] = {} \/ job'[c].results = "init"
        BY Zenon, <2>1, <3>1, <3>4 DEF Reclaimed
      <3>6. QED  BY Zenon, <2>1, <3>2, <3>3, <3>5 DEF Reclaimed
    <2>5. QED  BY Zenon, <2>2, <2>3, <2>4 DEF ProcessStep
  <1>9. QED  BY Zenon, <1>7, <1>8 DEF ReclaimInv

(* start() and cancel_job() of other ids.                                   *)
LEMMA CancelOthers ==
  ASSUME TypeInv, AnswerInv, ReclaimInv, NEW i \in Ids, CancelStep(i),
         NEW c \in Calls, IdOf[c] \notin Cancellable
  PROVE  job'[c] = job[c] /\ live'[c] = live[c] /\ cpc'[IdOf[c]] = cpc[IdOf[c]]
  <1> USE DEF serverVars, objectVars
  <1>1. /\ details \in [Ids -> Calls \union {NoCall}] /\ IdOf[c] \in Ids /\ c # NoCall
        /\ live \in [Calls -> SUBSET Nat] /\ job \in [Calls -> JobDetails]
        /\ cpc \in [Ids -> {"idle", "checked", "removed"}]
    BY Zenon, ConstantsAssumption DEF TypeInv, TypeOK
  <1>2. cpc[IdOf[c]] = "idle"
    BY Zenon DEF ReclaimInv, Reclaimed
  <1>3. IdOf[c] # i
    BY Zenon, <1>2 DEF CancelStep, CancelCheck, CancelRemove, CancelMark
  <1>4. CASE CancelCheck(i) \/ CancelMark(i)
    BY Zenon, <1>1, <1>3, <1>4 DEF CancelCheck, CancelMark
  <1>5. CASE CancelRemove(i) /\ details[i] = NoCall
    BY Zenon, <1>1, <1>3, <1>5 DEF CancelRemove
  <1>6. CASE CancelRemove(i) /\ details[i] # NoCall
    <2>1. PICK d \in Calls : d = details[i] /\ d # c
      BY ZenonT(30), <1>1, <1>3, <1>6 DEF AnswerInv, Naming
    <2>2. /\ job' = [job EXCEPT ![d] = [TimedOut(@) EXCEPT
                                          !.runtime = 0, !.cancelled = TaskPending(d)]]
          /\ live' = CloseOf(d) /\ cpc' = [cpc EXCEPT ![i] = "removed"]
      BY Zenon, <1>6, <2>1 DEF CancelRemove
    <2>3. QED  BY Zenon, <1>1, <1>3, <2>1, <2>2 DEF CloseOf
  <1>7. QED  BY Zenon, <1>4, <1>5, <1>6 DEF CancelStep

LEMMA ReclaimOutside ==
  ASSUME TypeInv, AnswerInv, TraceInv, ReclaimInv, Start \/ \E i \in Ids : CancelStep(i)
  PROVE  ReclaimInv'
  <1> USE DEF serverVars, objectVars, workerVars, clientVars, stopVars
  <1>1. UNCHANGED <<queue, wid, wout, ppc>>
    BY ZenonT(40) DEF Start, CancelStep, CancelCheck, CancelRemove, CancelMark
  <1>2. \A w \in Workers : wpc'[w] = wpc[w] \/ wpc'[w] = "get"
    <2>1. CASE Start
      BY Zenon, <2>1 DEF Start
    <2>2. CASE UNCHANGED wpc
      BY Zenon, <2>2
    <2>3. QED  BY Zenon, <2>1, <2>2 DEF CancelStep, CancelCheck, CancelRemove, CancelMark
  <1>3. /\ \A w \in Workers : Owns(w)' => Owns(w)
        /\ \A s \in Stages, c \in Calls : Queued(s, IdOf[c])' <=> Queued(s, IdOf[c])
    BY Zenon, <1>1, <1>2 DEF Owns, Carries, Queued
  <1>4. \A c \in Calls : Held(c)' => Held(c)
    BY Zenon, <1>1, <1>3 DEF Held
  <1>5. \A c \in Calls : IdOf[c] \notin Cancellable =>
          job'[c] = job[c] /\ live'[c] = live[c] /\ cpc'[IdOf[c]] = cpc[IdOf[c]]
    BY Zenon, CancelOthers DEF Start
  <1>6. QED  BY Zenon, <1>1, <1>4, <1>5, ReclaimedKept DEF ReclaimInv, Untouched, SameResults

(* A worker step passes a job on or drops it.                               *)
LEMMA HeldKept ==
  ASSUME NEW w \in Workers, TypeInv, TokenInv, WorkerStep(w), NEW c \in Calls, Held(c)'
  PROVE  Held(c)
  <1>1. /\ queue \in [Stages -> Seq(Ids \union {STOP})] /\ StageOf[w] \in Stages
        /\ wpc \in [Workers -> WorkerLocs] /\ wid \in [Workers -> Ids \union {STOP}]
        /\ wpc[w] = "handover" => wid[w] \in Ids /\ StageOf[w] \in {"init", "run"}
    BY Zenon, ConstantsAssumption DEF TypeInv, TypeOK, WorkerLocals
  <1>2. \A v \in Workers \ {w} : (Owns(v)' <=> Owns(v)) /\ wid'[v] = wid[v]
    <2>1. \A v \in Workers \ {w} : wpc'[v] = wpc[v] /\ wid'[v] = wid[v] /\ wout'[v] = wout[v]
      BY Zenon, WorkerFrame
    <2>2. QED  BY Zenon, <2>1 DEF Owns, Carries
  <1>3. (\E s \in Stages : In(queue'[s],
     IdOf[c])) \/ \E v \in Workers : Owns(v)' /\ wid'[v] = IdOf[c]
    BY Zenon DEF Held, Queued, In
  <1>4. SUFFICES (\E s \in Stages : In(queue[s],
     IdOf[c])) \/ \E v \in Workers : Owns(v) /\ wid[v] = IdOf[c]
    BY Zenon DEF Held, Queued, In
  <1>5. CASE Internal(w)
    BY Zenon, <1>2, <1>3, <1>5, OwnerMoves
  <1>6. CASE Dequeue(w)
    <2>0. PICK s \in Stages : s = StageOf[w]
      BY Zenon, <1>1
    <2>1. PICK h : s = StageOf[w] /\ h = Head(queue[s])
      BY Zenon, <2>0
    <2>2. /\ queue' = [queue EXCEPT ![s] = Tail(queue[s])] /\ queue[s] # <<>>
          /\ wpc'[w] = "off" \/ (wpc'[w] = "lookup" /\ wid'[w] = h)
      BY Zenon, <1>1, <1>6, <2>1 DEF Dequeue, Goto
    <2>3. In(queue[s], h) /\ \A i : In(Tail(queue[s]), i) => In(queue[s], i)
      BY ZenonT(30), <1>1, <2>1, <2>2, TailOnce DEF TokenInv
    <2>4. \A t \in Stages : \A i : In(queue'[t], i) => In(queue[t], i)
      BY Zenon, <1>1, <2>2, <2>3
    <2>5. Owns(w)' => wid'[w] = h
      BY Zenon, <2>2 DEF Owns, Carries
    <2>6. QED  BY ZenonT(30), <1>2, <1>3, <2>3, <2>4, <2>5
  <1>7. CASE HandOver(w)
    <2>1. PICK n \in Stages : n = NextQueue[StageOf[w]]
      BY Zenon, <1>1, <1>7 DEF HandOver, WorkerAt, NextQueue, Stages
    <2>2. /\ queue' = [queue EXCEPT ![n] = Append(queue[n], wid[w])] /\ wid' = wid
          /\ Owns(w) /\ wid[w] \in Ids
      BY ZenonT(30), <1>1, <1>7, <2>1 DEF HandOver, WorkerAt, Owns, Carries
    <2>3. \A i : In(Append(queue[n], wid[w]), i) <=> i = wid[w] \/ In(queue[n], i)
      BY Zenon, <1>1, <2>2, AppendOnce
    <2>4. \A t \in Stages : \A i : In(queue'[t], i) => i = wid[w] \/ In(queue[t], i)
      BY Zenon, <1>1, <2>2, <2>3
    <2>5. QED  BY ZenonT(30), <1>2, <1>3, <2>2, <2>4
  <1>8. QED  BY ZenonT(30), <1>5, <1>6, <1>7 DEF WorkerStep, Internal

(* The job of the worker that steps is signalled when the worker is done    *)
(* with it.                                                                 *)
LEMMA ReclaimedByOwner ==
  ASSUME NEW w \in Workers, TypeInv, TokenInv, Internal(w), Owns(w),
         NEW c \in Calls, IdOf[c] = wid[w], Reclaimed(c),
         UNCHANGED <<ppc, cpc>>,
         Owns(w)' => (job'[c].event <=> job[c].event),
         job'[c].event => live'[c] = {} \/ job'[c].results = "init"
  PROVE  Reclaimed(c)'
  <1>1. Held(c) /\ ppc[c] = "waiting" /\ ~job[c].event
    BY Zenon DEF Held, Reclaimed
  <1>2. Held(c)' => Owns(w)'
    <2>1. \A v \in Workers \ {w} : (Owns(v)' <=> Owns(v)) /\ wid'[v] = wid[v]
      <3>1. \A v \in Workers \ {w} : wpc'[v] = wpc[v] /\ wid'[v] = wid[v] /\ wout'[v] = wout[v]
        BY Zenon, WorkerFrame DEF Internal, WorkerStep
      <3>2. QED  BY Zenon, <3>1 DEF Owns, Carries
    <2>2. \A s \in Stages : ~Queued(s, IdOf[c])'
      <3>1. \A s \in Stages : ~Queued(s, IdOf[c])
        BY Zenon DEF TokenInv
      <3>2. queue' = queue
        BY Zenon, OwnerMoves
      <3>3. QED  BY Zenon, <3>1, <3>2 DEF Queued
    <2>3. QED  BY Zenon, <2>1, <2>2 DEF Held, TokenInv
  <1>3. QED  BY Zenon, <1>1, <1>2 DEF Reclaimed, Early, Past

LEMMA ReclaimWorker ==
  ASSUME InjectiveIds, TypeInv, AnswerInv, TokenInv, TraceInv', ReclaimInv,
         NEW w \in Workers, WorkerStep(w)
  PROVE  ReclaimInv'
  <1> USE DEF serverVars, objectVars, workerVars, clientVars, stopVars
  <1> DEFINE Acts == TaskSucceeds(w) \/ TaskFails(w) \/ Resume(w) \/ Except(w)
  <1>1. /\ UNCHANGED <<ppc, cpc>> /\ wpc \in [Workers -> WorkerLocs] /\ StageOf[w] \in Stages
    BY ZenonT(30), ConstantsAssumption DEF WorkerStep, Dequeue, Lookup, Register, EnterPhase, Arm,
       TaskSucceeds, TaskFails, Resume, HandOver, ExitPhase, Except, Finally, TypeInv, TypeOK
  <1>2. Acts => /\ wcall[w] \in Calls /\ IdOf[wcall[w]] = wid[w] /\ Owns(w) /\ Internal(w)
    BY Zenon DEF TaskSucceeds, TaskFails, Resume, Except, WorkerAt, TypeInv, WorkerLocals,
       AnswerInv, Naming, Owns, Carries, Internal
  <1>3. ASSUME NEW c \in Calls, IdOf[c] \notin Cancellable, ~Acts \/ c # wcall[w]
        PROVE  Reclaimed(c)'
    <2>1. live'[c] = live[c]
      <3>1. CASE Acts
        BY Zenon, <1>2, <1>3, <3>1 DEF TaskSucceeds, TaskFails, Resume, Except, OpenRuntime,
           CloseOf, TypeInv, TypeOK
      <3>2. CASE ~Acts
        BY Zenon, <3>2 DEF WorkerStep, Dequeue, Lookup, Register, EnterPhase, Arm, HandOver,
           ExitPhase, Finally
      <3>3. QED  BY Zenon, <3>1, <3>2
    <2>2. Untouched(c)
      BY Zenon, <1>3, WorkerJob, ResumeJob, ExceptJob
    <2>3. QED  BY Zenon, <1>1, <1>3, <2>1, <2>2, HeldKept, ReclaimedKept DEF ReclaimInv
  <1>4. ASSUME NEW c \in Calls, IdOf[c] \notin Cancellable, Acts, c = wcall[w]
        PROVE  Reclaimed(c)'
    <2>1. /\ Reclaimed(c) /\ ~job[c].event /\ (RunOver(c)' => live'[c] = {})
          /\ IdOf[c] = wid[w] /\ Owns(w) /\ Internal(w)
      BY Zenon, <1>2, <1>4 DEF ReclaimInv, Reclaimed, Held, TraceInv, Traced
    <2>2. CASE TaskSucceeds(w) \/ TaskFails(w)
      <3>1. ~Resume(w) /\ ~Except(w)
        BY Zenon, <2>2 DEF TaskSucceeds, TaskFails, Resume, Except, WorkerAt
      <3>2. job'[c].event <=> job[c].event
        BY Zenon, <3>1, WorkerJob DEF Untouched
      <3>3. QED  BY Zenon, <1>1, <2>1, <3>2, ReclaimedByOwner
    <2>3. CASE Except(w)
      <3>1. ~Owns(w)'
        BY Zenon, <1>1, <2>3 DEF Except, Goto, Owns, Carries
      <3>2. job'[c].event => job'[c].results = StageOf[w]
        BY Zenon, <1>4, <2>1, <2>3, ExceptJob
      <3>3. job'[c].event => live'[c] = {} \/ job'[c].results = "init"
        BY Zenon, <1>1, <2>1, <3>2 DEF RunOver, Stages
      <3>4. QED  BY Zenon, <1>1, <2>1, <3>1, <3>3, ReclaimedByOwner
    <2>4. CASE Resume(w) /\ StageOf[w] = "eval"
      <3>1. ~Owns(w)'
        <4>1. wpc'[w] = "exit" /\ wout'[w] = "ok"
          BY Zenon, <1>1, <2>4 DEF Resume, Goto, WorkerAt, TokenInv
        <4>2. QED  BY Zenon, <4>1 DEF Owns, Carries
      <3>2. job[c].runResults
        BY Zenon, <2>1, <2>4 DEF AnswerInv, RanBeforeEval
      <3>3. RunOver(c)'
        BY Zenon, <2>4, <3>2, ResumeJob DEF RunOver
      <3>4. QED  BY Zenon, <1>1, <2>1, <3>1, <3>3, ReclaimedByOwner
    <2>5. CASE Resume(w) /\ StageOf[w] # "eval"
      <3>1. job'[c].event <=> job[c].event
        BY Zenon, <2>5, ResumeJob
      <3>2. QED  BY Zenon, <1>1, <2>1, <3>1, ReclaimedByOwner
    <2>6. QED  BY Zenon, <1>4, <2>2, <2>3, <2>4, <2>5
  <1>5. QED  BY Zenon, <1>3, <1>4 DEF ReclaimInv

LEMMA ReclaimStep ==
  ASSUME InjectiveIds, ~StopAllowed, TypeInv, AnswerInv, TokenInv, StageInv, OpenInv, TraceInv,
         ReclaimInv, [Next]_vars
  PROVE  TraceInv' /\ ReclaimInv'
  <1>1. ~StopStep
    BY Zenon DEF StopStep, StopBegin, StopSignal, StopSentinels, StopClearState, StopClearDetails,
       StopClearQueues, OpenInv
  <1>2. TraceInv'
    BY Zenon, <1>1, TraceOutside, TraceWorker
  <1>3. CASE UNCHANGED vars
    <2>1. UNCHANGED <<queue, wpc, wid, wout, ppc, cpc, job, live>>
      BY Zenon, <1>3 DEF vars, serverVars, objectVars, workerVars, clientVars
    <2>2. \A c \in Calls : Held(c)' => Held(c)
      BY Zenon, <2>1 DEF Held, Queued, Owns, Carries
    <2>3. \A c \in Calls : Untouched(c) /\ live'[c] = live[c] /\ ppc'[c] = ppc[c]
                            /\ cpc'[IdOf[c]] = cpc[IdOf[c]]
      BY Zenon, <2>1 DEF Untouched, SameResults
    <2>4. QED  BY Zenon, <1>2, <2>2, <2>3, ReclaimedKept DEF ReclaimInv
  <1>4. CASE \E w \in Workers : WorkerStep(w)
    BY Zenon, <1>2, <1>4, ReclaimWorker
  <1>5. CASE Start \/ \E i \in Ids : CancelStep(i)
    BY Zenon, <1>2, <1>5, ReclaimOutside
  <1>6. CASE \E c \in Calls : ProcessStep(c)
    BY Zenon, <1>2, <1>6, ReclaimProcess
  <1>7. QED  BY Zenon, <1>1, <1>3, <1>4, <1>5, <1>6 DEF Next

LEMMA Reclaims == ASSUME TraceInv, ReclaimInv PROVE RuntimeReclaimed
  BY Zenon DEF TraceInv, Traced, ReclaimInv, Reclaimed, Past, RuntimeReclaimed, Abandoned

-----------------------------------------------------------------------------
LEMMA RuntimeInvAlways ==
  ASSUME InjectiveIds, ~StopAllowed
  PROVE  Spec => [](TypeInv /\ JobInv /\ OpenInv /\ TraceInv /\ ReclaimInv)
  <1>1. Init => OpenInv /\ TraceInv /\ ReclaimInv
    BY Zenon, OpenInit, TraceInit, ReclaimInit
  <1>2. TypeInv /\ JobInv /\ OpenInv /\ TraceInv /\ ReclaimInv /\ [Next]_vars
          => OpenInv' /\ TraceInv' /\ ReclaimInv'
    BY Zenon, OpenStep, ReclaimStep DEF JobInv
  <1>3. QED  BY <1>1, <1>2, JobInvAlways, PTL DEF Spec

(* While nobody calls stop(), the task of a run that somebody waits for     *)
(* works on a runtime that is open.                                         *)
THEOREM RunsOnOpenRuntime ==
  ASSUME InjectiveIds, ~StopAllowed PROVE Spec => []RunOnLiveRuntime
  <1>1. TypeInv /\ JobInv /\ OpenInv => RunOnLiveRuntime
    BY Zenon, OpenRuns DEF JobInv
  <1>2. QED  BY <1>1, RuntimeInvAlways, PTL

(* While nobody calls stop(), no job, cancelled or not, has an open runtime *)
(* once its run is over; and a job that is not cancelled leaves one behind  *)
(* only when its init failed, however its other stages and its handlers     *)
(* fail and whether process() returns or raises.                            *)
THEOREM RuntimesAreReclaimed ==
  ASSUME InjectiveIds, ~StopAllowed PROVE Spec => []RuntimeReclaimed
  <1>1. TraceInv /\ ReclaimInv => RuntimeReclaimed
    BY Zenon, Reclaims
  <1>2. QED  BY <1>1, RuntimeInvAlways, PTL
=============================================================================
