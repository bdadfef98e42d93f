------------------------- MODULE ThreadServerProofs -------------------------
(***************************************************************************)
(* Theorems about ThreadServer, for any number of calls, ids, workers and  *)
(* starts, with cancel_job(), stop() and failing handlers allowed.         *)
(***************************************************************************)
EXTENDS ThreadServer, TLAPS

(* A worker past queue.get() holds a job id, one past the look-up holds a   *)
(* JobDetails object, and an eval worker has no queue to hand a job on to.  *)
WorkerLocals ==
  \A w \in Workers :
    /\ wpc[w] \notin {"off", "get"} => wid[w] \in Ids
    /\ wpc[w] \notin {"off", "get", "lookup"} => wcall[w] \in Calls
    /\ wpc[w] = "handover" => StageOf[w] \in {"init", "run"}

TypeInv == TypeOK /\ WorkerLocals

-----------------------------------------------------------------------------
(* Putting an id on a queue.                                                *)
LEMMA QueuePutType ==
  ASSUME NEW q \in [Stages -> Seq(Ids \union {STOP})], NEW s \in Stages, NEW i \in Ids
  PROVE  [q EXCEPT ![s] = Append(@, i)] \in [Stages -> Seq(Ids \union {STOP})]
<1>1. Append(q[s], i) \in Seq(Ids \union {STOP})
  OBVIOUS
<1>. QED  BY <1>1

(* The updates of a JobDetails object keep its type.                        *)

LEMMA NewJobType == NewJob \in JobDetails
  BY DEF NewJob, JobDetails, Stages

LEMMA TimedOutType == ASSUME NEW j \in JobDetails PROVE TimedOut(j) \in JobDetails
  BY Zenon DEF TimedOut, JobDetails

LEMMA StoredType ==
  ASSUME NEW j \in JobDetails, NEW s \in Stages, NEW rt \in Nat
  PROVE Stored(j, s, rt) \in JobDetails
  BY Zenon DEF Stored, JobDetails, Stages

LEMMA ReportedType ==
  ASSUME NEW j \in JobDetails, NEW s \in Stages PROVE Reported(j, s) \in JobDetails
  BY Zenon DEF Reported, JobDetails, Stages

LEMMA FailedType ==
  ASSUME NEW j \in JobDetails, NEW s, NEW timedOut PROVE Failed(j, s, timedOut) \in JobDetails
  BY ZenonT(30) DEF Failed, JobDetails

LEMMA PhaseType ==
  ASSUME NEW j \in JobDetails, NEW p \in Stages \union {"others"}
  PROVE [j EXCEPT !.phase = p] \in JobDetails
  BY DEF JobDetails

LEMMA TaskType ==
  ASSUME NEW j \in JobDetails, NEW t \in Workers \union {NoWorker}
  PROVE [j EXCEPT !.task = t, !.cancelled = FALSE] \in JobDetails
  BY Zenon DEF JobDetails

LEMMA DropRuntimeType ==
  ASSUME NEW j \in JobDetails, NEW b \in BOOLEAN
  PROVE /\ [j EXCEPT !.runtime = 0] \in JobDetails
        /\ [j EXCEPT !.runtime = 0, !.cancelled = b] \in JobDetails
  BY Zenon DEF JobDetails

LEMMA FinalResultType ==
  ASSUME NEW c \in Calls, job[c] \in JobDetails PROVE FinalResult(c) \in Answers
  BY DEF FinalResult, Answers, JobDetails

LEMMA CloseOfType ==
  ASSUME live \in [Calls -> SUBSET Nat], NEW c \in Calls
  PROVE CloseOf(c) \in [Calls -> SUBSET Nat]
  BY DEF CloseOf

-----------------------------------------------------------------------------
LEMMA OpenRuntimeType ==
  ASSUME live \in [Calls -> SUBSET Nat], opened \in [Calls -> Nat], NEW c \in Calls,
         OpenRuntime(c)
  PROVE  opened' \in [Calls -> Nat] /\ live' \in [Calls -> SUBSET Nat]
  <1>1. opened[c] + 1 \in Nat
    OBVIOUS
  <1>2. live[c] \union {opened[c] + 1} \in SUBSET Nat
    BY Zenon, <1>1
  <1>3. QED  BY Zenon, <1>1, <1>2 DEF OpenRuntime

LEMMA TypeInvInit == Init => TypeInv
<1> SUFFICES ASSUME Init PROVE TypeInv
  OBVIOUS
<1>1. job \in [Calls -> JobDetails]
  BY NewJobType DEF Init
<1>2. running \in BOOLEAN
  BY Zenon DEF Init
<1>8. starts \in 0..MaxStarts
  <2>1. MaxStarts \in Nat
    BY ConstantsAssumption
  <2>. QED  BY <2>1 DEF Init
<1>3. queue \in [Stages -> Seq(Ids \union {STOP})]
  BY DEF Init
<1>4. /\ details \in [Ids -> Calls \union {NoCall}]
      /\ active \in [Stages -> SUBSET Ids] /\ discarded \subseteq Ids
      /\ live \in [Calls -> SUBSET Nat] /\ spared \in [Calls -> SUBSET Nat]
      /\ opened \in [Calls -> Nat]
  BY DEF Init
<1>5. /\ wpc \in [Workers -> WorkerLocs] /\ wid \in [Workers -> Ids \union {STOP}]
      /\ wcall \in [Workers -> Calls \union {NoCall}]
      /\ wrt \in [Workers -> Nat] /\ wout \in [Workers -> Outcomes]
  BY DEF Init, WorkerLocs, Outcomes
<1>6. /\ ppc \in [Calls -> ClientLocs] /\ answer \in [Calls -> Answers]
      /\ cpc \in [Ids -> {"idle", "checked", "removed"}]
      /\ spc \in {"idle", "signal", "clearState", "clearDetails", "clearQueues"}
      /\ toSignal \subseteq Ids
  BY Zenon DEF Init, ClientLocs, Answers
<1>7. WorkerLocals
  BY Zenon DEF Init, WorkerLocals
<1>. QED  BY Zenon, <1>1, <1>2, <1>3, <1>4, <1>5, <1>6, <1>7, <1>8 DEF TypeInv, TypeOK

LEMMA TypeInvStart == TypeInv /\ Start => TypeInv'
  BY ConstantsAssumption
  DEF TypeInv, TypeOK, WorkerLocals, Start, WorkerLocs, clientVars, stopVars

LEMMA TypeInvProcess ==
  ASSUME NEW c \in Calls, TypeInv, ProcessStep(c) PROVE TypeInv'
<1> USE DEF serverVars, objectVars, workerVars, clientVars, stopVars
<1>1. /\ job \in [Calls -> JobDetails] /\ details \in [Ids -> Calls \union {NoCall}]
      /\ ppc \in [Calls -> ClientLocs] /\ answer \in [Calls -> Answers]
      /\ live \in [Calls -> SUBSET Nat] /\ active \in [Stages -> SUBSET Ids]
      /\ queue \in [Stages -> Seq(Ids \union {STOP})]
  BY Zenon DEF TypeInv, TypeOK
<1>2. IdOf[c] \in Ids
  BY Zenon, ConstantsAssumption
<1>3. CASE Admit(c)
  BY Zenon, <1>3 DEF Admit, ClientLocs, TypeInv, TypeOK, WorkerLocals
<1>4. CASE Store(c)
  BY Zenon, <1>2, <1>4 DEF Store, ClientLocs, TypeInv, TypeOK, WorkerLocals
<1>5. CASE Enqueue(c)
  <2>1. queue' \in [Stages -> Seq(Ids \union {STOP})]
    <3>1. queue' = [queue EXCEPT !["init"] = Append(@, IdOf[c])]
      BY Zenon, <1>5 DEF Enqueue
    <3>2. "init" \in Stages
      BY Zenon DEF Stages
    <3>. QED  BY Zenon, <1>1, <1>2, <3>1, <3>2, QueuePutType
  <2>2. ppc' \in [Calls -> ClientLocs]
    BY Zenon, <1>1, <1>5 DEF Enqueue, ClientLocs
  <2>. QED  BY Zenon, <1>5, <2>1, <2>2 DEF Enqueue, TypeInv, TypeOK, WorkerLocals
<1>6. CASE Wake(c)
  <2>1. FinalResult(c) \in Answers
    BY Zenon, <1>1, FinalResultType
  <2>2. answer' \in [Calls -> Answers] /\ ppc' \in [Calls -> ClientLocs]
    <3>1. answer' = [answer EXCEPT ![c] = FinalResult(c)] \/ answer' = answer
      BY Zenon, <1>6 DEF Wake
    <3>2. ppc' = [ppc EXCEPT ![c] = "woken"] \/ ppc' = [ppc EXCEPT ![c] = "failed"]
      BY Zenon, <1>6 DEF Wake
    <3>. QED  BY ZenonT(30), <1>1, <2>1, <3>1, <3>2 DEF ClientLocs
  <2>. QED  BY Zenon, <1>6, <2>2 DEF Wake, TypeInv, TypeOK, WorkerLocals
<1>7. CASE Conclude(c)
  BY Zenon, <1>2, <1>7, CloseOfType DEF Conclude, ClientLocs, TypeInv, TypeOK, WorkerLocals
<1>8. CASE CleanupTimedOutJob(c)
  <2>1. ppc' \in [Calls -> ClientLocs]
    BY Zenon, <1>1, <1>8 DEF CleanupTimedOutJob, ClientLocs
  <2>2. CASE details[IdOf[c]] = NoCall
    BY Zenon, <1>8, <2>1, <2>2 DEF CleanupTimedOutJob, TypeInv, TypeOK, WorkerLocals
  <2>3. CASE details[IdOf[c]] # NoCall
    <3> DEFINE d == details[IdOf[c]]
    <3>1. d \in Calls
      BY Zenon, <1>1, <1>2, <2>3
    <3>2. TimedOut(job[d]) \in JobDetails
      BY Zenon, <1>1, <3>1, TimedOutType
    <3>3. job' = [job EXCEPT ![d] = TimedOut(job[d])]
      BY Zenon, <1>1, <1>8, <2>3, <3>1 DEF CleanupTimedOutJob
    <3>4. job' \in [Calls -> JobDetails]
      BY Zenon, <1>1, <3>1, <3>2, <3>3
    <3>5. live' \in [Calls -> SUBSET Nat]
      BY <1>1, <1>8, <2>3, <3>1, CloseOfType DEF CleanupTimedOutJob
    <3>6. active' \in [Stages -> SUBSET Ids] /\ details' \in [Ids -> Calls \union {NoCall}]
      BY <1>1, <1>2, <1>8, <2>3 DEF CleanupTimedOutJob, Stages
    <3>. QED  BY Zenon, <1>8, <2>1, <3>4, <3>5, <3>6
              DEF CleanupTimedOutJob, TypeInv, TypeOK, WorkerLocals
  <2>. QED  BY Zenon, <2>2, <2>3
<1>. QED  BY Zenon, <1>3, <1>4, <1>5, <1>6, <1>7, <1>8 DEF ProcessStep

LEMMA RestartType ==
  ASSUME NEW w \in Workers, NEW loc \in {"off", "get"}, TypeInv, Restart(w, loc)
  PROVE /\ wpc' \in [Workers -> WorkerLocs] /\ wid' \in [Workers -> Ids \union {STOP}]
        /\ wcall' \in [Workers -> Calls \union {NoCall}]
        /\ wrt' \in [Workers -> Nat] /\ wout' \in [Workers -> Outcomes]
        /\ WorkerLocals'
  BY Zenon DEF Restart, Goto, TypeInv, TypeOK, WorkerLocals, WorkerLocs, Outcomes

LEMMA MoveType ==
  ASSUME NEW w \in Workers, NEW loc \in WorkerLocs, TypeInv, Goto(w, loc),
         wpc[w] \notin {"off", "get", "lookup"}, wid' = wid, wcall' = wcall,
         loc = "handover" => StageOf[w] \in {"init", "run"}
  PROVE wpc' \in [Workers -> WorkerLocs] /\ WorkerLocals'
<1>1. wpc' \in [Workers -> WorkerLocs]
  BY Zenon DEF Goto, TypeInv, TypeOK
<1>2. \A v \in Workers \ {w} : wpc'[v] = wpc[v]
  BY Zenon DEF Goto, TypeInv, TypeOK
<1>3. wpc'[w] = loc
  BY Zenon DEF Goto, TypeInv, TypeOK
<1>. QED  BY Zenon, <1>1, <1>2, <1>3 DEF TypeInv, WorkerLocals

LEMMA TypeInvWorker ==
  ASSUME NEW w \in Workers, TypeInv, WorkerStep(w) PROVE TypeInv'
<1> USE DEF serverVars, objectVars, clientVars, stopVars, WorkerAt, Goto
<1>1. /\ job \in [Calls -> JobDetails] /\ details \in [Ids -> Calls \union {NoCall}]
      /\ live \in [Calls -> SUBSET Nat] /\ active \in [Stages -> SUBSET Ids]
      /\ queue \in [Stages -> Seq(Ids \union {STOP})] /\ wrt \in [Workers -> Nat]
  BY Zenon DEF TypeInv, TypeOK
<1>2. /\ wpc[w] \notin {"off", "get"} => wid[w] \in Ids
      /\ wpc[w] \notin {"off", "get", "lookup"} => wcall[w] \in Calls
      /\ wpc[w] = "handover" => StageOf[w] \in {"init", "run"}
  BY Zenon DEF TypeInv, WorkerLocals
<1>3. StageOf[w] \in Stages
  BY Zenon, ConstantsAssumption
<1>4. CASE Dequeue(w)
  <2>1. /\ Head(queue[StageOf[w]]) \in Ids \union {STOP}
        /\ queue' \in [Stages -> Seq(Ids \union {STOP})]
    BY <1>1, <1>3, <1>4 DEF Dequeue
  <2>2. wpc' \in [Workers -> WorkerLocs] /\ wid' \in [Workers -> Ids \union {STOP}]
    BY ZenonT(30), <1>4, <2>1 DEF Dequeue, TypeInv, TypeOK, WorkerLocs
  <2>3. \A v \in Workers \ {w} : wpc'[v] = wpc[v] /\ wid'[v] = wid[v]
    BY Zenon, <1>4 DEF Dequeue, TypeInv, TypeOK
  <2>4. wpc'[w] = "off" \/ (wpc'[w] = "lookup" /\ wid'[w] \in Ids)
    BY Zenon, <1>4, <2>1 DEF Dequeue, TypeInv, TypeOK
  <2>5. WorkerLocals'
    BY Zenon, <1>4, <2>3, <2>4 DEF Dequeue, TypeInv, WorkerLocals
  <2>. QED  BY Zenon, <1>4, <2>1, <2>2, <2>5 DEF Dequeue, TypeInv, TypeOK
<1>5. CASE Lookup(w)
  <2>1. CASE details[wid[w]] = NoCall
    <3>1. Restart(w, "get")
      BY Zenon, <1>5, <2>1 DEF Lookup
    <3>2. UNCHANGED <<serverVars, objectVars, clientVars, cpc, stopVars>>
      BY Zenon, <1>5 DEF Lookup
    <3>3. /\ wpc' \in [Workers -> WorkerLocs] /\ wid' \in [Workers -> Ids \union {STOP}]
          /\ wcall' \in [Workers -> Calls \union {NoCall}]
          /\ wrt' \in [Workers -> Nat] /\ wout' \in [Workers -> Outcomes]
          /\ WorkerLocals'
      BY Zenon, <3>1, RestartType
    <3>. QED  BY Zenon, <3>2, <3>3 DEF TypeInv, TypeOK
  <2>2. CASE details[wid[w]] # NoCall
    <3>1. details[wid[w]] \in Calls
      BY Zenon, <1>1, <1>2, <1>5, <2>2 DEF Lookup
    <3>2. /\ wpc' = [wpc EXCEPT ![w] = "register"]
          /\ wcall' = [wcall EXCEPT ![w] = details[wid[w]]] /\ wid' = wid
      BY Zenon, <1>5, <2>2 DEF Lookup
    <3>3. /\ wpc' \in [Workers -> WorkerLocs] /\ wcall' \in [Workers -> Calls \union {NoCall}]
          /\ wpc'[w] = "register" /\ wcall'[w] \in Calls
          /\ \A v \in Workers \ {w} : wpc'[v] = wpc[v] /\ wcall'[v] = wcall[v]
      BY Zenon, <3>1, <3>2 DEF TypeInv, TypeOK, WorkerLocs
    <3>4. WorkerLocals'
      BY Zenon, <1>2, <1>5, <3>2, <3>3 DEF Lookup, TypeInv, WorkerLocals
    <3>. QED  BY Zenon, <1>5, <2>2, <3>3, <3>4 DEF Lookup, TypeInv, TypeOK
  <2>. QED  BY Zenon, <2>1, <2>2
<1>6. CASE Register(w)
  <2>1. CASE wid[w] \in discarded
    <3>1. Restart(w, "get")
      BY Zenon, <1>6, <2>1 DEF Register
    <3>2. discarded' \subseteq Ids /\ active' = active
      BY Zenon, <1>6, <2>1 DEF Register, TypeInv, TypeOK
    <3>. QED  BY Zenon, <1>6, <3>1, <3>2, RestartType DEF Register, TypeInv, TypeOK
  <2>2. CASE wid[w] \notin discarded
    <3>1. active' \in [Stages -> SUBSET Ids]
      BY <1>1, <1>2, <1>3, <1>6, <2>2 DEF Register
    <3>2. wpc' \in [Workers -> WorkerLocs] /\ WorkerLocals'
      BY Zenon, <1>6, <2>2, MoveType DEF Register, WorkerLocs
    <3>. QED  BY Zenon, <1>6, <2>2, <3>1, <3>2 DEF Register, TypeInv, TypeOK
  <2>. QED  BY Zenon, <2>1, <2>2
<1>7. CASE EnterPhase(w)
  <2>1. wcall[w] \in Calls
    BY Zenon, <1>2, <1>7 DEF EnterPhase
  <2>2. job' \in [Calls -> JobDetails]
    <3>1. [job[wcall[w]] EXCEPT !.phase = StageOf[w]] \in JobDetails
      BY Zenon, <1>1, <1>3, <2>1, PhaseType
    <3>. QED  BY Zenon, <1>1, <1>7, <2>1, <3>1 DEF EnterPhase
  <2>3. wout' \in [Workers -> Outcomes]
    BY Zenon, <1>7 DEF EnterPhase, TypeInv, TypeOK, Outcomes
  <2>4. PICK loc \in {"except", "arm"} : Goto(w, loc)
    BY Zenon, <1>7 DEF EnterPhase
  <2>5. wpc' \in [Workers -> WorkerLocs] /\ WorkerLocals'
    BY Zenon, <1>7, <2>4, MoveType DEF EnterPhase, WorkerLocs
  <2>. QED  BY Zenon, <1>7, <2>2, <2>3, <2>5 DEF EnterPhase, TypeInv, TypeOK
<1>8. CASE Arm(w)
  <2>1. wcall[w] \in Calls
    BY Zenon, <1>2, <1>8 DEF Arm
  <2>2. job' \in [Calls -> JobDetails]
    <3>1. [job[wcall[w]] EXCEPT !.task = w, !.cancelled = FALSE] \in JobDetails
      BY Zenon, <1>1, <2>1, TaskType
    <3>. QED  BY Zenon, <1>1, <1>8, <2>1, <3>1 DEF Arm
  <2>3. wout' \in [Workers -> Outcomes]
    BY Zenon, <1>8 DEF Arm, TypeInv, TypeOK, Outcomes
  <2>4. PICK loc \in {"exit", "await"} : Goto(w, loc)
    BY Zenon, <1>8 DEF Arm
  <2>5. wpc' \in [Workers -> WorkerLocs] /\ WorkerLocals'
    BY Zenon, <1>8, <2>4, MoveType DEF Arm, WorkerLocs
  <2>. QED  BY Zenon, <1>8, <2>2, <2>3, <2>5 DEF Arm, TypeInv, TypeOK
<1>9. CASE TaskSucceeds(w)
  <2>1. wcall[w] \in Calls
    BY Zenon, <1>2, <1>9 DEF TaskSucceeds
  <2>2. opened \in [Calls -> Nat]
    BY Zenon DEF TypeInv, TypeOK
  <2>3. opened[wcall[w]] + 1 \in Nat
    BY <2>1, <2>2
  <2>5. wrt' \in [Workers -> Nat]
    BY Zenon, <1>1, <1>9, <2>1, <2>2, <2>3 DEF TaskSucceeds
  <2>6. opened' \in [Calls -> Nat] /\ live' \in [Calls -> SUBSET Nat]
    BY Zenon, <1>1, <1>9, <2>1, <2>2, OpenRuntimeType DEF TaskSucceeds
  <2>7. wpc' \in [Workers -> WorkerLocs] /\ WorkerLocals'
    BY Zenon, <1>9, MoveType DEF TaskSucceeds, WorkerLocs
  <2>8. wout' \in [Workers -> Outcomes]
    BY Zenon, <1>9 DEF TaskSucceeds, TypeInv, TypeOK, Outcomes
  <2>. QED  BY Zenon, <1>9, <2>5, <2>6, <2>7, <2>8 DEF TaskSucceeds, TypeInv, TypeOK
<1>10. CASE TaskFails(w)
  <2>1. wcall[w] \in Calls
    BY Zenon, <1>2, <1>10 DEF TaskFails
  <2>2. job' \in [Calls -> JobDetails]
    <3>1. [job[wcall[w]] EXCEPT !.task = NoWorker, !.cancelled = FALSE] \in JobDetails
      BY Zenon, <1>1, <2>1, TaskType
    <3>. QED  BY Zenon, <1>1, <1>10, <2>1, <3>1 DEF TaskFails
  <2>3. opened' \in [Calls -> Nat] /\ live' \in [Calls -> SUBSET Nat]
    BY Zenon, <1>1, <1>10, <2>1, OpenRuntimeType DEF TaskFails, TypeInv, TypeOK
  <2>4. wpc' \in [Workers -> WorkerLocs] /\ WorkerLocals'
    BY Zenon, <1>10, MoveType DEF TaskFails, WorkerLocs
  <2>5. wout' \in [Workers -> Outcomes]
    BY Zenon, <1>10 DEF TaskFails, TypeInv, TypeOK, Outcomes
  <2>. QED  BY Zenon, <1>10, <2>2, <2>3, <2>4, <2>5 DEF TaskFails, TypeInv, TypeOK
<1>11. CASE Resume(w)
  <2>1. wcall[w] \in Calls
    BY Zenon, <1>2, <1>11 DEF Resume
  <2>2. Stored(job[wcall[w]], StageOf[w], wrt[w]) \in JobDetails
    BY Zenon, <1>1, <1>3, <2>1, StoredType
  <2>3. job' \in [Calls -> JobDetails]
    BY Zenon, <1>1, <1>11, <2>1, <2>2 DEF Resume
  <2>4. live' \in [Calls -> SUBSET Nat]
    BY Zenon, <1>1, <1>11, <2>1, CloseOfType DEF Resume
  <2>. QED  BY Zenon, <1>2, <1>3, <1>11, <2>3, <2>4
            DEF Resume, Stages, TypeInv, TypeOK, WorkerLocals, WorkerLocs
<1>12. CASE HandOver(w)
  <2>1. wid[w] \in Ids /\ NextQueue[StageOf[w]] \in Stages
    BY Zenon, <1>2, <1>12 DEF HandOver, NextQueue, Stages
  <2>2. /\ queue \in [Stages -> Seq(Ids \union {STOP})]
        /\ queue' = [queue EXCEPT ![NextQueue[StageOf[w]]] = Append(@, wid[w])]
    BY Zenon, <1>1, <1>12 DEF HandOver
  <2>3. queue' \in [Stages -> Seq(Ids \union {STOP})]
    BY Zenon, <2>1, <2>2, QueuePutType
  <2>. QED  BY Zenon, <1>2, <1>12, <2>3 DEF HandOver, TypeInv, TypeOK, WorkerLocals, WorkerLocs
<1>13. CASE ExitPhase(w)
  <2>1. wcall[w] \in Calls
    BY Zenon, <1>2, <1>13 DEF ExitPhase
  <2>2. job' \in [Calls -> JobDetails]
    BY Zenon, <1>1, <1>13, <2>1, PhaseType DEF ExitPhase
  <2>3. PICK loc \in {"final", "except"} : Goto(w, loc)
    BY Zenon, <1>13 DEF ExitPhase
  <2>4. wpc' \in [Workers -> WorkerLocs] /\ WorkerLocals'
    BY Zenon, <1>13, <2>3, MoveType DEF ExitPhase, WorkerLocs
  <2>. QED  BY Zenon, <1>13, <2>2, <2>4 DEF ExitPhase, TypeInv, TypeOK
<1>14. CASE Except(w)
  <2> DEFINE j == Failed(job[wcall[w]], StageOf[w], wout[w] \in {"timeout", "nophase"})
  <2>1. wcall[w] \in Calls
    BY Zenon, <1>2, <1>14 DEF Except
  <2>2. j \in JobDetails
    BY Zenon, <1>1, <2>1, FailedType
  <2>3. Reported(j, StageOf[w]) \in JobDetails
    BY Zenon, <1>3, <2>2, ReportedType
  <2>4. job' \in [Calls -> JobDetails]
    BY Zenon, <1>1, <1>14, <2>1, <2>2, <2>3 DEF Except
  <2>5. live' \in [Calls -> SUBSET Nat]
    BY Zenon, <1>1, <1>14, <2>1, CloseOfType DEF Except
  <2> HIDE DEF j
  <2>. QED  BY ZenonT(30), <1>2, <1>14, <2>4, <2>5
            DEF Except, TypeInv, TypeOK, WorkerLocals, WorkerLocs, Outcomes
<1>15. CASE Finally(w)
  <2>1. active' \in [Stages -> SUBSET Ids]
    BY Zenon, <1>1, <1>15 DEF Finally, Deactivate
  <2>2. PICK loc \in {"off", "get"} : Restart(w, loc)
    BY Zenon, <1>15 DEF Finally
  <2>. QED  BY Zenon, <1>15, <2>1, <2>2, RestartType DEF Finally, TypeInv, TypeOK
<1>. QED  BY Zenon, <1>4, <1>5, <1>6, <1>7, <1>8, <1>9, <1>10, <1>11, <1>12, <1>13, <1>14, <1>15
          DEF WorkerStep

LEMMA TypeInvCancel ==
  ASSUME NEW i \in Ids, TypeInv, CancelStep(i) PROVE TypeInv'
<1> USE DEF serverVars, objectVars, workerVars, clientVars, stopVars
<1>1. /\ job \in [Calls -> JobDetails] /\ details \in [Ids -> Calls \union {NoCall}]
      /\ live \in [Calls -> SUBSET Nat]
      /\ cpc \in [Ids -> {"idle", "checked", "removed"}]
  BY Zenon DEF TypeInv, TypeOK
<1>2. CASE CancelCheck(i)
  BY Zenon, <1>2 DEF CancelCheck, TypeInv, TypeOK, WorkerLocals
<1>3. CASE CancelRemove(i)
  <2>1. cpc' \in [Ids -> {"idle", "checked", "removed"}]
    BY Zenon, <1>1, <1>3 DEF CancelRemove
  <2>2. CASE details[i] = NoCall
    BY Zenon, <1>3, <2>1, <2>2 DEF CancelRemove, TypeInv, TypeOK, WorkerLocals
  <2>3. CASE details[i] # NoCall
    <3> DEFINE d == details[i]
               j == [TimedOut(job[d]) EXCEPT !.runtime = 0, !.cancelled = TaskPending(d)]
    <3>1. d \in Calls
      BY Zenon, <1>1, <2>3
    <3>2. TaskPending(d) \in BOOLEAN
      BY Zenon DEF TaskPending
    <3>3. j \in JobDetails
      BY Zenon, <1>1, <3>1, <3>2, TimedOutType, DropRuntimeType
    <3>4. job' = [job EXCEPT ![d] = j]
      BY Zenon, <1>1, <1>3, <2>3, <3>1 DEF CancelRemove
    <3>5. job' \in [Calls -> JobDetails]
      BY Zenon, <1>1, <3>1, <3>3, <3>4
    <3>6. /\ live' \in [Calls -> SUBSET Nat]
          /\ details' \in [Ids -> Calls \union {NoCall}]
      BY Zenon, <1>1, <1>3, <2>3, <3>1, CloseOfType DEF CancelRemove
    <3>. QED  BY Zenon, <1>3, <2>1, <2>3, <3>5, <3>6 DEF CancelRemove, TypeInv, TypeOK, WorkerLocals
  <2>. QED  BY Zenon, <2>2, <2>3
<1>4. CASE CancelMark(i)
  BY Zenon, <1>4 DEF CancelMark, TypeInv, TypeOK, WorkerLocals
<1>. QED  BY Zenon, <1>2, <1>3, <1>4 DEF CancelStep

LEMMA TypeInvStop == TypeInv /\ StopStep => TypeInv'
<1> SUFFICES ASSUME TypeInv, StopStep PROVE TypeInv'
  OBVIOUS
<1> USE DEF serverVars, objectVars, workerVars, clientVars
<1>1. /\ job \in [Calls -> JobDetails] /\ details \in [Ids -> Calls \union {NoCall}]
      /\ live \in [Calls -> SUBSET Nat] /\ active \in [Stages -> SUBSET Ids]
      /\ queue \in [Stages -> Seq(Ids \union {STOP})]
  BY Zenon DEF TypeInv, TypeOK
<1>2. CASE StopBegin
  <2>1. UNION {active[s] : s \in Stages} \subseteq Ids
    BY <1>1
  <2>. QED  BY Zenon, <1>2, <2>1 DEF StopBegin, TypeInv, TypeOK, WorkerLocals
<1>3. ASSUME NEW i \in Ids, StopSignal(i) PROVE TypeInv'
  <2>1. CASE details[i] = NoCall
    BY Zenon, <1>3, <2>1 DEF StopSignal, TypeInv, TypeOK, WorkerLocals
  <2>2. CASE details[i] # NoCall
    <3> DEFINE d == details[i]
               j == [TimedOut(job[d]) EXCEPT !.runtime = 0]
    <3>1. d \in Calls
      BY Zenon, <1>1, <2>2
    <3>2. j \in JobDetails
      BY Zenon, <1>1, <3>1, TimedOutType, DropRuntimeType
    <3>3. job' = [job EXCEPT ![d] = j]
      BY Zenon, <1>1, <1>3, <2>2, <3>1 DEF StopSignal
    <3>4. job' \in [Calls -> JobDetails]
      BY Zenon, <1>1, <3>1, <3>2, <3>3
    <3>5. live' \in [Calls -> SUBSET Nat]
      BY ZenonT(30), <1>1, <1>3, <2>2, <3>1, CloseOfType DEF StopSignal
    <3>. QED  BY Zenon, <1>3, <2>2, <3>4, <3>5 DEF StopSignal, TypeInv, TypeOK, WorkerLocals
  <2>. QED  BY Zenon, <2>1, <2>2
<1>4. CASE StopSentinels
  <2>1. ASSUME NEW s \in Stages
        PROVE queue[s] \o [k \in 1..MaxWorkers[s] |-> STOP] \in Seq(Ids \union {STOP})
    <3>1. MaxWorkers[s] \in Nat
      BY Zenon, ConstantsAssumption
    <3>2. [k \in 1..MaxWorkers[s] |-> STOP] \in Seq(Ids \union {STOP})
      BY <3>1
    <3>. QED  BY <1>1, <3>2
  <2>2. queue' \in [Stages -> Seq(Ids \union {STOP})]
    BY Zenon, <1>4, <2>1 DEF StopSentinels
  <2>. QED  BY Zenon, <1>4, <2>2 DEF StopSentinels, TypeInv, TypeOK, WorkerLocals
<1>5. CASE StopClearState
  BY Zenon, <1>5 DEF StopClearState, TypeInv, TypeOK, WorkerLocals
<1>6. CASE StopClearDetails
  BY Zenon, <1>6 DEF StopClearDetails, TypeInv, TypeOK, WorkerLocals
<1>7. CASE StopClearQueues
  <2>1. queue' \in [Stages -> Seq(Ids \union {STOP})]
    BY <1>7 DEF StopClearQueues
  <2>2. live' \in [Calls -> SUBSET Nat]
    BY Zenon, <1>1, <1>7 DEF StopClearQueues
  <2>. QED  BY Zenon, <1>7, <2>1, <2>2 DEF StopClearQueues, TypeInv, TypeOK, WorkerLocals
<1>. QED  BY Zenon, <1>2, <1>3, <1>4, <1>5, <1>6, <1>7 DEF StopStep

LEMMA TypeInvNext == TypeInv /\ [Next]_vars => TypeInv'
<1> SUFFICES ASSUME TypeInv, [Next]_vars PROVE TypeInv'
  OBVIOUS
<1>1. CASE UNCHANGED vars
  BY Zenon, <1>1 DEF vars, serverVars, objectVars, workerVars, clientVars, stopVars, TypeInv, TypeOK,
              WorkerLocals
<1>. QED  BY Zenon, <1>1, TypeInvStart, TypeInvProcess, TypeInvWorker, TypeInvCancel, TypeInvStop
          DEF Next

LEMMA TypeInvAlways == Spec => []TypeInv
  BY TypeInvInit, TypeInvNext, PTL DEF Spec

(* Every variable keeps its type, whatever the threads of _worker, process, *)
(* cancel_job and stop do and however they interleave.                      *)
THEOREM TypeCorrect == Spec => []TypeOK
  BY TypeInvAlways, PTL DEF TypeInv

-----------------------------------------------------------------------------
(* The strengthening of AnswerSound.                                        *)

(* get_unique_id() never gives two calls the same id.                       *)
InjectiveIds == \A c, d \in Calls : IdOf[c] = IdOf[d] => c = d

Queued(s, i) == \E k \in 1..Len(queue[s]) : queue[s][k] = i

(* An id names the object of the call that chose it.                        *)
Naming ==
  /\ \A i \in Ids : details[i] # NoCall => IdOf[details[i]] = i
  /\ \A w \in Workers : wpc[w] \notin {"off", "get", "lookup"} => IdOf[wcall[w]] = wid[w]

(* A waiter is signalled only with a timeout, results or an evaluation.     *)
SignalCause ==
  \A c \in Calls :
    job[c].event => \/ job[c].timeoutError \/ job[c].results # "none"
                    \/ job[c].evalResults

(* Only a job that ran reaches the eval queue, an eval worker, and an       *)
(* evaluation.                                                              *)
RanBeforeEval ==
  /\ \A c \in Calls : job[c].evalResults => job[c].runResults
  /\ \A c \in Calls : Queued("eval", IdOf[c]) => job[c].runResults
  /\ \A c \in Calls, w \in Workers :
       StageOf[w] = "eval" /\ wid[w] = IdOf[c] => job[c].runResults
  /\ \A w \in Workers :
       StageOf[w] = "run" /\ wpc[w] = "handover" => job[wcall[w]].runResults

AnswerInv == Naming /\ SignalCause /\ RanBeforeEval /\ AnswerSound

-----------------------------------------------------------------------------
(* What the updates of a JobDetails object do to the fields that matter.    *)

LEMMA TimedOutFields ==
  ASSUME NEW j \in JobDetails
  PROVE /\ TimedOut(j).timeoutError
        /\ TimedOut(j).runResults = j.runResults /\ TimedOut(j).evalResults = j.evalResults
  BY Zenon DEF TimedOut, JobDetails

LEMMA StoredFields ==
  ASSUME NEW j \in JobDetails, NEW s \in Stages, NEW rt \in Nat
  PROVE /\ Stored(j, s, rt).runResults <=> (j.runResults \/ s = "run")
        /\ Stored(j, s, rt).evalResults <=> (j.evalResults \/ s = "eval")
        /\ Stored(j, s, rt).event <=> (j.event \/ s = "eval")
        /\ Stored(j, s, rt).timeoutError <=> j.timeoutError
        /\ Stored(j, s, rt).results = j.results
<1>1. CASE s = "init"
  BY Zenon, <1>1 DEF Stored, JobDetails
<1>2. CASE s = "run"
  BY Zenon, <1>2 DEF Stored, JobDetails
<1>3. CASE s = "eval"
  BY Zenon, <1>3 DEF Stored, JobDetails
<1>. QED  BY Zenon, <1>1, <1>2, <1>3 DEF Stages

LEMMA FailedFields ==
  ASSUME NEW j \in JobDetails, NEW s, NEW timedOut \in BOOLEAN
  PROVE /\ Failed(j, s, timedOut).runResults <=> j.runResults
        /\ Failed(j, s, timedOut).evalResults <=> j.evalResults
        /\ Failed(j, s, timedOut).event <=> j.event
        /\ Failed(j, s, timedOut).results = j.results
        /\ \/ Failed(j, s, timedOut).timeoutError
           \/ (Failed(j, s, timedOut).timeoutError <=> j.timeoutError)
<1>1. CASE timedOut
  BY Zenon, <1>1 DEF Failed, JobDetails
<1>2. CASE ~timedOut
  BY Zenon, <1>2 DEF Failed, JobDetails
<1>. QED  BY Zenon, <1>1, <1>2

LEMMA PhaseFields ==
  ASSUME NEW j \in JobDetails, NEW p
  PROVE /\ [j EXCEPT !.phase = p].runResults = j.runResults
        /\ [j EXCEPT !.phase = p].evalResults = j.evalResults
        /\ [j EXCEPT !.phase = p].event = j.event
        /\ [j EXCEPT !.phase = p].timeoutError = j.timeoutError
        /\ [j EXCEPT !.phase = p].results = j.results
  BY Zenon DEF JobDetails

LEMMA TaskFields ==
  ASSUME NEW j \in JobDetails, NEW t
  PROVE /\ [j EXCEPT !.task = t, !.cancelled = FALSE].runResults = j.runResults
        /\ [j EXCEPT !.task = t, !.cancelled = FALSE].evalResults = j.evalResults
        /\ [j EXCEPT !.task = t, !.cancelled = FALSE].event = j.event
        /\ [j EXCEPT !.task = t, !.cancelled = FALSE].timeoutError = j.timeoutError
        /\ [j EXCEPT !.task = t, !.cancelled = FALSE].results = j.results
  BY Zenon DEF JobDetails

(* A step that completes jobs only as timed out or as failed, and leaves    *)
(* their run and eval results alone.                                        *)
JobOutcomeKept ==
  \A c \in Calls :
    /\ job'[c].runResults <=> job[c].runResults
    /\ job'[c].evalResults <=> job[c].evalResults
    /\ \/ job'[c].timeoutError \/ job'[c].results # "none"
       \/ /\ job'[c].event <=> job[c].event
          /\ job'[c].timeoutError <=> job[c].timeoutError
          /\ job'[c].results = job[c].results

LEMMA OutcomeKept ==
  ASSUME JobOutcomeKept, TypeInv, AnswerInv, Naming', UNCHANGED <<queue, workerVars, answer>>
  PROVE AnswerInv'
<1>1. SignalCause'
  BY Zenon DEF JobOutcomeKept, AnswerInv, SignalCause
<1>2. AnswerSound'
  BY Zenon DEF JobOutcomeKept, AnswerInv, AnswerSound
<1>3. /\ \A c \in Calls : job'[c].evalResults => job'[c].runResults
      /\ \A c \in Calls : Queued("eval", IdOf[c])' => job'[c].runResults
      /\ \A c \in Calls, w \in Workers :
           StageOf[w] = "eval" /\ wid'[w] = IdOf[c] => job'[c].runResults
  BY Zenon DEF JobOutcomeKept, AnswerInv, RanBeforeEval, Queued, workerVars
<1>4. \A w \in Workers :
        StageOf[w] = "run" /\ wpc'[w] = "handover" => job'[wcall'[w]].runResults
  BY Zenon DEF JobOutcomeKept, AnswerInv, RanBeforeEval, TypeInv, WorkerLocals, workerVars
<1>. QED  BY Zenon, <1>1, <1>2, <1>3, <1>4 DEF AnswerInv, RanBeforeEval

LEMMA AnswerInvInit == Init => AnswerInv
<1> SUFFICES ASSUME Init PROVE AnswerInv
  OBVIOUS
<1>1. Naming
  BY Zenon DEF Init, Naming
<1>2. \A c \in Calls : ~job[c].event /\ ~job[c].evalResults
  BY Zenon DEF Init, NewJob
<1>3. \A c \in Calls : ~Queued("eval", IdOf[c])
  BY DEF Init, Queued, Stages
<1>4. \A c \in Calls, w \in Workers : wid[w] # IdOf[c]
  BY ConstantsAssumption DEF Init
<1>5. \A w \in Workers : wpc[w] # "handover"
  BY Zenon DEF Init
<1>6. AnswerSound
  BY Zenon DEF Init, AnswerSound
<1>. QED  BY Zenon, <1>1, <1>2, <1>3, <1>4, <1>5, <1>6 DEF AnswerInv, SignalCause, RanBeforeEval

LEMMA AnswerInvStart == AnswerInv /\ Start => AnswerInv'
  BY DEF AnswerInv, Naming, SignalCause, RanBeforeEval, AnswerSound, Queued, Start, clientVars,
         stopVars

LEMMA AnswerInvProcess ==
  ASSUME NEW c \in Calls, TypeInv, AnswerInv, ProcessStep(c) PROVE AnswerInv'
<1> USE DEF serverVars, objectVars, workerVars, clientVars, stopVars
<1>1. /\ job \in [Calls -> JobDetails] /\ details \in [Ids -> Calls \union {NoCall}]
      /\ answer \in [Calls -> Answers] /\ queue \in [Stages -> Seq(Ids \union {STOP})]
  BY Zenon DEF TypeInv, TypeOK
<1>2. IdOf[c] \in Ids
  BY Zenon, ConstantsAssumption
<1>3. CASE Admit(c)
  BY Zenon, <1>3 DEF Admit, AnswerInv, Naming, SignalCause, RanBeforeEval, AnswerSound, Queued
<1>4. CASE Store(c)
  <2>1. Naming'
    BY Zenon, <1>1, <1>2, <1>4 DEF Store, AnswerInv, Naming
  <2>. QED  BY Zenon, <1>4, <2>1 DEF Store, AnswerInv, SignalCause, RanBeforeEval, AnswerSound, Queued
<1>5. CASE Enqueue(c)
  <2>1. queue'["eval"] = queue["eval"]
    BY Zenon, <1>1, <1>5 DEF Enqueue, Stages
  <2>2. \A i \in Ids : Queued("eval", i)' => Queued("eval", i)
    BY Zenon, <2>1 DEF Queued
  <2>3. \A d \in Calls : Queued("eval", IdOf[d])' => Queued("eval", IdOf[d])
    BY Zenon, <2>2, ConstantsAssumption
  <2>. QED  BY Zenon, <1>5, <2>3 DEF Enqueue, AnswerInv, Naming, SignalCause, RanBeforeEval, AnswerSound
<1>6. CASE Wake(c)
  <2>1. job[c].event /\ FinalResult(c) = "ok" => job[c].runResults /\ job[c].evalResults
    BY Zenon, <1>1 DEF AnswerInv, SignalCause, RanBeforeEval, FinalResult, JobDetails, Stages
  <2>2. AnswerSound'
    BY Zenon, <1>1, <1>6, <2>1 DEF Wake, AnswerInv, AnswerSound
  <2>. QED  BY Zenon, <1>6, <2>2 DEF Wake, AnswerInv, Naming, SignalCause, RanBeforeEval, Queued
<1>7. CASE Conclude(c)
  <2>1. Naming'
    BY Zenon, <1>1, <1>2, <1>7 DEF Conclude, AnswerInv, Naming
  <2>. QED  BY Zenon, <1>7, <2>1 DEF Conclude, AnswerInv, SignalCause, RanBeforeEval, AnswerSound,
                              Queued
<1>8. CASE CleanupTimedOutJob(c)
  <2>1. Naming'
    BY Zenon, <1>1, <1>2, <1>8 DEF CleanupTimedOutJob, AnswerInv, Naming
  <2>2. JobOutcomeKept
    <3>1. CASE details[IdOf[c]] = NoCall
      BY Zenon, <1>8, <3>1 DEF CleanupTimedOutJob, JobOutcomeKept
    <3>2. CASE details[IdOf[c]] # NoCall
      <4> DEFINE d == details[IdOf[c]]
      <4>1. d \in Calls
        BY Zenon, <1>1, <1>2, <3>2
      <4>2. job' = [job EXCEPT ![d] = TimedOut(job[d])]
        BY Zenon, <1>1, <1>8, <3>2, <4>1 DEF CleanupTimedOutJob
      <4>. QED  BY ZenonT(30), <1>1, <4>1, <4>2, TimedOutFields DEF JobOutcomeKept
    <3>. QED  BY Zenon, <3>1, <3>2
  <2>. QED  BY Zenon, <1>8, <2>1, <2>2, OutcomeKept DEF CleanupTimedOutJob
<1>. QED  BY Zenon, <1>3, <1>4, <1>5, <1>6, <1>7, <1>8 DEF ProcessStep

LEMMA AnswerInvCancel ==
  ASSUME NEW i \in Ids, TypeInv, AnswerInv, CancelStep(i) PROVE AnswerInv'
<1> USE DEF serverVars, objectVars, workerVars, clientVars, stopVars
<1>1. /\ job \in [Calls -> JobDetails] /\ details \in [Ids -> Calls \union {NoCall}]
  BY Zenon DEF TypeInv, TypeOK
<1>2. CASE CancelCheck(i)
  BY Zenon, <1>2 DEF CancelCheck, AnswerInv, Naming, SignalCause, RanBeforeEval, AnswerSound, Queued
<1>3. CASE CancelRemove(i)
  <2>1. Naming'
    BY Zenon, <1>1, <1>3 DEF CancelRemove, AnswerInv, Naming
  <2>2. JobOutcomeKept
    <3>1. CASE details[i] = NoCall
      BY Zenon, <1>3, <3>1 DEF CancelRemove, JobOutcomeKept
    <3>2. CASE details[i] # NoCall
      <4> DEFINE d == details[i]
                 j == [TimedOut(job[d]) EXCEPT !.runtime = 0, !.cancelled = TaskPending(d)]
      <4>1. d \in Calls
        BY Zenon, <1>1, <3>2
      <4>2. job' = [job EXCEPT ![d] = j]
        BY Zenon, <1>1, <1>3, <3>2, <4>1 DEF CancelRemove
      <4>3. TimedOut(job[d]) \in JobDetails
        BY Zenon, <1>1, <4>1, TimedOutType
      <4>4. /\ j.timeoutError = TimedOut(job[d]).timeoutError
            /\ j.runResults = TimedOut(job[d]).runResults
            /\ j.evalResults = TimedOut(job[d]).evalResults
        BY Zenon, <4>3 DEF JobDetails
      <4> HIDE DEF j
      <4>. QED  BY <1>1, <4>1, <4>2, <4>4, TimedOutFields DEF JobOutcomeKept
    <3>. QED  BY Zenon, <3>1, <3>2
  <2>. QED  BY Zenon, <1>3, <2>1, <2>2, OutcomeKept DEF CancelRemove
<1>4. CASE CancelMark(i)
  BY Zenon, <1>4 DEF CancelMark, AnswerInv, Naming, SignalCause, RanBeforeEval, AnswerSound, Queued
<1>. QED  BY Zenon, <1>2, <1>3, <1>4 DEF CancelStep

(* An element of a queue with sentinels appended that is no sentinel.       *)
LEMMA SentinelTail ==
  ASSUME NEW S, NEW q \in Seq(S), NEW z \in Seq(S), NEW x, \A l \in 1..Len(z) : z[l] = x,
         NEW k \in 1..Len(q \o z), (q \o z)[k] # x
  PROVE k \in 1..Len(q) /\ q[k] = (q \o z)[k]
<1>1. Len(q \o z) = Len(q) + Len(z)
  OBVIOUS
<1>2. CASE k > Len(q)
  <2>1. k - Len(q) \in 1..Len(z) /\ (q \o z)[k] = z[k - Len(q)]
    BY <1>1, <1>2
  <2>. QED  BY Zenon, <2>1
<1>3. CASE k <= Len(q)
  BY <1>1, <1>3
<1>. QED  BY <1>2, <1>3

LEMMA AnswerInvStop == TypeInv /\ AnswerInv /\ StopStep => AnswerInv'
<1> SUFFICES ASSUME TypeInv, AnswerInv, StopStep PROVE AnswerInv'
  OBVIOUS
<1> USE DEF serverVars, objectVars, workerVars, clientVars
<1>1. /\ job \in [Calls -> JobDetails] /\ details \in [Ids -> Calls \union {NoCall}]
      /\ queue \in [Stages -> Seq(Ids \union {STOP})]
  BY Zenon DEF TypeInv, TypeOK
<1>2. CASE StopBegin
  BY Zenon, <1>2 DEF StopBegin, AnswerInv, Naming, SignalCause, RanBeforeEval, AnswerSound, Queued
<1>3. ASSUME NEW i \in Ids, StopSignal(i) PROVE AnswerInv'
  <2>1. Naming'
    BY Zenon, <1>3 DEF StopSignal, AnswerInv, Naming
  <2>2. JobOutcomeKept
    <3>1. CASE details[i] = NoCall
      BY Zenon, <1>3, <3>1 DEF StopSignal, JobOutcomeKept
    <3>2. CASE details[i] # NoCall
      <4> DEFINE d == details[i]
                 j == [TimedOut(job[d]) EXCEPT !.runtime = 0]
      <4>1. d \in Calls
        BY Zenon, <1>1, <3>2
      <4>2. job' = [job EXCEPT ![d] = j]
        BY Zenon, <1>1, <1>3, <3>2, <4>1 DEF StopSignal
      <4>3. TimedOut(job[d]) \in JobDetails
        BY Zenon, <1>1, <4>1, TimedOutType
      <4>4. /\ j.timeoutError = TimedOut(job[d]).timeoutError
            /\ j.runResults = TimedOut(job[d]).runResults
            /\ j.evalResults = TimedOut(job[d]).evalResults
        BY Zenon, <4>3 DEF JobDetails
      <4> HIDE DEF j
      <4>. QED  BY <1>1, <4>1, <4>2, <4>4, TimedOutFields DEF JobOutcomeKept
    <3>. QED  BY Zenon, <3>1, <3>2
  <2>. QED  BY Zenon, <1>3, <2>1, <2>2, OutcomeKept DEF StopSignal
<1>4. CASE StopSentinels
  <2>1. \A c \in Calls : Queued("eval", IdOf[c])' => Queued("eval", IdOf[c])
    <3> SUFFICES ASSUME NEW c \in Calls, Queued("eval", IdOf[c])' PROVE Queued("eval", IdOf[c])
      OBVIOUS
    <3> DEFINE q == queue["eval"]
               z == [k \in 1..MaxWorkers["eval"] |-> STOP]
    <3>1. /\ IdOf[c] # STOP /\ MaxWorkers["eval"] \in Nat
      BY ConstantsAssumption DEF Stages
    <3>2. q \in Seq(Ids \union {STOP}) /\ z \in Seq(Ids \union {STOP})
      <4>1. q \in Seq(Ids \union {STOP})
        BY Zenon, <1>1 DEF Stages
      <4>2. z \in Seq(Ids \union {STOP})
        BY <3>1
      <4>. QED  BY Zenon, <4>1, <4>2
    <3>3. queue'["eval"] = q \o z
      BY Zenon, <1>4 DEF StopSentinels, Stages
    <3>4. \A l \in 1..Len(z) : z[l] = STOP
      BY <3>1
    <3> HIDE DEF q, z
    <3>5. PICK k \in 1..Len(q \o z) : (q \o z)[k] = IdOf[c]
      BY Zenon, <3>3 DEF Queued
    <3>6. k \in 1..Len(q) /\ q[k] = IdOf[c]
      BY <3>1, <3>2, <3>4, <3>5, SentinelTail
    <3>. QED  BY Zenon, <3>6 DEF Queued, q
  <2>. QED  BY Zenon, <1>4, <2>1 DEF StopSentinels, AnswerInv, Naming, SignalCause, RanBeforeEval,
                              AnswerSound
<1>5. CASE StopClearState
  BY Zenon, <1>5 DEF StopClearState, AnswerInv, Naming, SignalCause, RanBeforeEval, AnswerSound, Queued
<1>6. CASE StopClearDetails
  <2>1. Naming'
    BY Zenon, <1>6 DEF StopClearDetails, AnswerInv, Naming
  <2>. QED  BY Zenon, <1>6, <2>1 DEF StopClearDetails, AnswerInv, SignalCause, RanBeforeEval,
                              AnswerSound, Queued
<1>7. CASE StopClearQueues
  <2>1. \A c \in Calls : ~Queued("eval", IdOf[c])'
    BY <1>7 DEF StopClearQueues, Queued, Stages
  <2>. QED  BY Zenon, <1>7, <2>1 DEF StopClearQueues, AnswerInv, Naming, SignalCause, RanBeforeEval,
                              AnswerSound
<1>. QED  BY Zenon, <1>2, <1>3, <1>4, <1>5, <1>6, <1>7 DEF StopStep

(* A worker that only moves, or only drops its locals, keeps the invariant. *)
LEMMA AnswerInvMove ==
  ASSUME NEW w \in Workers, wpc[w] \notin {"off", "get", "lookup"},
         NEW loc, loc # "handover", TypeInv, AnswerInv, Goto(w, loc),
         JobOutcomeKept, UNCHANGED <<queue, details, answer, wid, wcall>>
  PROVE AnswerInv'
<1>1. SignalCause' /\ AnswerSound'
  BY Zenon DEF AnswerInv, SignalCause, AnswerSound, JobOutcomeKept
<1>6. Naming'
  BY Zenon DEF AnswerInv, Naming, Goto, TypeInv, TypeOK
<1>2. \A c \in Calls : job'[c].evalResults => job'[c].runResults
  BY Zenon DEF AnswerInv, RanBeforeEval, JobOutcomeKept
<1>3. \A c \in Calls : Queued("eval", IdOf[c])' => job'[c].runResults
  BY Zenon DEF AnswerInv, RanBeforeEval, JobOutcomeKept, Queued
<1>4. \A c \in Calls, v \in Workers :
        StageOf[v] = "eval" /\ wid'[v] = IdOf[c] => job'[c].runResults
  BY Zenon DEF AnswerInv, RanBeforeEval, JobOutcomeKept
<1>5. \A v \in Workers :
        StageOf[v] = "run" /\ wpc'[v] = "handover" => job'[wcall'[v]].runResults
  BY Zenon DEF AnswerInv, RanBeforeEval, JobOutcomeKept, TypeInv, TypeOK, WorkerLocals, Goto
<1>. QED  BY Zenon, <1>1, <1>2, <1>3, <1>4, <1>5, <1>6 DEF AnswerInv, RanBeforeEval

LEMMA AnswerInvRestart ==
  ASSUME NEW w \in Workers, NEW loc \in {"off", "get"}, TypeInv, AnswerInv, Restart(w, loc),
         UNCHANGED <<job, queue, details, answer>>
  PROVE AnswerInv'
<1>1. /\ wpc \in [Workers -> WorkerLocs] /\ wid \in [Workers -> Ids \union {STOP}]
      /\ wcall \in [Workers -> Calls \union {NoCall}]
  BY Zenon DEF TypeInv, TypeOK
<1>2. Naming'
  BY Zenon, <1>1 DEF Restart, Goto, AnswerInv, Naming
<1>3. \A c \in Calls : IdOf[c] # STOP
  BY Zenon, ConstantsAssumption
<1>4. \A c \in Calls, v \in Workers :
        StageOf[v] = "eval" /\ wid'[v] = IdOf[c] => job'[c].runResults
  BY Zenon, <1>1, <1>3 DEF Restart, AnswerInv, RanBeforeEval
<1>5. \A v \in Workers :
        StageOf[v] = "run" /\ wpc'[v] = "handover" => job'[wcall'[v]].runResults
  BY Zenon, <1>1 DEF Restart, Goto, AnswerInv, RanBeforeEval
<1>. QED  BY Zenon, <1>2, <1>4, <1>5 DEF AnswerInv, SignalCause, RanBeforeEval, AnswerSound, Queued

LEMMA QueuedTail ==
  ASSUME NEW S, NEW q \in Seq(S), q # <<>>, NEW k \in 1..Len(Tail(q))
  PROVE k + 1 \in 1..Len(q) /\ Tail(q)[k] = q[k + 1]
  OBVIOUS

LEMMA AppendElement ==
  ASSUME NEW S, NEW q \in Seq(S), NEW e \in S, NEW k \in 1..Len(Append(q, e)),
         Append(q, e)[k] # e
  PROVE k \in 1..Len(q) /\ q[k] = Append(q, e)[k]
  OBVIOUS

LEMMA AnswerInvWorker ==
  ASSUME InjectiveIds, NEW w \in Workers, TypeInv, AnswerInv, WorkerStep(w) PROVE AnswerInv'
<1> USE DEF serverVars, objectVars, clientVars, stopVars, WorkerAt
<1> DEFINE c == wcall[w]
<1>1. /\ job \in [Calls -> JobDetails] /\ details \in [Ids -> Calls \union {NoCall}]
      /\ queue \in [Stages -> Seq(Ids \union {STOP})]
      /\ wpc \in [Workers -> WorkerLocs] /\ wid \in [Workers -> Ids \union {STOP}]
      /\ wcall \in [Workers -> Calls \union {NoCall}]
  BY Zenon DEF TypeInv, TypeOK
<1>2. /\ wpc[w] \notin {"off", "get"} => wid[w] \in Ids
      /\ wpc[w] \notin {"off", "get", "lookup"} => wcall[w] \in Calls
      /\ wpc[w] = "handover" => StageOf[w] \in {"init", "run"}
  BY Zenon DEF TypeInv, WorkerLocals
<1>3. StageOf[w] \in Stages
  BY Zenon, ConstantsAssumption
<1>5. CASE Lookup(w)
  <2>1. CASE details[wid[w]] = NoCall
    BY Zenon, <1>5, <2>1, AnswerInvRestart DEF Lookup
  <2>2. CASE details[wid[w]] # NoCall
    <3>1. Naming'
      BY ZenonT(30), <1>1, <1>2, <1>5, <2>2 DEF Lookup, Goto, AnswerInv, Naming
    <3>2. \A v \in Workers :
            StageOf[v] = "run" /\ wpc'[v] = "handover" => job'[wcall'[v]].runResults
      BY Zenon, <1>1, <1>5, <2>2 DEF Lookup, Goto, AnswerInv, RanBeforeEval
    <3>. QED  BY Zenon, <1>5, <2>2, <3>1, <3>2 DEF Lookup, AnswerInv, SignalCause, RanBeforeEval,
                                            AnswerSound, Queued
  <2>. QED  BY Zenon, <2>1, <2>2
<1>6. CASE Register(w)
  <2>1. CASE wid[w] \in discarded
    BY Zenon, <1>6, <2>1, AnswerInvRestart DEF Register
  <2>2. CASE wid[w] \notin discarded
    <3>1. JobOutcomeKept
      BY Zenon, <1>6, <2>2 DEF Register, JobOutcomeKept
    <3>. QED  BY Zenon, <1>6, <2>2, <3>1, AnswerInvMove DEF Register
  <2>. QED  BY Zenon, <2>1, <2>2
<1>7. CASE EnterPhase(w)
  <2>1. c \in Calls
    BY Zenon, <1>2, <1>7 DEF EnterPhase
  <2>2. JobOutcomeKept
    <3> DEFINE j == [job[c] EXCEPT !.phase = StageOf[w]]
    <3>1. job' = job \/ job' = [job EXCEPT ![c] = j]
      BY Zenon, <1>7 DEF EnterPhase
    <3>2. /\ j.runResults = job[c].runResults /\ j.evalResults = job[c].evalResults
          /\ j.event = job[c].event /\ j.timeoutError = job[c].timeoutError
          /\ j.results = job[c].results
      BY Zenon, <1>1, <2>1, PhaseFields
    <3> HIDE DEF j
    <3>3. \A d \in Calls : job'[d] = job[d] \/ (d = c /\ job'[d] = j)
      BY Zenon, <1>1, <3>1
    <3>. QED  BY Zenon, <3>2, <3>3 DEF JobOutcomeKept
  <2>. QED  BY Zenon, <1>7, <2>2, AnswerInvMove DEF EnterPhase
<1>8. CASE Arm(w)
  <2>1. c \in Calls
    BY Zenon, <1>2, <1>8 DEF Arm
  <2>2. JobOutcomeKept
    <3>1. CASE UNCHANGED job
      BY Zenon, <3>1 DEF JobOutcomeKept
    <3>2. CASE job' = [job EXCEPT ![c] = [job[c] EXCEPT !.task = w, !.cancelled = FALSE]]
      BY <1>1, <2>1, <3>2, TaskFields DEF JobOutcomeKept
    <3>. QED  BY Zenon, <1>8, <3>1, <3>2 DEF Arm
  <2>. QED  BY Zenon, <1>8, <2>2, AnswerInvMove DEF Arm
<1>9. CASE TaskSucceeds(w)
  <2>1. JobOutcomeKept
    BY Zenon, <1>9 DEF TaskSucceeds, JobOutcomeKept
  <2>. QED  BY Zenon, <1>9, <2>1, AnswerInvMove DEF TaskSucceeds
<1>10. CASE TaskFails(w)
  <2>1. c \in Calls
    BY Zenon, <1>2, <1>10 DEF TaskFails
  <2>2. JobOutcomeKept
    <3> DEFINE j == [job[c] EXCEPT !.task = NoWorker, !.cancelled = FALSE]
    <3>1. job' = [job EXCEPT ![c] = j]
      BY Zenon, <1>10 DEF TaskFails
    <3>2. /\ j.runResults = job[c].runResults /\ j.evalResults = job[c].evalResults
          /\ j.event = job[c].event /\ j.timeoutError = job[c].timeoutError
          /\ j.results = job[c].results
      BY <1>1, <2>1, TaskFields
    <3> HIDE DEF j
    <3>3. \A d \in Calls : job'[d] = job[d] \/ (d = c /\ job'[d] = j)
      BY Zenon, <1>1, <3>1
    <3>. QED  BY <3>2, <3>3 DEF JobOutcomeKept
  <2>. QED  BY Zenon, <1>10, <2>2, AnswerInvMove DEF TaskFails
<1>13. CASE ExitPhase(w)
  <2>1. c \in Calls
    BY Zenon, <1>2, <1>13 DEF ExitPhase
  <2>2. JobOutcomeKept
    <3> DEFINE j == [job[c] EXCEPT !.phase = "others"]
    <3>1. job' = [job EXCEPT ![c] = j]
      BY Zenon, <1>13 DEF ExitPhase
    <3>2. /\ j.runResults = job[c].runResults /\ j.evalResults = job[c].evalResults
          /\ j.event = job[c].event /\ j.timeoutError = job[c].timeoutError
          /\ j.results = job[c].results
      BY ZenonT(30), <1>1, <2>1, PhaseFields
    <3> HIDE DEF j
    <3>3. \A d \in Calls : job'[d] = job[d] \/ (d = c /\ job'[d] = j)
      BY <1>1, <3>1
    <3>. QED  BY <3>2, <3>3 DEF JobOutcomeKept
  <2>. QED  BY Zenon, <1>13, <2>2, AnswerInvMove DEF ExitPhase
<1>15. CASE Finally(w)
  BY Zenon, <1>15, AnswerInvRestart DEF Finally
<1>4. CASE Dequeue(w)
  <2> DEFINE s == StageOf[w]
  <2>1. queue[s] \in Seq(Ids \union {STOP}) /\ queue[s] # <<>>
    BY Zenon, <1>1, <1>3, <1>4 DEF Dequeue
  <2>2. queue'["eval"] = IF s = "eval" THEN Tail(queue[s]) ELSE queue["eval"]
    BY Zenon, <1>1, <1>3, <1>4 DEF Dequeue, Stages
  <2>3. \A d \in Calls : Queued("eval", IdOf[d])' => Queued("eval", IdOf[d])
    BY <2>1, <2>2, QueuedTail DEF Queued
  <2>4. \A d \in Calls : s = "eval" /\ Head(queue[s]) = IdOf[d] => job[d].runResults
    BY <2>1 DEF AnswerInv, RanBeforeEval, Queued
  <2>5. \A d \in Calls, v \in Workers :
          StageOf[v] = "eval" /\ wid'[v] = IdOf[d] => job'[d].runResults
    BY Zenon, <1>1, <1>4, <2>4 DEF Dequeue, AnswerInv, RanBeforeEval
  <2>6. \A v \in Workers :
          StageOf[v] = "run" /\ wpc'[v] = "handover" => job'[wcall'[v]].runResults
    BY Zenon, <1>1, <1>4 DEF Dequeue, Goto, AnswerInv, RanBeforeEval
  <2>8. Naming'
    BY ZenonT(30), <1>1, <1>4 DEF Dequeue, Goto, AnswerInv, Naming
  <2>. QED  BY Zenon, <1>4, <2>3, <2>5, <2>6, <2>8 DEF Dequeue, AnswerInv, SignalCause,
     RanBeforeEval,
                                                AnswerSound
<1>11. CASE Resume(w)
  <2> DEFINE s == StageOf[w]
             j == Stored(job[c], s, wrt[w])
  <2>1. c \in Calls
    BY Zenon, <1>2, <1>11 DEF Resume
  <2>2. job' = [job EXCEPT ![c] = j]
    BY Zenon, <1>11 DEF Resume
  <2>3. /\ j.runResults <=> (job[c].runResults \/ s = "run")
        /\ j.evalResults <=> (job[c].evalResults \/ s = "eval")
        /\ j.event <=> (job[c].event \/ s = "eval")
        /\ j.timeoutError <=> job[c].timeoutError
        /\ j.results = job[c].results
    <3>1. wrt[w] \in Nat
      BY Zenon DEF TypeInv, TypeOK
    <3>2. job[c] \in JobDetails
      BY Zenon, <1>1, <2>1
    <3>. QED  BY Zenon, <1>3, <3>1, <3>2, StoredFields
  <2> HIDE DEF j
  <2>4. \A d \in Calls : job[d].runResults => job'[d].runResults
    BY Zenon, <1>1, <2>1, <2>2, <2>3
  <2>5. s = "eval" => job[c].runResults
    BY Zenon, <1>11, <2>1 DEF Resume, AnswerInv, Naming, RanBeforeEval
  <2>11. \A d \in Calls : job[d].evalResults => job[d].runResults
    BY Zenon DEF AnswerInv, RanBeforeEval
  <2>6. \A d \in Calls : job'[d].evalResults => job'[d].runResults
    <3> SUFFICES ASSUME NEW d \in Calls, job'[d].evalResults PROVE job'[d].runResults
      OBVIOUS
    <3>1. CASE d = c
      <4>1. job'[d] = j
        BY Zenon, <1>1, <2>2, <3>1
      <4>. QED  BY Zenon, <2>3, <2>5, <2>11, <3>1, <4>1
    <3>2. CASE d # c
      <4>1. job'[d] = job[d]
        BY Zenon, <1>1, <2>2, <3>2
      <4>. QED  BY Zenon, <2>11, <4>1
    <3>. QED  BY Zenon, <3>1, <3>2
  <2>7. SignalCause'
    <3>1. \A d \in Calls \ {c} : job'[d] = job[d]
      BY Zenon, <1>1, <2>2
    <3>2. job'[c] = j
      BY Zenon, <1>1, <2>1, <2>2
    <3>. QED  BY Zenon, <2>1, <2>3, <3>1, <3>2 DEF AnswerInv, SignalCause
  <2>8. AnswerSound'
    BY Zenon, <1>1, <1>11, <2>1, <2>2, <2>3 DEF Resume, AnswerInv, AnswerSound
  <2>9. \A v \in Workers :
          StageOf[v] = "run" /\ wpc'[v] = "handover" => job'[wcall'[v]].runResults
    <3> SUFFICES ASSUME NEW v \in Workers, StageOf[v] = "run", wpc'[v] = "handover"
                 PROVE job'[wcall[v]].runResults
      BY Zenon, <1>11 DEF Resume
    <3>1. CASE v = w
      BY Zenon, <1>1, <2>1, <2>2, <2>3, <3>1
    <3>2. CASE v # w
      <4>1. wpc[v] = "handover"
        BY Zenon, <1>1, <1>11, <3>2 DEF Resume, Goto
      <4>. QED  BY Zenon, <2>4, <4>1 DEF AnswerInv, RanBeforeEval, TypeInv, WorkerLocals
    <3>. QED  BY Zenon, <3>1, <3>2
  <2>10. Naming'
    BY Zenon, <1>1, <1>11 DEF Resume, Goto, AnswerInv, Naming
  <2>. QED  BY Zenon, <1>11, <2>4, <2>6, <2>7, <2>8, <2>9, <2>10 DEF Resume, AnswerInv,
     RanBeforeEval,
                                                              Queued
<1>12. CASE HandOver(w)
  <2>1. /\ c \in Calls /\ wid[w] \in Ids /\ NextQueue[StageOf[w]] \in Stages
        /\ IdOf[c] = wid[w]
    <3>1. c \in Calls /\ wid[w] \in Ids /\ NextQueue[StageOf[w]] \in Stages
      BY Zenon, <1>2, <1>12 DEF HandOver, NextQueue, Stages
    <3>. QED  BY Zenon, <1>12, <3>1 DEF HandOver, AnswerInv, Naming
  <2>2. ASSUME NEW d \in Calls, Queued("eval", IdOf[d])' PROVE job[d].runResults
    <3>1. CASE StageOf[w] = "run"
      <4>5. NextQueue[StageOf[w]] = "eval"
        BY Zenon, <3>1 DEF NextQueue
      <4>6. queue' = [queue EXCEPT !["eval"] = Append(queue["eval"], wid[w])]
        BY Zenon, <1>12, <4>5 DEF HandOver
      <4>1. queue'["eval"] = Append(queue["eval"], wid[w])
        BY Zenon, <1>1, <4>6 DEF Stages
      <4>2. queue["eval"] \in Seq(Ids \union {STOP})
        BY Zenon, <1>1 DEF Stages
      <4>3. Queued("eval", IdOf[d]) \/ IdOf[d] = wid[w]
        <5> DEFINE q == queue["eval"]
                   S == Ids \union {STOP}
                   e == wid[w]
        <5>1. PICK k \in 1..Len(Append(q, e)) : Append(q, e)[k] = IdOf[d]
          BY Zenon, <2>2, <4>1 DEF Queued
        <5>2. q \in Seq(S) /\ e \in S
          BY Zenon, <2>1, <4>2
        <5>3. (k \in 1..Len(q) /\ q[k] = IdOf[d]) => Queued("eval", IdOf[d])
          BY Zenon DEF Queued
        <5> HIDE DEF q, S, e
        <5>4. Append(q, e)[k] # e => k \in 1..Len(q) /\ q[k] = Append(q, e)[k]
          BY <5>1, <5>2, AppendElement
        <5>5. IdOf[d] = e => IdOf[d] = wid[w]
          BY Zenon DEF e
        <5>. QED  BY Zenon, <5>1, <5>3, <5>4, <5>5
      <4>4. job[c].runResults
        BY Zenon, <1>12, <3>1 DEF HandOver, AnswerInv, RanBeforeEval
      <4>. QED  BY Zenon, <2>1, <4>3, <4>4 DEF InjectiveIds, AnswerInv, RanBeforeEval
    <3>2. CASE StageOf[w] # "run"
      <4>4. StageOf[w] = "init"
        BY Zenon, <1>2, <1>12, <3>2 DEF HandOver
      <4>2. NextQueue[StageOf[w]] = "run"
        BY Zenon, <4>4 DEF NextQueue
      <4>3. queue' = [queue EXCEPT !["run"] = Append(queue["run"], wid[w])]
        BY Zenon, <1>12, <4>2 DEF HandOver
      <4>1. queue'["eval"] = queue["eval"]
        BY Zenon, <1>1, <4>3 DEF Stages
      <4>. QED  BY Zenon, <2>2, <4>1 DEF Queued, AnswerInv, RanBeforeEval
    <3>. QED  BY Zenon, <3>1, <3>2
  <2>3. \A v \in Workers :
          StageOf[v] = "run" /\ wpc'[v] = "handover" => job'[wcall'[v]].runResults
    BY Zenon, <1>1, <1>12 DEF HandOver, Goto, AnswerInv, RanBeforeEval
  <2>4. Naming'
    BY Zenon, <1>1, <1>12 DEF HandOver, Goto, AnswerInv, Naming
  <2>. QED  BY Zenon, <1>12, <2>2, <2>3, <2>4 DEF HandOver, AnswerInv, SignalCause, RanBeforeEval,
                                           AnswerSound
<1>14. CASE Except(w)
  <2> DEFINE b == wout[w] \in {"timeout", "nophase"}
             j == Failed(job[c], StageOf[w], b)
             r == Reported(j, StageOf[w])
  <2>1. c \in Calls
    BY Zenon, <1>2, <1>14 DEF Except
  <2>2. job' = [job EXCEPT ![c] = r] \/ job' = [job EXCEPT ![c] = j]
    BY Zenon, <1>14 DEF Except
  <2>6. b \in BOOLEAN /\ job[c] \in JobDetails
    BY <1>1, <2>1
  <2> HIDE DEF b
  <2>3. /\ j \in JobDetails
        /\ j.runResults <=> job[c].runResults
        /\ j.evalResults <=> job[c].evalResults
        /\ j.event <=> job[c].event
        /\ j.results = job[c].results
        /\ j.timeoutError \/ (j.timeoutError <=> job[c].timeoutError)
    <3>1. j \in JobDetails
      BY Zenon, <2>6, FailedType
    <3>. QED  BY ZenonT(30), <2>6, <3>1, FailedFields
  <2> HIDE DEF j
  <2>4. /\ r.runResults <=> j.runResults
        /\ r.evalResults <=> j.evalResults
        /\ r.results # "none"
    BY Zenon, <1>3, <2>3 DEF Reported, JobDetails, Stages
  <2> HIDE DEF r
  <2>7. \A d \in Calls \ {c} : job'[d] = job[d]
    BY Zenon, <1>1, <2>2
  <2>8. job'[c] = r \/ job'[c] = j
    BY Zenon, <1>1, <2>1, <2>2
  <2>5. JobOutcomeKept
    BY Zenon, <2>1, <2>3, <2>4, <2>7, <2>8 DEF JobOutcomeKept
  <2>. QED  BY Zenon, <1>14, <2>5, AnswerInvMove DEF Except
<1>. QED  BY Zenon, <1>4, <1>5, <1>6, <1>7, <1>8, <1>9, <1>10, <1>11, <1>12, <1>13, <1>14, <1>15
          DEF WorkerStep

LEMMA AnswerInvNext ==
  ASSUME InjectiveIds PROVE TypeInv /\ AnswerInv /\ [Next]_vars => AnswerInv'
<1> SUFFICES ASSUME TypeInv, AnswerInv, [Next]_vars PROVE AnswerInv'
  OBVIOUS
<1>1. CASE UNCHANGED vars
  BY Zenon, <1>1 DEF vars, serverVars, objectVars, workerVars, clientVars, stopVars, AnswerInv, Naming,
              SignalCause, RanBeforeEval, AnswerSound, Queued
<1>. QED  BY Zenon, <1>1, AnswerInvStart, AnswerInvProcess, AnswerInvWorker, AnswerInvCancel,
             AnswerInvStop DEF Next

(* Whatever is cancelled, stopped, restarted or raised: process() answers   *)
(* without a critical_error only if the job was run and evaluated.          *)
THEOREM AnswerCorrect == ASSUME InjectiveIds PROVE Spec => []AnswerSound
<1>1. Init => AnswerInv
  BY Zenon, AnswerInvInit
<1>2. TypeInv /\ AnswerInv /\ [Next]_vars => AnswerInv'
  BY Zenon, AnswerInvNext
<1>3. AnswerInv => AnswerSound
  BY Zenon DEF AnswerInv
<1>. QED  BY <1>1, <1>2, <1>3, TypeInvAlways, PTL DEF Spec

-----------------------------------------------------------------------------
(***************************************************************************)
(* What happens to one job: who drives it, and how often each of its       *)
(* stages is run, when no two calls share an id.                           *)
(***************************************************************************)

(* The call has not put its id on the init queue yet.                       *)
Early(c) == ppc[c] \in {"idle", "admitted", "stored"}

(* The worker has the id of a job that it may still drive, or whose failure *)
(* it still has to report.                                                  *)
Carries(w) == wpc[w] \in {"lookup", "register", "enter", "arm", "await", "resume", "handover"}
Owns(w) == Carries(w) \/ wpc[w] = "except" \/ (wpc[w] = "exit" /\ wout[w] # "ok")

In(q, i) == \E k \in 1..Len(q) : q[k] = i
Once(q) == \A k, l \in 1..Len(q) : q[k] = q[l] /\ q[k] \in Ids => k = l

(* An id is on one queue, once, or with one worker, or was never put.       *)
TokenInv ==
  /\ \A s \in Stages : Once(queue[s])
  /\ \A i \in Ids : \A s, t \in Stages : Queued(s, i) /\ Queued(t, i) => s = t
  /\ \A v, w \in Workers : Owns(v) /\ Owns(w) /\ wid[v] = wid[w] => v = w
  /\ \A w \in Workers : \A s \in Stages : Owns(w) => ~Queued(s, wid[w])
  /\ \A c \in Calls : Early(c) => /\ \A s \in Stages : ~Queued(s, IdOf[c])
                                  /\ \A w \in Workers : Owns(w) => wid[w] # IdOf[c]
  /\ \A w \in Workers : wpc[w] \in {"resume", "handover"} => wout[w] = "ok"

(* The stage that the job a worker carries has come to.                     *)
Stand(w) ==
  IF wpc[w] = "handover" \/ (wpc[w] = "resume" /\ StageOf[w] = "init")
  THEN NextQueue[StageOf[w]] ELSE StageOf[w]

At(c, s) ==
  \/ Early(c) /\ s = "init"
  \/ Queued(s, IdOf[c])
  \/ \E w \in Workers : Carries(w) /\ wid[w] = IdOf[c] /\ Stand(w) = s

(* The stages from s on have left no result.                                *)
Ahead(c, s) ==
  /\ s = "init" => opened[c] = 0
  /\ s \in {"init", "run"} => ~job[c].runResults
  /\ ~job[c].evalResults

StageInv == \A c \in Calls : \A s \in Stages : At(c, s) => Ahead(c, s)

-----------------------------------------------------------------------------
(* Queues *)

LEMMA TailOnce ==
  ASSUME NEW q \in Seq(Ids \union {STOP}), q # <<>>, Once(q)
  PROVE  /\ Once(Tail(q))
         /\ \A i : In(Tail(q), i) => In(q, i)
         /\ In(q, Head(q)) /\ (Head(q) \in Ids => ~In(Tail(q), Head(q)))
  <1>1. /\ \A k \in 1..Len(Tail(q)) : k + 1 \in 1..Len(q) /\ k + 1 # 1 /\ Tail(q)[k] = q[k + 1]
        /\ 1 \in 1..Len(q) /\ Head(q) = q[1]
    OBVIOUS
  <1>2. Once(Tail(q))
    <2> SUFFICES ASSUME NEW k \in 1..Len(Tail(q)), NEW l \in 1..Len(Tail(q)),
                        Tail(q)[k] = Tail(q)[l], Tail(q)[k] \in Ids
                 PROVE  k = l
      BY DEF Once
    <2>1. k + 1 = l + 1
      BY <1>1 DEF Once
    <2>2. QED  BY <2>1
  <1>3. QED  BY <1>1, <1>2 DEF Once, In

LEMMA AppendOnce ==
  ASSUME NEW q \in Seq(Ids \union {STOP}), NEW e \in Ids
  PROVE  /\ Append(q, e) \in Seq(Ids \union {STOP})
         /\ \A i : In(Append(q, e), i) <=> i = e \/ In(q, i)
         /\ Once(q) /\ ~In(q, e) => Once(Append(q, e))
  <1> DEFINE a == Append(q, e)
  <1>1. /\ Len(a) = Len(q) + 1 /\ Len(q) \in Nat /\ a[Len(q) + 1] = e
        /\ \A k \in 1..Len(q) : a[k] = q[k]
        /\ a \in Seq(Ids \union {STOP})
    OBVIOUS
  <1> HIDE DEF a
  <1>2. /\ \A k \in 1..Len(a) : k = Len(a) \/ k \in 1..Len(q)
        /\ \A k \in 1..Len(q) : k \in 1..Len(a)
        /\ Len(a) \in 1..Len(a)
    BY <1>1
  <1>3. \A i : In(a, i) <=> i = e \/ In(q, i)
    BY <1>1, <1>2 DEF In
  <1>4. Once(q) /\ ~In(q, e) => Once(a)
    BY <1>1, <1>2 DEF Once, In
  <1>5. QED  BY <1>1, <1>3, <1>4 DEF a

Sentinels(n) == [k \in 1..n |-> STOP]

LEMMA SentinelsOnce ==
  ASSUME NEW q \in Seq(Ids \union {STOP}), NEW n \in Nat
  PROVE  /\ \A i \in Ids : In(q \o Sentinels(n), i) => In(q, i)
         /\ Once(q) => Once(q \o Sentinels(n))
  <1> DEFINE S == Ids \union {STOP}
             z == Sentinels(n)
  <1>1. z \in Seq(S) /\ \A l \in 1..Len(z) : z[l] = STOP
    BY DEF Sentinels
  <1>2. \A i \in Ids : i # STOP
    BY Zenon, ConstantsAssumption
  <1>3. q \in Seq(S)
    OBVIOUS
  <1> HIDE DEF z, S
  <1>4. \A k \in 1..Len(q \o z) : (q \o z)[k] # STOP => k \in 1..Len(q) /\ q[k] = (q \o z)[k]
    BY ZenonT(30), <1>1, <1>3, SentinelTail
  <1>5. \A i \in Ids : In(q \o z, i) => In(q, i)
    BY Zenon, <1>2, <1>4 DEF In
  <1>6. Once(q) => Once(q \o z)
    BY Zenon, <1>2, <1>4 DEF Once
  <1>7. QED  BY Zenon, <1>5, <1>6 DEF z

-----------------------------------------------------------------------------
(* One place per id *)

LEMMA TokenInit == Init => TokenInv
  <1> SUFFICES ASSUME Init PROVE TokenInv
    OBVIOUS
  <1>1. \A s \in Stages : queue[s] = <<>>
    BY Zenon DEF Init
  <1>2. \A w \in Workers : wpc[w] = "off" /\ ~Owns(w)
    BY Zenon DEF Init, Owns, Carries
  <1>3. QED  BY <1>1, <1>2 DEF TokenInv, Once, Queued

(* Steps that put nothing on a queue, take nothing from one, and make no   *)
(* worker an owner.                                                         *)
LEMMA TokenKept ==
  ASSUME TokenInv, UNCHANGED queue,
         \A w \in Workers : /\ Owns(w)' => Owns(w) /\ wid'[w] = wid[w]
                            /\ wpc'[w] \in {"resume", "handover"} => wout'[w] = "ok",
         \A c \in Calls : Early(c)' => Early(c)
  PROVE  TokenInv'
  <1>1. /\ \A s \in Stages : Once(queue[s])'
        /\ \A s \in Stages, i \in Ids : Queued(s, i)' <=> Queued(s, i)
    BY Zenon DEF TokenInv, Queued, Once
  <1>2. \A v, w \in Workers : Owns(v)' /\ Owns(w)' /\ wid'[v] = wid'[w] => v = w
    BY Zenon DEF TokenInv
  <1>3. \A w \in Workers : \A s \in Stages : Owns(w)' => ~Queued(s, wid[w])'
    BY DEF TokenInv, Queued
  <1>4. \A c \in Calls : Early(c)' => /\ \A s \in Stages : ~Queued(s, IdOf[c])'
                                      /\ \A w \in Workers : Owns(w)' => wid'[w] # IdOf[c]
    BY DEF TokenInv, Queued
  <1>5. QED  BY Zenon, <1>1, <1>2, <1>3, <1>4 DEF TokenInv
(* A worker touches its own locals only.                                    *)
LEMMA WorkerFrame ==
  ASSUME NEW w \in Workers, TypeInv, WorkerStep(w)
  PROVE  \A v \in Workers \ {w} : /\ wpc'[v] = wpc[v] /\ wid'[v] = wid[v]
                                  /\ wcall'[v] = wcall[v] /\ wrt'[v] = wrt[v]
                                  /\ wout'[v] = wout[v]
  <1> USE DEF WorkerAt, Goto
  <1>1. /\ wpc \in [Workers -> WorkerLocs] /\ wid \in [Workers -> Ids \union {STOP}]
        /\ wcall \in [Workers -> Calls \union {NoCall}]
        /\ wrt \in [Workers -> Nat] /\ wout \in [Workers -> Outcomes]
    BY Zenon DEF TypeInv, TypeOK
  <1>2. CASE Dequeue(w)
    BY Zenon, <1>1, <1>2 DEF Dequeue
  <1>3. CASE Lookup(w)
    BY <1>1, <1>3 DEF Lookup, Restart
  <1>4. CASE Register(w)
    BY <1>1, <1>4 DEF Register, Restart
  <1>5. CASE EnterPhase(w)
    BY Zenon, <1>1, <1>5 DEF EnterPhase
  <1>6. CASE Arm(w)
    BY Zenon, <1>1, <1>6 DEF Arm
  <1>7. CASE TaskSucceeds(w)
    BY Zenon, <1>1, <1>7 DEF TaskSucceeds
  <1>8. CASE TaskFails(w)
    BY Zenon, <1>1, <1>8 DEF TaskFails
  <1>9. CASE Resume(w)
    BY Zenon, <1>1, <1>9 DEF Resume
  <1>10. CASE HandOver(w)
    BY Zenon, <1>1, <1>10 DEF HandOver
  <1>11. CASE ExitPhase(w)
    BY Zenon, <1>1, <1>11 DEF ExitPhase
  <1>12. CASE Except(w)
    BY Zenon, <1>1, <1>12 DEF Except
  <1>13. CASE Finally(w)
    BY Zenon, <1>1, <1>13 DEF Finally, Restart
  <1>14. QED  BY ZenonT(30), <1>2, <1>3, <1>4, <1>5, <1>6, <1>7, <1>8, <1>9, <1>10, <1>11, <1>12,
     <1>13
              DEF WorkerStep

(* All its steps but the ones on queues keep the job it owns, or let go.    *)
Internal(w) ==
  \/ Lookup(w) \/ Register(w) \/ EnterPhase(w) \/ Arm(w) \/ TaskSucceeds(w) \/ TaskFails(w)
  \/ Resume(w) \/ ExitPhase(w) \/ Except(w) \/ Finally(w)

LEMMA OwnerMoves ==
  ASSUME NEW w \in Workers, TypeInv, TokenInv, Internal(w)
  PROVE  /\ Owns(w)' => Owns(w) /\ wid'[w] = wid[w]
         /\ wpc'[w] \in {"resume", "handover"} => wout'[w] = "ok"
         /\ UNCHANGED <<queue, ppc>>
  <1> USE DEF WorkerAt, Goto, Owns, Carries, clientVars, serverVars
  <1>1. /\ wpc \in [Workers -> WorkerLocs] /\ wid \in [Workers -> Ids \union {STOP}]
        /\ wout \in [Workers -> Outcomes]
    BY Zenon DEF TypeInv, TypeOK
  <1>2. CASE Lookup(w)
    BY ZenonT(30), <1>1, <1>2 DEF Lookup, Restart
  <1>3. CASE Register(w)
    BY Zenon, <1>1, <1>3 DEF Register, Restart
  <1>4. CASE EnterPhase(w)
    BY Zenon, <1>1, <1>4 DEF EnterPhase
  <1>5. CASE Arm(w)
    BY Zenon, <1>1, <1>5 DEF Arm
  <1>6. CASE TaskSucceeds(w)
    BY Zenon, <1>1, <1>6 DEF TaskSucceeds
  <1>7. CASE TaskFails(w)
    BY Zenon, <1>1, <1>7 DEF TaskFails
  <1>8. CASE Resume(w)
    BY Zenon, <1>1, <1>8 DEF Resume, TokenInv
  <1>9. CASE ExitPhase(w)
    BY Zenon, <1>1, <1>9 DEF ExitPhase
  <1>10. CASE Except(w)
    BY Zenon, <1>1, <1>10 DEF Except
  <1>11. CASE Finally(w)
    BY Zenon, <1>1, <1>11 DEF Finally, Restart
  <1>12. QED
    BY ZenonT(30), <1>2, <1>3, <1>4, <1>5, <1>6, <1>7, <1>8, <1>9, <1>10, <1>11 DEF Internal

LEMMA TokenInternal ==
  ASSUME NEW w \in Workers, TypeInv, TokenInv, Internal(w) PROVE TokenInv'
  <1>1. \A v \in Workers \ {w} : /\ wpc'[v] = wpc[v] /\ wid'[v] = wid[v] /\ wout'[v] = wout[v]
    BY Zenon, WorkerFrame DEF Internal, WorkerStep
  <1>2. \A v \in Workers : /\ Owns(v)' => Owns(v) /\ wid'[v] = wid[v]
                           /\ wpc'[v] \in {"resume", "handover"} => wout'[v] = "ok"
    <2>1. \A v \in Workers \ {w} : /\ Owns(v)' => Owns(v) /\ wid'[v] = wid[v]
                                   /\ wpc'[v] \in {"resume", "handover"} => wout'[v] = "ok"
      BY Zenon, <1>1 DEF Owns, Carries, TokenInv
    <2>2. QED  BY Zenon, <2>1, OwnerMoves
  <1>3. QED  BY Zenon, <1>2, OwnerMoves, TokenKept DEF Early

LEMMA TokenDequeue ==
  ASSUME NEW w \in Workers, TypeInv, TokenInv, Dequeue(w) PROVE TokenInv'
  <1> DEFINE s == StageOf[w]  h == Head(queue[s])
  <1>1. /\ queue \in [Stages -> Seq(Ids \union {STOP})] /\ s \in Stages
        /\ wpc \in [Workers -> WorkerLocs] /\ wid \in [Workers -> Ids \union {STOP}]
    BY Zenon, ConstantsAssumption DEF TypeInv, TypeOK
  <1>2. /\ queue[s] # <<>> /\ queue' = [queue EXCEPT ![s] = Tail(queue[s])] /\ wpc[w] = "get"
        /\ UNCHANGED <<ppc, wout>>
    BY Zenon DEF Dequeue, WorkerAt, clientVars
  <1>3. /\ queue'[s] = Tail(queue[s]) /\ \A t \in Stages \ {s} : queue'[t] = queue[t]
        /\ queue[s] \in Seq(Ids \union {STOP}) /\ Once(queue[s])
    BY Zenon, <1>1, <1>2 DEF TokenInv
  <1>4. /\ Once(queue'[s]) /\ \A i : In(queue'[s], i) => In(queue[s], i)
        /\ In(queue[s], h) /\ (h \in Ids => ~In(queue'[s], h))
    BY <1>2, <1>3, TailOnce
  <1>5. \A t \in Stages, i \in Ids : In(queue'[t], i) => In(queue[t], i)
    BY Zenon, <1>3, <1>4
  <1>6. \A v \in Workers \ {w} : /\ Owns(v)' <=> Owns(v)
                                 /\ wid'[v] = wid[v] /\ wpc'[v] = wpc[v]
    <2>1. \A v \in Workers \ {w} : wid'[v] = wid[v] /\ wpc'[v] = wpc[v]
      BY Zenon, WorkerFrame DEF WorkerStep
    <2>2. QED  BY Zenon, <1>2, <2>1 DEF Owns, Carries
  <1>7. Owns(w)' => h \in Ids /\ wid'[w] = h /\ wpc'[w] = "lookup"
    <2>1. h \in Ids \union {STOP}
      BY <1>2, <1>3
    <2>2. QED  BY Zenon, <1>1, <1>2, <2>1 DEF Dequeue, Goto, Owns, Carries
  <1> HIDE DEF h, s
  <1>8. \A t \in Stages : Once(queue'[t])
    BY Zenon, <1>3, <1>4 DEF TokenInv
  <1>9. h \in Ids => \A t \in Stages : ~In(queue'[t], h)
    <2>1. \A i \in Ids : \A t, u \in Stages : In(queue[t], i) /\ In(queue[u], i) => t = u
      BY Zenon DEF TokenInv, Queued, In
    <2>2. QED  BY Zenon, <1>1, <1>4, <1>5, <2>1
  <1>10. h \in Ids => \A v \in Workers : Owns(v) => wid[v] # h
    BY <1>1, <1>4 DEF TokenInv, Queued, In
  <1>11. \A v, u \in Workers : Owns(v)' /\ Owns(u)' /\ wid'[v] = wid'[u] => v = u
    BY ZenonT(30), <1>6, <1>7, <1>10 DEF TokenInv
  <1>12. \A v \in Workers : \A t \in Stages : Owns(v)' => ~In(queue'[t], wid'[v])
    <2> SUFFICES ASSUME NEW v \in Workers, NEW t \in Stages, Owns(v)' PROVE ~In(queue'[t], wid'[v])
      OBVIOUS
    <2>1. CASE v = w
      BY Zenon, <1>7, <1>9, <2>1
    <2>2. CASE v # w
      <3>1. wid[v] \in Ids /\ ~In(queue[t], wid[v])
        BY ZenonT(30), <1>6, <2>2 DEF TokenInv, TypeInv, WorkerLocals, Owns, Carries, Queued, In
      <3>2. QED  BY Zenon, <1>5, <1>6, <2>2, <3>1
    <2>3. QED  BY Zenon, <2>1, <2>2
  <1>13. \A c \in Calls : Early(c)' => /\ \A t \in Stages : ~In(queue'[t], IdOf[c])
                                       /\ \A v \in Workers : Owns(v)' => wid'[v] # IdOf[c]
    <2>1. \A c \in Calls : IdOf[c] \in Ids
      BY Zenon, ConstantsAssumption
    <2>2. \A c \in Calls : Early(c)' => Early(c) /\ IdOf[c] # h
      BY <1>1, <1>2, <1>4 DEF Early, TokenInv, Queued, In
    <2>3. QED  BY <1>5, <1>6, <1>7, <2>1, <2>2 DEF TokenInv, Queued, In
  <1>14. \A v \in Workers : wpc'[v] \in {"resume", "handover"} => wout'[v] = "ok"
    BY <1>1, <1>2, <1>6 DEF TokenInv, Dequeue, Goto
  <1>15. \A i \in Ids : \A t, u \in Stages : In(queue'[t], i) /\ In(queue'[u], i) => t = u
    BY <1>5 DEF TokenInv, Queued, In
  <1>16. QED  BY Zenon, <1>8, <1>11, <1>12, <1>13, <1>14, <1>15 DEF TokenInv, Queued, In

(* An id that is nowhere is put on a queue.                                 *)
LEMMA TokenPut ==
  ASSUME TypeInv, TokenInv, NEW i \in Ids, NEW s \in Stages,
         queue' = [queue EXCEPT ![s] = Append(queue[s], i)],
         \A t \in Stages : ~Queued(t, i),
         \A w \in Workers : /\ Owns(w)' => Owns(w) /\ wid'[w] = wid[w] /\ wid[w] # i
                            /\ wpc'[w] \in {"resume", "handover"} => wout'[w] = "ok",
         \A c \in Calls : Early(c)' => Early(c) /\ IdOf[c] # i
  PROVE  TokenInv'
  <1>1. queue \in [Stages -> Seq(Ids \union {STOP})] /\ queue[s] \in Seq(Ids \union {STOP})
    BY Zenon DEF TypeInv, TypeOK
  <1>2. queue'[s] = Append(queue[s], i) /\ \A t \in Stages \ {s} : queue'[t] = queue[t]
    BY Zenon, <1>1
  <1>3. /\ \A t \in Stages : Once(queue[t]) /\ ~In(queue[t], i)
        /\ \A j \in Ids : \A t, u \in Stages : In(queue[t], j) /\ In(queue[u], j) => t = u
    BY Zenon DEF TokenInv, Queued, In
  <1>4. \A j : In(queue'[s], j) <=> j = i \/ In(queue[s], j)
    BY Zenon, <1>1, <1>2, AppendOnce
  <1>5. Once(queue'[s])
    BY Zenon, <1>1, <1>2, <1>3, AppendOnce
  <1>6. \A t \in Stages, j \in Ids : In(queue'[t], j) => In(queue[t], j) \/ (j = i /\ t = s)
    BY Zenon, <1>2, <1>4
  <1>7. \A w \in Workers : Owns(w)' => wid'[w] \in Ids
    BY Zenon DEF TypeInv, WorkerLocals, Owns, Carries
  <1>8. \A w \in Workers : \A t \in Stages : Owns(w)' => ~In(queue'[t], wid'[w])
    BY <1>6, <1>7 DEF TokenInv, Queued, In
  <1>9. \A c \in Calls : Early(c)' => /\ \A t \in Stages : ~In(queue'[t], IdOf[c])
                                      /\ \A w \in Workers : Owns(w)' => wid'[w] # IdOf[c]
    <2>1. \A c \in Calls : IdOf[c] \in Ids
      BY Zenon, ConstantsAssumption
    <2>2. \A c \in Calls : Early(c) => /\ \A t \in Stages : ~In(queue[t], IdOf[c])
                                       /\ \A w \in Workers : Owns(w) => wid[w] # IdOf[c]
      BY Zenon DEF TokenInv, Queued, In
    <2>3. QED  BY ZenonT(30), <1>6, <2>1, <2>2
  <1>10. \A t \in Stages : Once(queue'[t])
    BY Zenon, <1>2, <1>3, <1>5
  <1>11. \A j \in Ids : \A t, u \in Stages : In(queue'[t], j) /\ In(queue'[u], j) => t = u
    BY ZenonT(30), <1>3, <1>6
  <1>12. \A v, w \in Workers : Owns(v)' /\ Owns(w)' /\ wid'[v] = wid'[w] => v = w
    BY Zenon DEF TokenInv
  <1>13. QED  BY Zenon, <1>8, <1>9, <1>10, <1>11, <1>12 DEF TokenInv, Queued, In

LEMMA TokenHandOver ==
  ASSUME InjectiveIds, NEW w \in Workers, TypeInv, TokenInv, HandOver(w) PROVE TokenInv'
  <1> DEFINE n == NextQueue[StageOf[w]]
  <1>1. /\ wpc[w] = "handover" /\ Owns(w) /\ wout[w] = "ok" /\ wid[w] \in Ids /\ n \in Stages
    BY Zenon DEF HandOver, WorkerAt, TypeInv, WorkerLocals, TokenInv, Owns, Carries, NextQueue,
       Stages
  <1>2. queue' = [queue EXCEPT ![n] = Append(queue[n], wid[w])] /\ UNCHANGED <<wid, wout, ppc>>
    BY Zenon DEF HandOver, clientVars
  <1>3. wpc'[w] = "exit" /\ \A v \in Workers \ {w} : wpc'[v] = wpc[v]
    BY Zenon DEF HandOver, Goto, TypeInv, TypeOK
  <1> HIDE DEF n
  <1>4. ~Owns(w)'
    BY Zenon, <1>1, <1>2, <1>3 DEF Owns, Carries
  <1>5. \A v \in Workers : /\ Owns(v)' => Owns(v) /\ wid'[v] = wid[v] /\ wid[v] # wid[w]
                           /\ wpc'[v] \in {"resume", "handover"} => wout'[v] = "ok"
    <2>1. \A v \in Workers \ {w} : Owns(v)' => Owns(v) /\ wid[v] # wid[w]
      BY ZenonT(30), <1>1, <1>2, <1>3 DEF TokenInv, Owns, Carries
    <2>2. QED  BY Zenon, <1>2, <1>3, <1>4, <2>1 DEF TokenInv
  <1>6. \A c \in Calls : Early(c)' => Early(c) /\ IdOf[c] # wid[w]
    BY Zenon, <1>1, <1>2 DEF TokenInv, Early
  <1>7. \A t \in Stages : ~Queued(t, wid[w])
    BY Zenon, <1>1 DEF TokenInv
  <1>8. QED  BY Zenon, <1>1, <1>2, <1>5, <1>6, <1>7, TokenPut

LEMMA TokenEnqueue ==
  ASSUME InjectiveIds, NEW c \in Calls, TypeInv, TokenInv, Enqueue(c) PROVE TokenInv'
  <1>1. /\ Early(c) /\ IdOf[c] \in Ids /\ "init" \in Stages
        /\ queue' = [queue EXCEPT !["init"] = Append(queue["init"], IdOf[c])]
        /\ UNCHANGED <<wpc, wid, wout>>
    BY Zenon, ConstantsAssumption DEF Enqueue, Early, Stages, workerVars
  <1>2. ~Early(c)' /\ \A d \in Calls : Early(d)' => Early(d)
    BY Zenon DEF Enqueue, Early, TypeInv, TypeOK
  <1>3. \A d \in Calls : Early(d)' => Early(d) /\ IdOf[d] # IdOf[c]
    BY Zenon, <1>2 DEF InjectiveIds
  <1>4. /\ \A t \in Stages : ~Queued(t, IdOf[c])
        /\ \A w \in Workers : Owns(w) => wid[w] # IdOf[c]
    BY Zenon, <1>1 DEF TokenInv
  <1>5. \A w \in Workers : /\ Owns(w)' => Owns(w) /\ wid'[w] = wid[w] /\ wid[w] # IdOf[c]
                           /\ wpc'[w] \in {"resume", "handover"} => wout'[w] = "ok"
    BY Zenon, <1>1, <1>4 DEF TokenInv, Owns, Carries
  <1>6. QED  BY Zenon, <1>1, <1>3, <1>4, <1>5, TokenPut

(* stop() only puts sentinels, and empties the queues.                      *)
LEMMA QueuesEmptied ==
  ASSUME TypeInv, StopSentinels \/ StopClearQueues, NEW s \in Stages
  PROVE  /\ Once(queue[s]) => Once(queue'[s])
         /\ \A i \in Ids : In(queue'[s], i) => In(queue[s], i)
  <1>1. queue[s] \in Seq(Ids \union {STOP}) /\ MaxWorkers[s] \in Nat
    BY Zenon, ConstantsAssumption DEF TypeInv, TypeOK
  <1>2. CASE StopSentinels
    <2>1. queue'[s] = queue[s] \o Sentinels(MaxWorkers[s])
      BY Zenon, <1>2 DEF StopSentinels, Sentinels
    <2>2. QED  BY Zenon, <1>1, <2>1, SentinelsOnce
  <1>3. CASE StopClearQueues
    BY <1>3 DEF StopClearQueues, Once, In
  <1>4. QED  BY Zenon, <1>2, <1>3

LEMMA TokenStop ==
  ASSUME TypeInv, TokenInv, StopSentinels \/ StopClearQueues PROVE TokenInv'
  <1>2. \A s \in Stages : /\ Once(queue'[s])
                          /\ \A i \in Ids : In(queue'[s], i) => In(queue[s], i)
    BY Zenon, QueuesEmptied DEF TokenInv
  <1>3. UNCHANGED <<wpc, wid, wout, ppc>>
    BY Zenon DEF StopSentinels, StopClearQueues, workerVars, clientVars
  <1>4. /\ \A w \in Workers : (Owns(w)' <=> Owns(w)) /\ (Owns(w) => wid[w] \in Ids)
        /\ \A c \in Calls : (Early(c)' <=> Early(c)) /\ IdOf[c] \in Ids
    BY Zenon, <1>3, ConstantsAssumption DEF Owns, Carries, Early, TypeInv, WorkerLocals
  <1>5. \A i \in Ids : \A s, t \in Stages : In(queue'[s], i) /\ In(queue'[t], i) => s = t
    BY <1>2 DEF TokenInv, Queued, In
  <1>6. \A w \in Workers : \A s \in Stages : Owns(w)' => ~In(queue'[s], wid'[w])
    BY <1>2, <1>3, <1>4 DEF TokenInv, Queued, In
  <1>7. \A c \in Calls : Early(c)' => /\ \A s \in Stages : ~In(queue'[s], IdOf[c])
                                      /\ \A w \in Workers : Owns(w)' => wid'[w] # IdOf[c]
    BY ZenonT(30), <1>2, <1>3, <1>4 DEF TokenInv, Queued, In
  <1>8. QED  BY Zenon, <1>2, <1>3, <1>4, <1>5, <1>6, <1>7 DEF TokenInv, Queued, In

LEMMA TokenStep ==
  ASSUME InjectiveIds, TypeInv, TokenInv, [Next]_vars PROVE TokenInv'
  <1> USE DEF serverVars, objectVars, workerVars, clientVars, stopVars
  <1>1. ASSUME NEW c \in Calls, ProcessStep(c), ~Enqueue(c) PROVE TokenInv'
    <2>1. UNCHANGED <<queue, wpc, wid, wout>> /\ \A d \in Calls : Early(d)' => Early(d)
      BY ZenonT(30), <1>1 DEF ProcessStep, Admit, Store, Wake, Conclude, CleanupTimedOutJob, Early,
         TypeInv, TypeOK
    <2>2. \A w \in Workers : /\ Owns(w)' => Owns(w) /\ wid'[w] = wid[w]
                             /\ wpc'[w] \in {"resume", "handover"} => wout'[w] = "ok"
      BY Zenon, <2>1 DEF Owns, Carries, TokenInv
    <2>3. QED  BY Zenon, <2>1, <2>2, TokenKept
  <1>2. CASE UNCHANGED vars \/ (\E i \in Ids : CancelStep(i) \/ StopSignal(i))
             \/ StopBegin \/ StopClearState \/ StopClearDetails
    <2>1. UNCHANGED <<queue, wpc, wid, wout, ppc>>
      BY Zenon, <1>2 DEF vars, CancelStep, CancelCheck, CancelRemove, CancelMark, StopSignal,
         StopBegin,
         StopClearState, StopClearDetails
    <2>2. \A w \in Workers : /\ Owns(w)' => Owns(w) /\ wid'[w] = wid[w]
                             /\ wpc'[w] \in {"resume", "handover"} => wout'[w] = "ok"
      BY Zenon, <2>1 DEF Owns, Carries, TokenInv
    <2>3. QED  BY Zenon, <2>1, <2>2, TokenKept DEF Early
  <1>3. CASE Start
    <2>1. /\ UNCHANGED <<queue, wid, wout, ppc>>
          /\ \A w \in Workers : wpc'[w] = wpc[w] \/ wpc'[w] = "get"
      BY Zenon, <1>3 DEF Start
    <2>2. \A w \in Workers : /\ Owns(w)' => Owns(w) /\ wid'[w] = wid[w]
                             /\ wpc'[w] \in {"resume", "handover"} => wout'[w] = "ok"
      BY Zenon, <2>1 DEF Owns, Carries, TokenInv
    <2>3. QED  BY Zenon, <2>1, <2>2, TokenKept DEF Early
  <1>4. ASSUME NEW w \in Workers, WorkerStep(w) PROVE TokenInv'
    BY Zenon, <1>4, TokenDequeue, TokenHandOver, TokenInternal DEF WorkerStep, Internal
  <1>5. QED  BY Zenon, <1>1, <1>2, <1>3, <1>4, TokenEnqueue, TokenStop DEF Next, StopStep

(* Two workers that own different jobs, or the same worker: no two workers  *)
(* drive one job.                                                           *)
LEMMA TokenDrives == ASSUME TypeInv, AnswerInv, TokenInv PROVE OneWorkerPerJob
  <1> SUFFICES ASSUME NEW v \in Workers, NEW w \in Workers, Driving(v), Driving(w),
                      wcall[v] = wcall[w]
               PROVE  v = w
    BY Zenon DEF OneWorkerPerJob
  <1>1. wid[v] = wid[w]
    BY Zenon DEF AnswerInv, Naming, Driving
  <1>2. QED  BY Zenon, <1>1 DEF TokenInv, Owns, Carries, Driving

-----------------------------------------------------------------------------
(* What a step does to a JobDetails object *)

SameResults(c) == /\ job'[c].runResults <=> job[c].runResults
                  /\ job'[c].evalResults <=> job[c].evalResults
Untouched(c) == /\ SameResults(c)
                /\ job'[c].event <=> job[c].event
                /\ job'[c].runtime = job[c].runtime
                /\ job'[c].results = job[c].results

LEMMA WorkerJob ==
  ASSUME NEW w \in Workers, TypeInv, WorkerStep(w), ~Resume(w), ~Except(w), NEW c \in Calls
  PROVE  Untouched(c)
  <1> USE DEF SameResults, Untouched
  <1>1. /\ job \in [Calls -> JobDetails] /\ job[c] \in JobDetails
        /\ wpc[w] \notin {"off", "get", "lookup"} => wcall[w] \in Calls
    BY Zenon DEF TypeInv, TypeOK, WorkerLocals
  <1>2. CASE UNCHANGED job
    BY Zenon, <1>2
  <1>3. CASE EnterPhase(w)
    <2>1. job'[c] = job[c] \/ job'[c] = [job[c] EXCEPT !.phase = StageOf[w]]
      BY Zenon, <1>1, <1>3 DEF EnterPhase
    <2>2. QED  BY ZenonT(30), <1>1, <2>1 DEF JobDetails
  <1>4. CASE Arm(w)
    <2>1. job'[c] = job[c] \/ job'[c] = [job[c] EXCEPT !.task = w, !.cancelled = FALSE]
      BY Zenon, <1>1, <1>4 DEF Arm
    <2>2. QED  BY ZenonT(30), <1>1, <2>1 DEF JobDetails
  <1>5. CASE TaskFails(w)
    <2>1. job'[c] = job[c] \/ job'[c] = [job[c] EXCEPT !.task = NoWorker, !.cancelled = FALSE]
      BY Zenon, <1>1, <1>5 DEF TaskFails
    <2>2. QED  BY ZenonT(30), <1>1, <2>1 DEF JobDetails
  <1>6. CASE ExitPhase(w)
    <2>1. job'[c] = job[c] \/ job'[c] = [job[c] EXCEPT !.phase = "others"]
      BY Zenon, <1>1, <1>6 DEF ExitPhase
    <2>2. QED  BY ZenonT(30), <1>1, <2>1 DEF JobDetails
  <1>7. QED  BY Zenon, <1>2, <1>3, <1>4, <1>5, <1>6 DEF WorkerStep, Dequeue, Lookup, Register,
     TaskSucceeds,
                HandOver, Finally, objectVars

LEMMA ExceptJob ==
  ASSUME NEW w \in Workers, TypeInv, Except(w), NEW c \in Calls
  PROVE  /\ SameResults(c)
         /\ c # wcall[w] => Untouched(c)
         /\ c = wcall[w] => \/ job'[c].event /\ job'[c].results = StageOf[w]
                            \/ /\ job'[c].event <=> job[c].event
                               /\ job'[c].results = job[c].results
         /\ job'[c].runtime = IF c = wcall[w] /\ StageOf[w] = "run" THEN 0 ELSE job[c].runtime
  <1> USE DEF SameResults, Untouched
  <1>1. /\ job \in [Calls -> JobDetails] /\ job[c] \in JobDetails /\ wcall[w] \in Calls
        /\ StageOf[w] \in Stages
    BY Zenon, ConstantsAssumption DEF TypeInv, TypeOK, WorkerLocals, Except, WorkerAt
  <1> DEFINE b == wout[w] \in {"timeout", "nophase"}
             j == Failed(job[c], StageOf[w], b)
             r == Reported(j, StageOf[w])
  <1>2. CASE c # wcall[w]
    BY Zenon, <1>1, <1>2 DEF Except
  <1>3. CASE c = wcall[w]
    <2>1. job'[c] = r \/ job'[c] = j
      BY Zenon, <1>1, <1>3 DEF Except
    <2>2. b \in BOOLEAN
      OBVIOUS
    <2> HIDE DEF b
    <2>3. /\ j \in JobDetails
          /\ j.runResults <=> job[c].runResults
          /\ j.evalResults <=> job[c].evalResults
          /\ j.event <=> job[c].event
          /\ j.results = job[c].results
      BY Zenon, <1>1, <2>2, FailedType, FailedFields
    <2>4. j.runtime = IF StageOf[w] = "run" THEN 0 ELSE job[c].runtime
      BY Zenon, <1>1 DEF Failed, JobDetails
    <2> HIDE DEF j
    <2>5. /\ r.runResults = j.runResults /\ r.evalResults = j.evalResults /\ r.event
          /\ r.runtime = j.runtime /\ r.results = StageOf[w]
      BY Zenon, <2>3 DEF Reported, JobDetails
    <2> HIDE DEF r
    <2>6. QED  BY Zenon, <1>3, <2>1, <2>3, <2>4, <2>5
  <1>4. QED  BY Zenon, <1>2, <1>3

LEMMA ResumeJob ==
  ASSUME NEW w \in Workers, TypeInv, Resume(w), NEW c \in Calls
  PROVE  /\ c # wcall[w] => Untouched(c)
         /\ job'[c].results = job[c].results
         /\ job'[c].runResults <=> job[c].runResults \/ (c = wcall[w] /\ StageOf[w] = "run")
         /\ job'[c].evalResults <=> job[c].evalResults \/ (c = wcall[w] /\ StageOf[w] = "eval")
         /\ job'[c].event <=> job[c].event \/ (c = wcall[w] /\ StageOf[w] = "eval")
         /\ c = wcall[w] => job'[c].runtime = IF StageOf[w] = "init" THEN wrt[w]
                                              ELSE IF StageOf[w] = "run" THEN 0
                                              ELSE job[c].runtime
  <1> USE DEF SameResults, Untouched
  <1>1. /\ job \in [Calls -> JobDetails] /\ job[c] \in JobDetails /\ wcall[w] \in Calls
        /\ StageOf[w] \in Stages /\ wrt[w] \in Nat
    BY Zenon, ConstantsAssumption DEF TypeInv, TypeOK, WorkerLocals, Resume, WorkerAt
  <1>2. CASE c # wcall[w]
    BY Zenon, <1>1, <1>2 DEF Resume
  <1>3. CASE c = wcall[w]
    <2>1. job'[c] = Stored(job[c], StageOf[w], wrt[w])
      BY Zenon, <1>1, <1>3 DEF Resume
    <2>2. Stored(job[c], StageOf[w], wrt[w]).runtime = IF StageOf[w] = "init" THEN wrt[w]
                                              ELSE IF StageOf[w] = "run" THEN 0
                                              ELSE job[c].runtime
      BY Zenon, <1>1 DEF Stored, JobDetails, Stages
    <2>3. QED  BY <1>1, <1>3, <2>1, <2>2, StoredFields
  <1>4. QED  BY Zenon, <1>2, <1>3

(* A job is signalled from outside.                                         *)
LEMMA SignalJob ==
  ASSUME TypeInv, (\E c \in Calls : CleanupTimedOutJob(c))
                  \/ (\E i \in Ids : CancelRemove(i) \/ StopSignal(i)), NEW c \in Calls
  PROVE  /\ SameResults(c) /\ job'[c].results = job[c].results
         /\ \/ Untouched(c) /\ live'[c] = live[c]
            \/ job'[c].event /\ live'[c] = live[c] \ {job[c].runtime}
  <1> USE DEF SameResults, Untouched
  <1>1. /\ job \in [Calls -> JobDetails] /\ job[c] \in JobDetails /\ live \in [Calls -> SUBSET Nat]
        /\ details \in [Ids -> Calls \union {NoCall}] /\ IdOf \in [Calls -> Ids]
    BY Zenon, ConstantsAssumption DEF TypeInv, TypeOK
  <1> DEFINE t == TimedOut(job[c])
  <1>2. /\ t \in JobDetails /\ t.event
        /\ t.runResults = job[c].runResults /\ t.evalResults = job[c].evalResults
        /\ t.results = job[c].results
    BY Zenon, <1>1, TimedOutType DEF TimedOut, JobDetails
  <1>3. \/ job'[c] = job[c] /\ live'[c] = live[c]
        \/ /\ live'[c] = live[c] \ {job[c].runtime}
           /\ \/ job'[c] = t
              \/ job'[c] = [t EXCEPT !.runtime = 0]
              \/ job'[c] = [t EXCEPT !.runtime = 0, !.cancelled = TaskPending(c)]
    <2>1. ASSUME NEW d \in Calls, CleanupTimedOutJob(d)
          PROVE  \/ job'[c] = job[c] /\ live'[c] = live[c]
                 \/ job'[c] = t /\ live'[c] = live[c] \ {job[c].runtime}
      <3>1. IdOf[d] \in Ids
        BY Zenon, <1>1
      <3>2. CASE details[IdOf[d]] = NoCall
        BY Zenon, <2>1, <3>2 DEF CleanupTimedOutJob
      <3>3. CASE details[IdOf[d]] # NoCall
        <4>1. /\ job' = [job EXCEPT ![details[IdOf[d]]] = TimedOut(@)]
              /\ live' = CloseOf(details[IdOf[d]])
          BY Zenon, <2>1, <3>3 DEF CleanupTimedOutJob
        <4>2. QED  BY Zenon, <1>1, <3>1, <4>1 DEF CloseOf
      <3>4. QED  BY Zenon, <3>2, <3>3
    <2>2. ASSUME NEW i \in Ids, CancelRemove(i)
          PROVE  \/ job'[c] = job[c] /\ live'[c] = live[c]
                 \/ /\ job'[c] = [t EXCEPT !.runtime = 0, !.cancelled = TaskPending(c)]
                    /\ live'[c] = live[c] \ {job[c].runtime}
      <3>1. CASE details[i] = NoCall
        BY Zenon, <2>2, <3>1 DEF CancelRemove
      <3>2. CASE details[i] # NoCall
        <4> DEFINE d == details[i]
                   j == [TimedOut(job[d]) EXCEPT !.runtime = 0, !.cancelled = TaskPending(d)]
        <4>1. d \in Calls
          BY Zenon, <1>1, <3>2
        <4>2. job' = [job EXCEPT ![d] = j] /\ live' = CloseOf(d)
          BY Zenon, <1>1, <2>2, <3>2, <4>1 DEF CancelRemove
        <4>3. d = c => j = [t EXCEPT !.runtime = 0, !.cancelled = TaskPending(c)]
          OBVIOUS
        <4> HIDE DEF j, d, t
        <4>4. QED  BY Zenon, <1>1, <4>1, <4>2, <4>3 DEF CloseOf
      <3>3. QED  BY Zenon, <3>1, <3>2
    <2>3. ASSUME NEW i \in Ids, StopSignal(i)
          PROVE  \/ job'[c] = job[c] /\ live'[c] = live[c]
                 \/ /\ job'[c] = [t EXCEPT !.runtime = 0]
                    /\ live'[c] = live[c] \ {job[c].runtime}
      BY <1>1, <2>3 DEF StopSignal, CloseOf
    <2>4. QED  BY Zenon, <2>1, <2>2, <2>3
  <1> HIDE DEF t
  <1>4. /\ [t EXCEPT !.runtime = 0].event
        /\ [t EXCEPT !.runtime = 0].runResults = t.runResults
        /\ [t EXCEPT !.runtime = 0].evalResults = t.evalResults
        /\ [t EXCEPT !.runtime = 0].results = t.results
        /\ \A p : /\ [t EXCEPT !.runtime = 0, !.cancelled = p].event
                  /\ [t EXCEPT !.runtime = 0, !.cancelled = p].runResults = t.runResults
                  /\ [t EXCEPT !.runtime = 0, !.cancelled = p].evalResults = t.evalResults
                  /\ [t EXCEPT !.runtime = 0, !.cancelled = p].results = t.results
    BY Zenon, <1>2 DEF JobDetails
  <1>5. QED  BY ZenonT(30), <1>2, <1>3, <1>4

-----------------------------------------------------------------------------
(* No stage twice *)

LEMMA StageInit == Init => StageInv
  BY DEF Init, StageInv, Ahead, NewJob

LEMMA StageKept ==
  ASSUME StageInv, \A c \in Calls : opened'[c] = opened[c] /\ SameResults(c),
         \A c \in Calls, s \in Stages : At(c, s)' => At(c, s)
  PROVE  StageInv'
  BY Zenon DEF StageInv, Ahead, SameResults

(* Nobody takes up a job.                                                   *)
LEMMA AtKept ==
  ASSUME \A s \in Stages, i \in Ids : In(queue'[s], i) => In(queue[s], i),
         \A c \in Calls : Early(c)' => Early(c),
         \A w \in Workers : Carries(w)' => Carries(w) /\ wid'[w] = wid[w] /\ Stand(w)' = Stand(w),
         NEW c \in Calls, NEW s \in Stages, At(c, s)'
  PROVE  At(c, s)
  <1>1. IdOf[c] \in Ids
    BY Zenon, ConstantsAssumption
  <1>2. Queued(s, IdOf[c])' => Queued(s, IdOf[c])
    BY Zenon, <1>1 DEF Queued, In
  <1>3. QED  BY Zenon, <1>2 DEF At

(* Where the job of a worker goes, if it goes anywhere.                     *)
LEMMA CarriedOn ==
  ASSUME NEW w \in Workers, TypeInv, Internal(w)
  PROVE  /\ Carries(w)' => Carries(w) /\ wid'[w] = wid[w]
         /\ Carries(w)' /\ ~(TaskSucceeds(w) /\ StageOf[w] = "init")
              /\ ~(Resume(w) /\ StageOf[w] # "init") => Stand(w)' = Stand(w)
         /\ TaskSucceeds(w) /\ StageOf[w] = "init" => Stand(w)' = "run"
         /\ Resume(w) /\ StageOf[w] = "run" => Stand(w)' = "eval"
         /\ Resume(w) /\ StageOf[w] = "eval" => ~Carries(w)'
  <1> USE DEF WorkerAt, Goto, Carries, Stand
  <1>1. /\ wpc \in [Workers -> WorkerLocs] /\ wid \in [Workers -> Ids \union {STOP}]
        /\ StageOf[w] \in Stages
    BY Zenon, ConstantsAssumption DEF TypeInv, TypeOK
  <1>2. CASE Lookup(w)
    BY Zenon, <1>1, <1>2 DEF Lookup, Restart, TaskSucceeds, Resume
  <1>3. CASE Register(w)
    BY Zenon, <1>1, <1>3 DEF Register, Restart, TaskSucceeds, Resume
  <1>4. CASE EnterPhase(w)
    BY Zenon, <1>1, <1>4 DEF EnterPhase, TaskSucceeds, Resume
  <1>5. CASE Arm(w)
    BY Zenon, <1>1, <1>5 DEF Arm, TaskSucceeds, Resume
  <1>6. CASE TaskSucceeds(w)
    BY Zenon, <1>1, <1>6 DEF TaskSucceeds, Resume, NextQueue, Stages
  <1>7. CASE TaskFails(w)
    BY Zenon, <1>1, <1>7 DEF TaskFails, TaskSucceeds, Resume
  <1>8. CASE Resume(w)
    BY Zenon, <1>1, <1>8 DEF Resume, TaskSucceeds, NextQueue, Stages
  <1>9. CASE ExitPhase(w)
    BY ZenonT(30), <1>1, <1>9 DEF ExitPhase, TaskSucceeds, Resume
  <1>10. CASE Except(w)
    BY Zenon, <1>1, <1>10 DEF Except, TaskSucceeds, Resume
  <1>11. CASE Finally(w)
    BY Zenon, <1>1, <1>11 DEF Finally, Restart, TaskSucceeds, Resume
  <1>12. QED
    BY Zenon, <1>2, <1>3, <1>4, <1>5, <1>6, <1>7, <1>8, <1>9, <1>10, <1>11 DEF Internal

(* The job of an owner is nowhere else, and other jobs stay where they are. *)
LEMMA AtOwner ==
  ASSUME NEW w \in Workers, TypeInv, TokenInv, Internal(w), Owns(w), NEW s \in Stages
  PROVE  /\ \A c \in Calls : IdOf[c] = wid[w] /\ At(c, s)' => Carries(w)' /\ Stand(w)' = s
         /\ \A c \in Calls : IdOf[c] # wid[w] /\ At(c, s)' => At(c, s)
  <1>1. \A v \in Workers \ {w} : /\ Carries(v)' <=> Carries(v)
                                 /\ wid'[v] = wid[v] /\ Stand(v)' = Stand(v)
    <2>1. \A v \in Workers \ {w} : wpc'[v] = wpc[v] /\ wid'[v] = wid[v]
      BY Zenon, WorkerFrame DEF Internal, WorkerStep
    <2>2. QED  BY Zenon, <2>1 DEF Carries, Stand
  <1>2. UNCHANGED <<queue, ppc>> /\ (Carries(w)' => Carries(w) /\ wid'[w] = wid[w])
    BY Zenon, OwnerMoves, CarriedOn
  <1>3. \A c \in Calls : IdOf[c] = wid[w] =>
          /\ ~Early(c) /\ ~Queued(s, IdOf[c])
          /\ \A v \in Workers \ {w} : ~(Carries(v) /\ wid[v] = IdOf[c])
    BY Zenon DEF TokenInv, Owns
  <1>4. \A c \in Calls : (Early(c)' <=> Early(c)) /\ (Queued(s, IdOf[c])' <=> Queued(s, IdOf[c]))
    BY Zenon, <1>2 DEF Early, Queued
  <1>5. \A c \in Calls : IdOf[c] = wid[w] /\ At(c, s)' => Carries(w)' /\ Stand(w)' = s
    BY Zenon, <1>1, <1>3, <1>4 DEF At
  <1>6. \A c \in Calls : IdOf[c] # wid[w] /\ At(c, s)' => At(c, s)
    BY Zenon, <1>1, <1>2, <1>4 DEF At
  <1>7. QED  BY Zenon, <1>5, <1>6

LEMMA StageInternal ==
  ASSUME InjectiveIds, NEW w \in Workers, TypeInv, AnswerInv, TokenInv, StageInv, Internal(w)
  PROVE  StageInv'
  <1>1. WorkerStep(w)
    BY Zenon DEF Internal, WorkerStep
  <1>2. CASE /\ ~(TaskSucceeds(w) /\ StageOf[w] = "init") /\ ~TaskFails(w)
             /\ ~(Resume(w) /\ StageOf[w] # "init")
    <2>1. \A v \in Workers : Carries(v)' => Carries(v) /\ wid'[v] = wid[v] /\ Stand(v)' = Stand(v)
      <3>1. \A v \in Workers \ {w} : wpc'[v] = wpc[v] /\ wid'[v] = wid[v]
        BY Zenon, <1>1, WorkerFrame
      <3>2. \A v \in Workers \ {w} : /\ Carries(v)' => Carries(v)
                                     /\ wid'[v] = wid[v] /\ Stand(v)' = Stand(v)
        BY Zenon, <3>1 DEF Carries, Stand
      <3>3. QED  BY Zenon, <1>2, <3>2, CarriedOn
    <2>2. UNCHANGED <<queue, ppc>>
      BY Zenon, OwnerMoves
    <2>3. UNCHANGED opened
      BY Zenon, <1>2 DEF Internal, Lookup, Register, EnterPhase, Arm, TaskSucceeds, Resume,
         ExitPhase, Except, Finally, objectVars
    <2>4. \A c \in Calls : SameResults(c)
      <3>1. CASE Resume(w)
        BY Zenon, <1>2, <3>1, ResumeJob DEF SameResults
      <3>2. CASE ~Resume(w)
        <4>1. CASE Except(w)
          BY Zenon, <4>1, ExceptJob
        <4>2. CASE ~Except(w)
          BY Zenon, <1>1, <3>2, <4>2, WorkerJob DEF Untouched
        <4>3. QED  BY <4>1, <4>2
      <3>3. QED  BY Zenon, <3>1, <3>2
    <2>5. \A c \in Calls, s \in Stages : At(c, s)' => At(c, s)
      BY Zenon, <2>1, <2>2, AtKept DEF Early
    <2>6. QED  BY Zenon, <2>3, <2>4, <2>5, StageKept
  <1>3. CASE \/ TaskSucceeds(w) /\ StageOf[w] = "init"
             \/ TaskFails(w)
             \/ Resume(w) /\ StageOf[w] # "init"
    <2>1. wcall[w] \in Calls
      BY Zenon, <1>3 DEF TaskSucceeds, TaskFails, Resume, WorkerAt, TypeInv, WorkerLocals
    <2>2. PICK c \in Calls : c = wcall[w]
      BY Zenon, <2>1
    <2>3. /\ c \in Calls /\ IdOf[c] = wid[w] /\ Carries(w) /\ Owns(w)
          /\ StageOf[w] \in Stages /\ Stand(w) = StageOf[w]
      BY Zenon, <1>3, <2>2, ConstantsAssumption DEF TaskSucceeds, TaskFails, Resume, WorkerAt,
         AnswerInv, Naming, Carries, Owns, Stand
    <2>4. Ahead(c, StageOf[w])
      BY Zenon, <2>3 DEF StageInv, At
    <2>5. \A d \in Calls \ {c} : opened'[d] = opened[d] /\ SameResults(d)
      <3>1. CASE Resume(w)
        BY Zenon, <2>2, <3>1, ResumeJob DEF Untouched, Resume
      <3>2. CASE TaskSucceeds(w)
        BY Zenon, <2>2, <3>2 DEF TaskSucceeds, OpenRuntime, SameResults, TypeInv, TypeOK
      <3>3. CASE TaskFails(w)
        <4>1. \A d \in Calls \ {c} : opened'[d] = opened[d]
          BY Zenon, <2>2, <3>3 DEF TaskFails, OpenRuntime, TypeInv, TypeOK
        <4>2. ~Resume(w) /\ ~Except(w)
          BY Zenon, <3>3 DEF TaskFails, Resume, Except, WorkerAt
        <4>3. QED  BY Zenon, <1>1, <4>1, <4>2, WorkerJob DEF Untouched
      <3>4. QED  BY Zenon, <1>3, <3>1, <3>2, <3>3
    <2>6. \A d \in Calls \ {c}, s \in Stages : At(d, s)' => Ahead(d, s)'
      BY <2>3, <2>5, AtOwner DEF InjectiveIds, StageInv, Ahead, SameResults
    <2>7. \A s \in Stages : At(c, s)' => Carries(w)' /\ Stand(w)' = s
      BY Zenon, <2>3, AtOwner
    <2>8. \A s \in Stages : At(c, s)' => Ahead(c, s)'
      <3>1. CASE TaskSucceeds(w) /\ StageOf[w] = "init"
        BY Zenon, <2>3, <2>4, <2>7, <2>2, <3>1, CarriedOn DEF Ahead, TaskSucceeds
      <3>2. CASE Resume(w) /\ StageOf[w] = "run"
        BY Zenon, <2>3, <2>4, <2>7, <2>2, <3>2, CarriedOn, ResumeJob DEF Ahead
      <3>3. CASE Resume(w) /\ StageOf[w] = "eval"
        BY Zenon, <2>7, <3>3, CarriedOn
      <3>4. CASE TaskFails(w)
        BY Zenon, <2>7, <3>4 DEF TaskFails, Goto, Carries, TypeInv, TypeOK
      <3>5. QED  BY Zenon, <1>3, <2>3, <3>1, <3>2, <3>3, <3>4 DEF Stages
    <2>9. QED  BY Zenon, <2>6, <2>8 DEF StageInv
  <1>4. QED  BY Zenon, <1>2, <1>3

LEMMA StageDequeue ==
  ASSUME NEW w \in Workers, TypeInv, StageInv, Dequeue(w) PROVE StageInv'
  <1>1. /\ queue \in [Stages -> Seq(Ids \union {STOP})] /\ StageOf[w] \in Stages
        /\ wpc \in [Workers -> WorkerLocs] /\ wid \in [Workers -> Ids \union {STOP}]
    BY Zenon, ConstantsAssumption DEF TypeInv, TypeOK
  <1>2. PICK h : h = Head(queue[StageOf[w]])
    OBVIOUS
  <1>3. /\ queue' = [queue EXCEPT ![StageOf[w]] = Tail(queue[StageOf[w]])]
        /\ queue[StageOf[w]] # <<>> /\ wpc[w] = "get" /\ UNCHANGED <<job, opened, ppc>>
        /\ \/ wpc' = [wpc EXCEPT ![w] = "off"]
           \/ wpc' = [wpc EXCEPT ![w] = "lookup"] /\ wid' = [wid EXCEPT ![w] = h]
    BY Zenon, <1>2 DEF Dequeue, Goto, WorkerAt, clientVars, objectVars
  <1>4. /\ Queued(StageOf[w], h)
        /\ \A s \in Stages : \A i : Queued(s, i)' => Queued(s, i)
    <2>1. Queued(StageOf[w], h)
      BY <1>1, <1>2, <1>3 DEF Queued
    <2>2. \A s \in Stages \ {StageOf[w]} : queue'[s] = queue[s]
      BY Zenon, <1>1, <1>3
    <2>3. \A i : Queued(StageOf[w], i)' => Queued(StageOf[w], i)
      BY <1>1, <1>3, QueuedTail DEF Queued
    <2>4. QED  BY Zenon, <2>1, <2>2, <2>3 DEF Queued
  <1>5. \A v \in Workers \ {w} : /\ Carries(v)' <=> Carries(v)
                                 /\ wid'[v] = wid[v] /\ Stand(v)' = Stand(v)
    <2>1. \A v \in Workers \ {w} : wpc'[v] = wpc[v] /\ wid'[v] = wid[v]
      BY Zenon, WorkerFrame DEF WorkerStep
    <2>2. QED  BY Zenon, <2>1 DEF Carries, Stand
  <1>6. Carries(w)' => wid'[w] = h /\ Stand(w)' = StageOf[w]
    BY Zenon, <1>1, <1>3 DEF Carries, Stand
  <1>7. \A c \in Calls, s \in Stages : At(c, s)' => At(c, s)
    <2> SUFFICES ASSUME NEW c \in Calls, NEW s \in Stages, At(c, s)' PROVE At(c, s)
      OBVIOUS
    <2>1. CASE Early(c)' /\ s = "init"
      BY Zenon, <1>3, <2>1 DEF At, Early
    <2>2. CASE Queued(s, IdOf[c])'
      BY Zenon, <1>4, <2>2 DEF At
    <2>3. CASE \E v \in Workers : Carries(v)' /\ wid'[v] = IdOf[c] /\ Stand(v)' = s
      BY Zenon, <1>4, <1>5, <1>6, <2>3 DEF At
    <2>4. QED  BY Zenon, <2>1, <2>2, <2>3 DEF At
  <1>8. QED  BY Zenon, <1>3, <1>7, StageKept DEF SameResults

LEMMA StagePut ==
  ASSUME TypeInv, StageInv, NEW i \in Ids, NEW s \in Stages,
         queue' = [queue EXCEPT ![s] = Append(queue[s], i)],
         \A c \in Calls : IdOf[c] = i => At(c, s),
         \A c \in Calls : Early(c)' => Early(c),
         \A w \in Workers : Carries(w)' => Carries(w) /\ wid'[w] = wid[w] /\ Stand(w)' = Stand(w),
         UNCHANGED <<job, opened>>
  PROVE  StageInv'
  <1>1. queue \in [Stages -> Seq(Ids \union {STOP})] /\ queue[s] \in Seq(Ids \union {STOP})
    BY Zenon DEF TypeInv, TypeOK
  <1>2. queue'[s] = Append(queue[s], i) /\ \A t \in Stages \ {s} : queue'[t] = queue[t]
    BY Zenon, <1>1
  <1>3. \A j : In(queue'[s], j) <=> j = i \/ In(queue[s], j)
    BY Zenon, <1>1, <1>2, AppendOnce
  <1>4. \A c \in Calls, t \in Stages :
          Queued(t, IdOf[c])' => Queued(t, IdOf[c]) \/ (IdOf[c] = i /\ t = s)
    BY <1>2, <1>3 DEF Queued, In
  <1>5. \A c \in Calls, t \in Stages : At(c, t)' => At(c, t)
    BY Zenon, <1>4 DEF At
  <1>6. QED  BY Zenon, <1>5, StageKept DEF SameResults

LEMMA StageHandOver ==
  ASSUME InjectiveIds, NEW w \in Workers, TypeInv, StageInv, HandOver(w) PROVE StageInv'
  <1>1. PICK n : n = NextQueue[StageOf[w]]
    OBVIOUS
  <1>2. /\ wpc[w] = "handover" /\ Carries(w) /\ Stand(w) = n /\ wid[w] \in Ids /\ n \in Stages
    BY Zenon, <1>1 DEF HandOver, WorkerAt, TypeInv, WorkerLocals, Carries, Stand, NextQueue, Stages
  <1>3. /\ queue' = [queue EXCEPT ![n] = Append(queue[n], wid[w])]
        /\ UNCHANGED <<wid, ppc, job, opened>>
    BY Zenon, <1>1 DEF HandOver, clientVars, objectVars
  <1>4. wpc'[w] = "exit" /\ \A v \in Workers \ {w} : wpc'[v] = wpc[v]
    BY DEF HandOver, Goto, TypeInv, TypeOK
  <1>5. \A v \in Workers : Carries(v)' => Carries(v) /\ wid'[v] = wid[v] /\ Stand(v)' = Stand(v)
    BY Zenon, <1>3, <1>4 DEF Carries, Stand
  <1>6. \A c \in Calls : IdOf[c] = wid[w] => At(c, n)
    BY Zenon, <1>2 DEF At
  <1>7. \A c \in Calls : Early(c)' => Early(c)
    BY Zenon, <1>3 DEF Early
  <1>8. PICK i \in Ids : i = wid[w]
    BY Zenon, <1>2
  <1>9. QED  BY Zenon, <1>2, <1>3, <1>5, <1>6, <1>7, <1>8, StagePut

LEMMA StageEnqueue ==
  ASSUME InjectiveIds, NEW c \in Calls, TypeInv, StageInv, Enqueue(c) PROVE StageInv'
  <1>1. /\ Early(c) /\ IdOf[c] \in Ids /\ "init" \in Stages
        /\ queue' = [queue EXCEPT !["init"] = Append(queue["init"], IdOf[c])]
        /\ UNCHANGED <<wpc, wid, job, opened>>
    BY Zenon, ConstantsAssumption DEF Enqueue, Early, Stages, workerVars, objectVars
  <1>2. \A d \in Calls : Early(d)' => Early(d)
    BY Zenon DEF Enqueue, Early, TypeInv, TypeOK
  <1>3. \A d \in Calls : IdOf[d] = IdOf[c] => At(d, "init")
    BY Zenon, <1>1 DEF InjectiveIds, At
  <1>4. \A w \in Workers : Carries(w)' => Carries(w) /\ wid'[w] = wid[w] /\ Stand(w)' = Stand(w)
    BY Zenon, <1>1 DEF Carries, Stand
  <1>5. QED  BY Zenon, <1>1, <1>2, <1>3, <1>4, StagePut

LEMMA StageStep ==
  ASSUME InjectiveIds, TypeInv, AnswerInv, TokenInv, StageInv, [Next]_vars PROVE StageInv'
  <1> USE DEF serverVars, objectVars, workerVars, clientVars, stopVars
  <1>1. ASSUME UNCHANGED <<opened, wid>>, \A w \in Workers : wpc'[w] = wpc[w] \/ wpc'[w] = "get",
               \A c \in Calls : SameResults(c), \A c \in Calls : Early(c)' => Early(c),
               \A s \in Stages, i \in Ids : In(queue'[s], i) => In(queue[s], i)
        PROVE  StageInv'
    <2>1. \A w \in Workers : Carries(w)' => Carries(w) /\ wid'[w] = wid[w] /\ Stand(w)' = Stand(w)
      BY Zenon, <1>1 DEF Carries, Stand
    <2>2. \A c \in Calls, s \in Stages : At(c, s)' => At(c, s)
      BY Zenon, <1>1, <2>1, AtKept
    <2>3. QED  BY Zenon, <1>1, <2>2, StageKept
  <1>2. ASSUME NEW c \in Calls, ProcessStep(c), ~Enqueue(c) PROVE StageInv'
    <2>1. UNCHANGED <<queue, wpc, wid, opened>> /\ \A d \in Calls : Early(d)' => Early(d)
      BY ZenonT(30), <1>2 DEF ProcessStep, Admit, Store, Wake, Conclude, CleanupTimedOutJob, Early,
         TypeInv, TypeOK
    <2>2. UNCHANGED job \/ CleanupTimedOutJob(c)
      BY Zenon, <1>2 DEF ProcessStep, Admit, Store, Wake, Conclude
    <2>3. \A d \in Calls : SameResults(d)
      BY Zenon, <2>2, SignalJob DEF SameResults
    <2>4. QED  BY Zenon, <1>1, <2>1, <2>3
  <1>3. CASE UNCHANGED vars \/ (\E i \in Ids : CancelStep(i) \/ StopSignal(i))
             \/ StopBegin \/ StopClearState \/ StopClearDetails
    <2>1. UNCHANGED <<queue, wpc, wid, ppc, opened>>
      BY Zenon, <1>3 DEF vars, CancelStep, CancelCheck, CancelRemove, CancelMark, StopSignal,
         StopBegin,
         StopClearState, StopClearDetails
    <2>2. UNCHANGED job \/ \E i \in Ids : CancelRemove(i) \/ StopSignal(i)
      BY Zenon, <1>3 DEF vars, CancelStep, CancelCheck, CancelMark, StopBegin, StopClearState,
         StopClearDetails
    <2>3. \A d \in Calls : SameResults(d)
      BY Zenon, <2>2, SignalJob DEF SameResults
    <2>4. QED  BY Zenon, <1>1, <2>1, <2>3 DEF Early
  <1>4. CASE Start
    <2>1. /\ UNCHANGED <<queue, wid, ppc, opened, job>>
          /\ \A w \in Workers : wpc'[w] = wpc[w] \/ wpc'[w] = "get"
      BY Zenon, <1>4 DEF Start
    <2>2. QED  BY Zenon, <1>1, <2>1 DEF Early, SameResults
  <1>5. CASE StopSentinels \/ StopClearQueues
    <2>1. UNCHANGED <<wpc, wid, ppc, opened, job>>
      BY Zenon, <1>5 DEF StopSentinels, StopClearQueues
    <2>2. \A s \in Stages, i \in Ids : In(queue'[s], i) => In(queue[s], i)
      BY Zenon, <1>5, QueuesEmptied
    <2>3. QED  BY Zenon, <1>1, <2>1, <2>2 DEF Early, SameResults
  <1>6. ASSUME NEW w \in Workers, WorkerStep(w) PROVE StageInv'
    BY Zenon, <1>6, StageDequeue, StageHandOver, StageInternal DEF WorkerStep, Internal
  <1>7. QED  BY Zenon, <1>2, <1>3, <1>4, <1>5, <1>6, StageEnqueue DEF Next, StopStep

(* The task of a stage is started on a job that has not had the stage.     *)
LEMMA StageStarts ==
  ASSUME TypeInv, AnswerInv, StageInv, [Next]_vars, NEW w \in Workers,
         wpc[w] # "await", wpc'[w] = "await"
  PROVE  ~StageDone(wcall[w], StageOf[w])
  <1> USE DEF serverVars, objectVars, workerVars, clientVars, stopVars
  <1>1. Arm(w)
    <2>1. PICK v \in Workers : WorkerStep(v)
      BY Zenon DEF vars, Next, Start, ProcessStep, Admit, Store, Enqueue, Wake, Conclude,
         CleanupTimedOutJob, CancelStep, CancelCheck, CancelRemove, CancelMark, StopStep,
         StopBegin, StopSignal, StopSentinels, StopClearState, StopClearDetails, StopClearQueues
    <2>2. v = w
      BY Zenon, <2>1, WorkerFrame
    <2>3. WorkerStep(w) /\ wpc \in [Workers -> WorkerLocs]
      BY Zenon, <2>1, <2>2 DEF TypeInv, TypeOK
    <2>4. QED
      BY Zenon, <2>3 DEF WorkerStep, Dequeue, Lookup, Register, EnterPhase, TaskSucceeds,
         TaskFails, Resume,
         HandOver, ExitPhase, Except, Finally, Restart, Goto, WorkerAt
  <1>2. /\ wcall[w] \in Calls /\ IdOf[wcall[w]] = wid[w] /\ StageOf[w] \in Stages
        /\ Carries(w) /\ Stand(w) = StageOf[w]
    BY Zenon, <1>1, ConstantsAssumption DEF Arm, WorkerAt, TypeInv, WorkerLocals, AnswerInv, Naming,
       Carries, Stand
  <1>3. Ahead(wcall[w], StageOf[w])
    BY Zenon, <1>2 DEF StageInv, At
  <1>4. opened[wcall[w]] \in Nat
    BY Zenon, <1>2 DEF TypeInv, TypeOK
  <1>5. CASE StageOf[w] = "init"
    BY <1>3, <1>4, <1>5 DEF Ahead, StageDone
  <1>6. CASE StageOf[w] = "run"
    BY Zenon, <1>3, <1>6 DEF Ahead, StageDone
  <1>7. CASE StageOf[w] = "eval"
    BY Zenon, <1>3, <1>7 DEF Ahead, StageDone
  <1>8. QED  BY Zenon, <1>2, <1>5, <1>6, <1>7 DEF Stages

-----------------------------------------------------------------------------
JobInv == AnswerInv /\ TokenInv /\ StageInv

LEMMA JobInvAlways == ASSUME InjectiveIds PROVE Spec => [](TypeInv /\ JobInv)
  <1>1. Init => JobInv
    BY Zenon, AnswerInvInit, TokenInit, StageInit DEF JobInv
  <1>2. TypeInv /\ JobInv /\ [Next]_vars => JobInv'
    BY Zenon, AnswerInvNext, TokenStep, StageStep DEF JobInv
  <1>3. QED  BY <1>1, <1>2, TypeInvAlways, PTL DEF Spec

(* No two of the _worker threads ever drive one job, however many threads   *)
(* each stage has and whatever is cancelled, raised, stopped or restarted:  *)
(* every id is on one queue, once, or with one thread.                      *)
THEOREM OneDriver == ASSUME InjectiveIds PROVE Spec => []OneWorkerPerJob
  <1>1. TypeInv /\ JobInv => OneWorkerPerJob
    BY Zenon, TokenDrives DEF JobInv
  <1>2. QED  BY <1>1, JobInvAlways, PTL

(* A _worker thread never starts the task of a stage that the job has       *)
(* already been through.                                                    *)
THEOREM StagesRunOnce == ASSUME InjectiveIds PROVE Spec => StageOnce
  <1>1. TypeInv /\ JobInv /\ [Next]_vars
          => [\A w \in Workers : wpc[w] # "await" /\ wpc'[w] = "await"
                                   => ~StageDone(wcall[w], StageOf[w])]_vars
    BY Zenon, StageStarts DEF JobInv
  <1>2. QED  BY <1>1, JobInvAlways, PTL DEF Spec, StageOnce
=============================================================================
