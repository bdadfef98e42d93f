------------------------ MODULE ProcessServerProofs ------------------------
(***************************************************************************)
(* The process-based server for any number of calls and permits: its       *)
(* types, the end of worker processes, what a success stands for, and the  *)
(* conservation of permits.                                                *)
(***************************************************************************)
EXTENDS ProcessServer, FiniteSetTheorems, TLAPS

Messages == (Calls \X Answers) \union {STOP}

-----------------------------------------------------------------------------
(* Types *)

LEMMA PopAndReleaseType ==
  ASSUME TypeOK, NEW c \in Calls, PopAndRelease(c)
  PROVE  status' \in [Calls -> Stages \union {"none"}] /\ sem' \in [Stages -> Nat]
  BY DEF TypeOK, PopAndRelease

LEMMA CloseJobType ==
  ASSUME TypeOK, NEW c \in Calls, CloseJob(c)
  PROVE  /\ jobs' \subseteq jobs /\ alive' \in [Calls -> BOOLEAN]
         /\ finished' \in [Calls -> BOOLEAN]
  BY Zenon DEF TypeOK, CloseJob

LEMMA TypeInit == Init => TypeOK
  BY ConstantsAssumption DEF Init, TypeOK, Stages, WorkerLocs, ClientLocs, Answers

LEMMA TypeProcess ==
  ASSUME TypeOK, NEW c \in Calls, ProcessStep(c) PROVE TypeOK'
  <1> USE DEF serverVars, managerVars, workerVars, clientVars, stopVars
  <1>1. CASE Monitor(c)
    BY <1>1 DEF Monitor, TypeOK, ClientLocs
  <1>2. CASE CleanupStatus(c)
    <2>1. PICK j \in expired[c] :
            /\ expired' = [expired EXCEPT ![c] = @ \ {j}]
            /\ \/ PopAndRelease(j) /\ closing' = [closing EXCEPT ![c] = {j}]
               \/ UNCHANGED <<status, sem, closing>>
      BY Zenon, <1>2 DEF CleanupStatus
    <2>2. j \in Calls
      BY DEF TypeOK
    <2>3. status' \in [Calls -> Stages \union {"none"}] /\ sem' \in [Stages -> Nat]
      <3>1. CASE PopAndRelease(j)
        BY <2>2, <3>1, PopAndReleaseType
      <3>2. CASE UNCHANGED <<status, sem>>
        BY <3>2 DEF TypeOK
      <3>3. QED  BY <2>1, <3>1, <3>2
    <2>4. closing' \in [Calls -> SUBSET Calls] /\ expired' \in [Calls -> SUBSET Calls]
      <3>1. expired' \in [Calls -> SUBSET Calls]
        BY Zenon, <2>1 DEF TypeOK
      <3>2. CASE closing' = [closing EXCEPT ![c] = {j}]
        BY ZenonT(30), <2>2, <3>1, <3>2 DEF TypeOK
      <3>3. CASE UNCHANGED closing
        BY Zenon, <3>1, <3>3 DEF TypeOK
      <3>4. QED  BY Zenon, <2>1, <3>2, <3>3
    <2>5. QED  BY Zenon, <1>2, <2>3, <2>4 DEF CleanupStatus, TypeOK
  <1>3. CASE CleanupJob(c)
    <2>1. PICK j \in closing[c] : CloseJob(j)
      BY <1>3 DEF CleanupJob
    <2>2. /\ jobs' \subseteq jobs /\ alive' \in [Calls -> BOOLEAN]
          /\ finished' \in [Calls -> BOOLEAN]
      BY <2>1, CloseJobType DEF TypeOK
    <2>3. closing' \in [Calls -> SUBSET Calls]
      BY <1>3 DEF CleanupJob, TypeOK
    <2>4. QED  BY Zenon, <1>3, <2>2, <2>3 DEF CleanupJob, TypeOK
  <1>4. CASE Launch(c)
    <2>1. CASE c \in Rejected
      BY Zenon, <1>4, <2>1 DEF Launch, TypeOK, ClientLocs
    <2>2. CASE c \notin Rejected
      <3>1. /\ ppc' = [ppc EXCEPT ![c] = "spawned"] /\ alive' = [alive EXCEPT ![c] = TRUE]
            /\ wpc' = [wpc EXCEPT ![c] = "acquire"] \/ wpc' = [wpc EXCEPT ![c] = "detached"]
        BY Zenon, <1>4, <2>2 DEF Launch
      <3>2. ppc' \in [Calls -> ClientLocs] /\ alive' \in [Calls -> BOOLEAN]
        BY Zenon, <3>1 DEF TypeOK, ClientLocs
      <3>3. wpc' \in [Calls -> WorkerLocs]
        BY Zenon, <3>1 DEF TypeOK, WorkerLocs
      <3>4. QED  BY Zenon, <1>4, <3>2, <3>3 DEF Launch, TypeOK
    <2>3. QED  BY Zenon, <2>1, <2>2
  <1>5. CASE Register(c)
    BY <1>5 DEF Register, TypeOK, ClientLocs
  <1>6. CASE Await(c)
    BY ZenonT(30), <1>6 DEF Await, Leave, TypeOK, ClientLocs
  <1>7. CASE Collect(c)
    BY <1>7 DEF Collect, TypeOK, ClientLocs, Answers
  <1>8. CASE PopStatus(c)
    <2>1. status' \in [Calls -> Stages \union {"none"}] /\ sem' \in [Stages -> Nat]
      BY Zenon, <1>8, PopAndReleaseType DEF PopStatus, TypeOK
    <2>2. ppc' \in [Calls -> ClientLocs] /\ alive' \in [Calls -> BOOLEAN]
      <3>1. /\ ppc' = [ppc EXCEPT ![c] = "popped"] \/ ppc' = [ppc EXCEPT ![c] = "raised"]
            /\ alive' = alive \/ alive' = [alive EXCEPT ![c] = FALSE]
        BY <1>8 DEF PopStatus, Leave
      <3>2. QED  BY Zenon, <3>1 DEF TypeOK, ClientLocs
    <2>3. QED  BY Zenon, <1>8, <2>1, <2>2 DEF PopStatus, TypeOK
  <1>9. CASE Close(c)
    BY <1>9 DEF Close, Leave, TypeOK, ClientLocs
  <1>10. QED  BY Zenon, <1>1, <1>2, <1>3, <1>4, <1>5, <1>6, <1>7, <1>8, <1>9 DEF ProcessStep

LEMMA TypeWorker ==
  ASSUME TypeOK, NEW c \in Calls, WorkerStep(c) \/ Crash(c) PROVE TypeOK'
  <1> USE DEF serverVars, managerVars, workerVars, clientVars, stopVars
  <1>1. CASE Acquire(c)
    <2>1. stage[c] \in Stages /\ sem[stage[c]] \in Nat /\ sem[stage[c]] > 0
      BY Zenon, <1>1 DEF Acquire, TypeOK
    <2>2. sem' \in [Stages -> Nat]
      BY <1>1, <2>1 DEF Acquire, TypeOK
    <2>3. QED  BY <1>1, <2>2 DEF Acquire, TypeOK, WorkerLocs
  <1>2. CASE TakeLock(c)
    BY Zenon, <1>2 DEF TakeLock, TypeOK
  <1>0. CASE Crash(c)
    BY Zenon, <1>0 DEF Crash, TypeOK
  <1>3. CASE Mark(c) \/ Step(c)
    <2>1. CASE Mark(c)
      BY Zenon, <2>1 DEF Mark, TypeOK, WorkerLocs
    <2>2. CASE Step(c)
      <3>1. /\ out' = [out EXCEPT ![c] = "ok"] \/ out' = [out EXCEPT ![c] = "failed"]
            /\ done' = [done EXCEPT ![c] = @ \union {stage[c]}] \/ done' = done
        BY Zenon, <2>2 DEF Step
      <3>2. out' \in [Calls -> Answers] /\ done' \in [Calls -> SUBSET Stages]
        <4>1. out' \in [Calls -> Answers]
          BY Zenon, <3>1 DEF TypeOK, Answers
        <4>2. PICK D : D = done[c] \union {stage[c]}
          OBVIOUS
        <4>3. D \in SUBSET Stages
          BY <4>2 DEF TypeOK
        <4>4. done' = [done EXCEPT ![c] = D] \/ done' = done
          BY Zenon, <3>1, <4>2
        <4>5. done' \in [Calls -> SUBSET Stages]
          <5>1. done \in [Calls -> SUBSET Stages]
            BY Zenon DEF TypeOK
          <5>2. [done EXCEPT ![c] = D] \in [Calls -> SUBSET Stages]
            BY Zenon, <4>3, <5>1
          <5>3. QED  BY Zenon, <4>4, <5>1, <5>2
        <4>6. QED  BY Zenon, <4>1, <4>5
      <3>3. QED  BY Zenon, <2>2, <3>2 DEF Step, TypeOK, WorkerLocs
    <2>3. QED  BY Zenon, <1>3, <2>1, <2>2
  <1>4. CASE Release(c)
    BY <1>4 DEF Release, TypeOK, WorkerLocs
  <1>5. CASE Pop(c)
    <2>1. Continues(c) => NextStage[stage[c]] \in Stages
      BY DEF Continues, NextStage, Stages, TypeOK
    <2>2. QED  BY ZenonT(30), <1>5, <2>1 DEF Pop, TypeOK, WorkerLocs
  <1>6. CASE PutResult(c)
    <2>1. PICK r \in {out[c], "failed"} : inbox' = Append(inbox, <<c, r>>)
      BY <1>6 DEF PutResult
    <2>2. <<c, r>> \in Messages
      BY <2>1 DEF TypeOK, Messages, Answers
    <2>3. inbox' \in Seq(Messages)
      BY <2>1, <2>2 DEF TypeOK, Messages
    <2>4. QED  BY <1>6, <2>3 DEF PutResult, TypeOK, WorkerLocs, Messages
  <1>7. CASE Final(c)
    <2>1. status' \in [Calls -> Stages \union {"none"}] /\ sem' \in [Stages -> Nat]
      BY <1>7, PopAndReleaseType DEF Final
    <2>2. QED  BY Zenon, <1>7, <2>1 DEF Final, TypeOK, WorkerLocs
  <1>8. CASE Orphaned(c)
    BY <1>8 DEF Orphaned, TypeOK, WorkerLocs
  <1>9. QED  BY Zenon, <1>0, <1>1, <1>2, <1>3, <1>4, <1>5, <1>6, <1>7, <1>8 DEF WorkerStep

LEMMA TypeDeliver == ASSUME TypeOK, Deliver PROVE TypeOK'
  <1> USE DEF serverVars, managerVars, workerVars, clientVars, stopVars
  <1>1. inbox \in Seq(Messages) /\ inbox # <<>>
    BY DEF Deliver, TypeOK, Messages
  <1>2. Head(inbox) \in Messages /\ Tail(inbox) \in Seq(Messages)
    BY <1>1
  <1>3. Head(inbox) # STOP => Head(inbox)[1] \in Calls /\ Head(inbox)[2] \in Answers
    BY Zenon, <1>2 DEF Messages
  <1>4. result' \in [Calls -> Answers] /\ finished' \in [Calls -> BOOLEAN]
    BY Zenon, <1>3 DEF Deliver, TypeOK
  <1>5. QED  BY Zenon, <1>2, <1>4 DEF Deliver, TypeOK, Messages

LEMMA TypeStop == ASSUME TypeOK, StopStep PROVE TypeOK'
  <1> USE DEF serverVars, managerVars, workerVars, clientVars, stopVars
  <1>1. CASE StopBegin \/ StopClear \/ StopShutdown
    BY Zenon, <1>1 DEF StopBegin, StopClear, StopShutdown, TypeOK
  <1>2. ASSUME NEW c \in Calls, StopClose(c) PROVE TypeOK'
    BY <1>2, CloseJobType DEF StopClose, TypeOK
  <1>3. CASE StopDrain
    BY <1>3 DEF StopDrain, TypeOK
  <1>4. CASE StopRelease
    BY <1>4, ConstantsAssumption DEF StopRelease, TypeOK
  <1>5. QED  BY <1>1, <1>2, <1>3, <1>4 DEF StopStep

LEMMA TypeNext == TypeOK /\ [Next]_vars => TypeOK'
  <1> SUFFICES ASSUME TypeOK, [Next]_vars PROVE TypeOK'
    OBVIOUS
  <1> USE DEF serverVars, managerVars, workerVars, clientVars, stopVars
  <1>1. CASE UNCHANGED vars
    BY <1>1 DEF vars, TypeOK
  <1>2. ASSUME NEW c \in Calls, CancelSignal(c) \/ CancelRelease(c) PROVE TypeOK'
    <2>1. CASE CancelSignal(c)
      BY Zenon, <2>1 DEF CancelSignal, TypeOK
    <2>2. CASE CancelRelease(c)
      <3>1. status' \in [Calls -> Stages \union {"none"}] /\ sem' \in [Stages -> Nat]
        BY <2>2, PopAndReleaseType DEF CancelRelease, TypeOK
      <3>2. QED  BY Zenon, <2>2, <3>1 DEF CancelRelease, TypeOK
    <2>3. QED  BY Zenon, <1>2, <2>1, <2>2
  <1>3. QED  BY Zenon, <1>1, <1>2, TypeProcess, TypeWorker, TypeDeliver, TypeStop DEF Next

(* The server, the manager, the workers and the calls keep their types,     *)
(* whatever is killed, cancelled or stopped; no semaphore becomes negative. *)
THEOREM ProcessTypeCorrect == Spec => []TypeOK
  BY TypeInit, TypeNext, PTL DEF Spec

-----------------------------------------------------------------------------
(* The end of a worker process *)

LEMMA StrayNext == TypeOK /\ NoStrayProcess /\ [Next]_vars => NoStrayProcess'
  <1> SUFFICES ASSUME TypeOK, NoStrayProcess, [Next]_vars, NEW d \in Calls,
                      ppc'[d] \in {"returned", "raised"}
               PROVE  ~alive'[d]
    BY DEF NoStrayProcess
  <1> USE DEF serverVars, managerVars, workerVars, clientVars, stopVars
  <1>1. ASSUME UNCHANGED ppc, alive'[d] => alive[d] PROVE ~alive'[d]
    BY Zenon, <1>1 DEF NoStrayProcess
  <1>2. ASSUME NEW c \in Calls, CloseJob(c) PROVE alive'[d] => alive[d]
    BY Zenon, <1>2 DEF CloseJob, TypeOK
  <1>3. ASSUME NEW c \in Calls, ProcessStep(c) PROVE ~alive'[d]
    <2>1. CASE Monitor(c) \/ CleanupStatus(c) \/ Register(c) \/ Collect(c)
      <3>1. UNCHANGED alive /\ (ppc'[d] = ppc[d] \/ ppc'[d] \notin {"returned", "raised"})
        BY <2>1 DEF Monitor, CleanupStatus, Register, Collect, TypeOK
      <3>2. QED  BY <3>1 DEF NoStrayProcess
    <2>2. CASE CleanupJob(c)
      BY <1>1, <1>2, <2>2 DEF CleanupJob, TypeOK
    <2>3. CASE Launch(c)
      <3>1. /\ ppc[c] = "monitored" /\ (d # c => alive'[d] = alive[d] /\ ppc'[d] = ppc[d])
            /\ ppc'[c] \in {"idle", "spawned"}
        BY ZenonT(30), <2>3 DEF Launch, TypeOK
      <3>2. QED  BY Zenon, <3>1 DEF NoStrayProcess
    <2>4. CASE Await(c) \/ PopStatus(c) \/ Close(c)
      <3>1. /\ d # c => ppc'[d] = ppc[d] /\ alive'[d] = alive[d]
            /\ ppc'[c] \in {"returned", "raised"} => ~alive'[c]
        BY ZenonT(30), <2>4 DEF Await, PopStatus, Close, Leave, TypeOK
      <3>2. QED  BY Zenon, <3>1 DEF NoStrayProcess
    <2>5. QED  BY <1>3, <2>1, <2>2, <2>3, <2>4 DEF ProcessStep
  <1>4. ASSUME NEW c \in Calls, WorkerStep(c) \/ Crash(c) PROVE ~alive'[d]
    <2>1. UNCHANGED ppc /\ (alive' = alive \/ alive' = [alive EXCEPT ![c] = FALSE])
      BY Zenon, <1>4 DEF WorkerStep, Crash, Acquire, TakeLock, Mark, Step, Release, Pop,
         PutResult, Final,
         Orphaned
    <2>2. QED  BY Zenon, <1>1, <2>1 DEF TypeOK
  <1>5. CASE StopStep
    BY Zenon, <1>1, <1>2, <1>5 DEF StopStep, StopBegin, StopClose, StopClear, StopDrain,
       StopRelease,
       StopShutdown
  <1>6. CASE UNCHANGED vars \/ Deliver \/ \E c \in Calls : CancelSignal(c) \/ CancelRelease(c)
    BY Zenon, <1>1, <1>6 DEF vars, Deliver, CancelSignal, CancelRelease
  <1>7. QED  BY Zenon, <1>3, <1>4, <1>5, <1>6 DEF Next

(* A worker process never outlives its process() call, whether the call     *)
(* returns or raises, and whatever is cancelled, killed or stopped.         *)
THEOREM WorkersEnd == Spec => []NoStrayProcess
  <1>1. Init => NoStrayProcess
    BY DEF Init, NoStrayProcess
  <1>2. QED  BY <1>1, TypeInit, TypeNext, StrayNext, PTL DEF Spec

-----------------------------------------------------------------------------
(* What a success stands for *)

Before(s) == CASE s = "init" -> {} [] s = "run" -> {"init"} [] s = "eval" -> {"init", "run"}

(* Stages are passed in order, and every copy of a success, from the worker *)
(* through the result queue and JobState to the answer, is of a job that    *)
(* passed all of them.                                                      *)
Passed(c) ==
  /\ Before(stage[c]) \subseteq done[c]
  /\ wpc[c] \in {"release", "pop"} /\ out[c] = "ok" => stage[c] \in done[c]
  /\ wpc[c] = "result" /\ out[c] = "ok" => done[c] = Stages
  /\ result[c] = "ok" => done[c] = Stages
  /\ answer[c] = "ok" => done[c] = Stages

EarnedInv ==
  /\ \A c \in Calls : Passed(c)
  /\ \A k \in 1..Len(inbox) : \A c \in Calls : inbox[k] = <<c, "ok">> => done[c] = Stages

LEMMA EarnedInit == Init => EarnedInv
  BY DEF Init, EarnedInv, Passed, Before

LEMMA PassedKept ==
  ASSUME NEW c \in Calls, Passed(c), stage'[c] = stage[c], done'[c] = done[c], out'[c] = out[c],
         wpc'[c] = wpc[c] \/ wpc'[c] \notin {"release", "pop", "result"},
         result'[c] = result[c], answer'[c] = answer[c]
  PROVE  Passed(c)'
  BY DEF Passed

LEMMA EarnedWorker ==
  ASSUME TypeOK, EarnedInv, NEW c \in Calls, WorkerStep(c) \/ Crash(c) PROVE EarnedInv'
  <1> USE DEF serverVars, managerVars, workerVars, clientVars, stopVars
  <1>1. /\ stage \in [Calls -> Stages] /\ done \in [Calls -> SUBSET Stages]
        /\ wpc \in [Calls -> WorkerLocs] /\ out \in [Calls -> Answers]
        /\ inbox \in Seq(Messages)
    BY Zenon DEF TypeOK, Messages
  <1>2. /\ UNCHANGED <<result, answer>>
        /\ \A d \in Calls \ {c} : /\ stage'[d] = stage[d] /\ done'[d] = done[d] /\ out'[d] = out[d]
                                  /\ wpc'[d] = wpc[d]
    BY Zenon, <1>1 DEF WorkerStep, Crash, Acquire, TakeLock, Mark, Step, Release, Pop, PutResult,
       Final,
       Orphaned
  <1>3. \A d \in Calls \ {c} : Passed(d)'
    BY Zenon, <1>2, PassedKept DEF EarnedInv
  <1>4. done[c] \subseteq done'[c]
    <2>1. CASE Step(c)
      BY Zenon, <1>1, <2>1 DEF Step
    <2>2. CASE UNCHANGED done
      BY Zenon, <2>2
    <2>3. QED
      BY Zenon, <2>1, <2>2 DEF WorkerStep, Crash, Acquire, TakeLock, Mark, Release, Pop, PutResult,
         Final, Orphaned
  <1>5. done' \in [Calls -> SUBSET Stages]
    BY Zenon, TypeWorker DEF TypeOK
  <1>6. Passed(c)'
    <2>1. Passed(c)
      BY Zenon DEF EarnedInv
    <2>2. CASE Step(c)
      <3>1. /\ wpc'[c] = "release" /\ stage'[c] = stage[c]
            /\ out'[c] = "ok" => stage[c] \in done'[c]
        BY Zenon, <1>1, <2>2 DEF Step
      <3>2. QED  BY Zenon, <1>2, <1>4, <1>5, <2>1, <3>1 DEF Passed
    <2>3. CASE Release(c)
      BY Zenon, <1>1, <2>1, <2>3 DEF Release, Passed
    <2>4. CASE Pop(c)
      <3>1. Passed(c) /\ wpc[c] = "pop" /\ UNCHANGED <<done, out>>
        BY Zenon, <2>1, <2>4 DEF Pop
      <3>2. CASE Continues(c)
        <4>1. /\ stage'[c] = NextStage[stage[c]] /\ wpc'[c] = "acquire"
              /\ stage[c] \in done[c] /\ stage[c] \in {"init", "run"}
          BY Zenon, <1>1, <2>4, <3>1, <3>2 DEF Pop, Continues, Passed, Stages
        <4>2. Before(stage'[c]) \subseteq done'[c]
          BY Zenon, <3>1, <4>1 DEF Passed, NextStage, Before
        <4>3. QED  BY Zenon, <1>2, <3>1, <4>1, <4>2 DEF Passed
      <3>3. CASE ~Continues(c)
        <4>1. wpc'[c] = "result" /\ stage' = stage
          BY Zenon, <1>1, <2>4, <3>3 DEF Pop
        <4>2. out[c] = "ok" => done[c] = Stages
          BY Zenon, <1>1, <3>1, <3>3 DEF Passed, Continues, Before, Stages
        <4>3. QED  BY Zenon, <1>2, <3>1, <4>1, <4>2 DEF Passed
      <3>4. QED  BY Zenon, <3>2, <3>3
    <2>5. CASE ~Step(c) /\ ~Release(c) /\ ~Pop(c)
      <3>1. /\ UNCHANGED <<stage, done, out>>
            /\ wpc'[c] = wpc[c] \/ wpc'[c] \notin {"release", "pop", "result"}
        BY Zenon, <1>1, <2>5 DEF WorkerStep, Crash, Acquire, TakeLock, Mark, PutResult, Final,
           Orphaned
      <3>2. QED  BY Zenon, <1>2, <2>1, <3>1, PassedKept
    <2>6. QED  BY Zenon, <2>2, <2>3, <2>4, <2>5
  <1>7. \A k \in 1..Len(inbox') : \A d \in Calls : inbox'[k] = <<d, "ok">> => done'[d] = Stages
    <2>1. \A d \in Calls : done[d] = Stages => done'[d] = Stages
      <3>1. done'[c] \subseteq Stages
        BY Zenon, <1>5
      <3>2. done[c] = Stages => done'[c] = Stages
        BY Zenon, <1>4, <3>1
      <3>3. QED  BY Zenon, <1>2, <3>2
    <2>2. CASE PutResult(c)
      <3>1. PICK r \in {out[c], "failed"} : inbox' = Append(inbox, <<c, r>>)
        BY Zenon, <2>2 DEF PutResult
      <3>2. r = "ok" => done[c] = Stages
        BY Zenon, <2>2, <3>1 DEF PutResult, EarnedInv, Passed
      <3>3. \A k \in 1..Len(inbox') : inbox'[k] = <<c, r>> \/ (k \in 1..Len(inbox) /\ inbox'[k] = inbox[k])
        BY <1>1, <3>1
      <3>4. QED  BY <2>1, <3>2, <3>3 DEF EarnedInv
    <2>3. CASE ~PutResult(c)
      <3>1. UNCHANGED inbox
        BY Zenon, <2>3 DEF WorkerStep, Crash, Acquire, TakeLock, Mark, Step, Release, Pop, Final,
           Orphaned
      <3>2. QED  BY Zenon, <2>1, <3>1 DEF EarnedInv
    <2>4. QED  BY Zenon, <2>2, <2>3
  <1>8. QED  BY Zenon, <1>3, <1>6, <1>7 DEF EarnedInv

LEMMA EarnedDeliver == ASSUME TypeOK, EarnedInv, Deliver PROVE EarnedInv'
  <1> USE DEF serverVars, managerVars, workerVars, clientVars, stopVars
  <1>1. /\ inbox \in Seq(Messages) /\ inbox # <<>> /\ inbox' = Tail(inbox)
        /\ UNCHANGED <<stage, done, out, wpc, answer>> /\ result \in [Calls -> Answers]
    BY Zenon DEF Deliver, TypeOK, Messages
  <1>2. /\ 1 \in 1..Len(inbox) /\ Head(inbox) = inbox[1] /\ Head(inbox) \in Messages
        /\ \A k \in 1..Len(inbox') : k + 1 \in 1..Len(inbox) /\ inbox'[k] = inbox[k + 1]
    BY <1>1
  <1>3. \A k \in 1..Len(inbox') : \A c \in Calls : inbox'[k] = <<c, "ok">> => done'[c] = Stages
    BY ZenonT(30), <1>1, <1>2 DEF EarnedInv
  <1>4. \A c \in Calls : result'[c] = "ok" => done[c] = Stages
    <2>1. CASE UNCHANGED result
      BY Zenon, <2>1 DEF EarnedInv, Passed
    <2>2. CASE Head(inbox) # STOP
      <3>1. PICK d \in Calls, r \in Answers : Head(inbox) = <<d, r>>
        BY <1>2, <2>2 DEF Messages
      <3>2. r = "ok" => done[d] = Stages
        BY Zenon, <1>2, <3>1 DEF EarnedInv
      <3>3. result' = result \/ result' = [result EXCEPT ![d] = r]
        BY <3>1 DEF Deliver
      <3>4. QED  BY Zenon, <1>1, <3>2, <3>3 DEF EarnedInv, Passed
    <2>3. QED  BY Zenon, <2>1, <2>2 DEF Deliver
  <1>5. \A c \in Calls : Passed(c)'
    BY Zenon, <1>1, <1>4 DEF EarnedInv, Passed
  <1>6. QED  BY Zenon, <1>3, <1>5 DEF EarnedInv

LEMMA EarnedNext == TypeOK /\ EarnedInv /\ [Next]_vars => EarnedInv'
  <1> SUFFICES ASSUME TypeOK, EarnedInv, [Next]_vars PROVE EarnedInv'
    OBVIOUS
  <1> USE DEF serverVars, managerVars, workerVars, clientVars, stopVars
  <1>1. ASSUME UNCHANGED <<stage, done, out, inbox, result>>,
               \A c \in Calls : wpc'[c] = wpc[c] \/ wpc'[c] \notin {"release", "pop", "result"},
               \A c \in Calls : answer'[c] = answer[c] \/ answer'[c] = result[c] \/ answer'[c] = "failed"
        PROVE  EarnedInv'
    BY Zenon, <1>1 DEF EarnedInv, Passed
  <1>2. ASSUME NEW c \in Calls, ProcessStep(c) PROVE EarnedInv'
    <2>1. UNCHANGED <<stage, done, out, inbox, result>>
      BY Zenon, <1>2 DEF ProcessStep, Monitor, CleanupStatus, CleanupJob, Launch, Register, Await,
         Collect,
         PopStatus, Close
    <2>2. \A d \in Calls : wpc'[d] = wpc[d] \/ wpc'[d] \notin {"release", "pop", "result"}
      BY ZenonT(30), <1>2 DEF ProcessStep, Monitor, CleanupStatus, CleanupJob, Launch, Register,
         Await, Collect,
         PopStatus, Close, TypeOK
    <2>3. \A d \in Calls : answer'[d] = answer[d] \/ answer'[d] = result[d] \/ answer'[d] = "failed"
      <3>1. CASE Collect(c)
        <4>1. answer \in [Calls -> Answers]
          BY Zenon DEF TypeOK
        <4>2. CASE c \in jobs /\ result[c] # "none"
          BY Zenon, <3>1, <4>1, <4>2 DEF Collect
        <4>3. CASE ~(c \in jobs /\ result[c] # "none")
          BY Zenon, <3>1, <4>1, <4>3 DEF Collect
        <4>4. QED  BY Zenon, <4>2, <4>3
      <3>2. CASE UNCHANGED answer
        BY Zenon, <3>2
      <3>3. QED
        BY Zenon, <1>2, <3>1, <3>2 DEF ProcessStep, Monitor, CleanupStatus, CleanupJob, Launch,
           Register,
           Await, PopStatus, Close
    <2>4. QED  BY Zenon, <1>1, <2>1, <2>2, <2>3
  <1>3. CASE UNCHANGED vars \/ \E c \in Calls : CancelSignal(c) \/ CancelRelease(c)
    BY Zenon, <1>1, <1>3 DEF vars, CancelSignal, CancelRelease
  <1>4. CASE StopDrain
    <2>1. \A c \in Calls : Passed(c)'
      BY Zenon, <1>4 DEF StopDrain, EarnedInv, Passed
    <2>2. inbox' = <<STOP>>
      BY Zenon, <1>4 DEF StopDrain
    <2>3. \A k \in 1..Len(inbox') : \A c \in Calls : inbox'[k] = <<c, "ok">> => done'[c] = Stages
      BY <2>2, ConstantsAssumption DEF Answers
    <2>4. QED  BY Zenon, <2>1, <2>3 DEF EarnedInv
  <1>5. CASE StopStep /\ ~StopDrain
    BY Zenon, <1>1, <1>5 DEF StopStep, StopBegin, StopClose, StopClear, StopRelease, StopShutdown
  <1>6. QED  BY Zenon, <1>2, <1>3, <1>4, <1>5, EarnedWorker, EarnedDeliver DEF Next

(* Whatever is cancelled, killed or stopped: process() hands out a success  *)
(* only for a job whose worker passed init, run and eval.                   *)
THEOREM SuccessEarned == Spec => []ProcessAnswerSound
  <1>1. EarnedInv => ProcessAnswerSound
    BY Zenon DEF EarnedInv, Passed, ProcessAnswerSound
  <1>2. QED  BY <1>1, TypeInit, TypeNext, EarnedInit, EarnedNext, PTL DEF Spec

-----------------------------------------------------------------------------
(* Permits *)

(* Nobody calls cancel_job(), and no worker is killed between taking a      *)
(* permit and recording it in job_status, or between giving it back and     *)
(* removing the record: in those cases nobody knows whether the permit is   *)
(* still out.                                                               *)
PermitsRecorded == Cancellable = {} /\ CrashAt \intersect {"acquire", "mark", "pop"} = {}

(* What the table has of a job agrees with where its worker is, and only a  *)
(* worker that is done with its stages is killed.                           *)
Standing(c) ==
  /\ cpc[c] = "idle"
  /\ alive[c] => /\ wpc[c] \in {"acquire", "mark", "step", "release", "pop", "result", "final"}
                 /\ status[c] = IF wpc[c] \in {"step", "release", "pop"} THEN stage[c] ELSE "none"
  /\ ~alive[c] => wpc[c] \notin {"acquire", "mark", "pop"} /\ status[c] \in {"none", stage[c]}
  /\ finished[c] => ~alive[c] \/ wpc[c] = "final"
  /\ ppc[c] \in {"collected", "popped"} => finished[c]
  /\ ppc[c] = "registered" => c \in jobs \/ ~alive[c]
  /\ ppc[c] \in {"idle", "monitored"} => /\ c \notin jobs /\ ~alive[c]
                                         /\ wpc[c] = "none" /\ status[c] = "none" /\ ~finished[c]
  /\ \A d \in Calls : c \in expired[d] \union closing[d]
                        => ~alive[c] /\ ppc[c] \notin {"idle", "monitored"}

Reported == \A k \in 1..Len(inbox) : \A c \in Calls : \A r \in Answers :
              inbox[k] = <<c, r>> => wpc[c] \in {"final", "exit"}

Balanced(s) == IsFiniteSet(Holders(s)) /\ sem[s] + Cardinality(Holders(s)) = MaxWorkers[s]

PermitInv ==
  running => /\ spc = "idle" /\ manager
             /\ \A c \in Calls : Standing(c)
             /\ Reported
             /\ \A s \in Stages : Balanced(s)

Holding(c, s) ==
  /\ stage[c] = s
  /\ IF alive[c] THEN wpc[c] \in {"mark", "step", "release"} ELSE status[c] = s

(* A step of one job takes a permit, gives one back, or does neither.       *)
Moved(c, s) ==
  \/ (Holding(c, s)' <=> Holding(c, s)) /\ sem'[s] = sem[s]
  \/ ~Holding(c, s) /\ Holding(c, s)' /\ sem'[s] = sem[s] - 1
  \/ Holding(c, s) /\ ~Holding(c, s)' /\ sem'[s] = sem[s] + 1

Same(d) == /\ stage'[d] = stage[d] /\ alive'[d] = alive[d] /\ wpc'[d] = wpc[d]
           /\ status'[d] = status[d] /\ finished'[d] = finished[d] /\ ppc'[d] = ppc[d]
           /\ d \in jobs' <=> d \in jobs

LEMMA PermitInit == Init => PermitInv
  <1> SUFFICES ASSUME Init PROVE PermitInv
    OBVIOUS
  <1>1. \A c \in Calls : Standing(c)
    BY Zenon DEF Init, Standing
  <1>2. Reported
    BY DEF Init, Reported
  <1>3. \A s \in Stages : Holders(s) = {}
    <2>1. \A c \in Calls : ~alive[c] /\ status[c] = "none"
      BY Zenon DEF Init
    <2>2. "none" \notin Stages
      BY Zenon DEF Stages
    <2>3. QED  BY Zenon, <2>1, <2>2 DEF Holders
  <1>4. \A s \in Stages : Balanced(s)
    <2>1. \A s \in Stages : sem[s] = MaxWorkers[s] /\ MaxWorkers[s] \in Nat
      BY Zenon, ConstantsAssumption DEF Init
    <2>2. \A s \in Stages : IsFiniteSet(Holders(s)) /\ Cardinality(Holders(s)) = 0
      BY Zenon, <1>3, FS_EmptySet
    <2>3. QED  BY <2>1, <2>2 DEF Balanced
  <1>5. QED  BY Zenon, <1>1, <1>2, <1>4 DEF PermitInv, Init

LEMMA BalancedMove ==
  ASSUME TypeOK, NEW s \in Stages, Balanced(s), NEW c \in Calls, Moved(c, s),
         \A d \in Calls \ {c} : Same(d)
  PROVE  Balanced(s)'
  <1>1. /\ c \in Holders(s) <=> Holding(c, s)
        /\ c \in Holders(s)' <=> Holding(c, s)'
    BY Zenon DEF Holders, Holding
  <1>2. \A d \in Calls \ {c} : d \in Holders(s)' <=> d \in Holders(s)
    BY Zenon DEF Same, Holders
  <1>3. Holders(s) \subseteq Calls /\ Holders(s)' \subseteq Calls
    BY Zenon DEF Holders
  <1>4. IsFiniteSet(Holders(s)) /\ Cardinality(Holders(s)) \in Nat /\ sem[s] \in Nat
    BY Zenon, FS_CardinalityType DEF Balanced, TypeOK
  <1>5. CASE (Holding(c, s)' <=> Holding(c, s)) /\ sem'[s] = sem[s]
    <2>1. Holders(s)' = Holders(s)
      BY <1>1, <1>2, <1>3, <1>5
    <2>2. QED  BY Zenon, <1>5, <2>1 DEF Balanced
  <1>6. CASE ~Holding(c, s) /\ Holding(c, s)' /\ sem'[s] = sem[s] - 1
    <2>1. Holders(s)' = Holders(s) \union {c} /\ c \notin Holders(s)
      BY Zenon, <1>1, <1>2, <1>3, <1>6
    <2>2. IsFiniteSet(Holders(s)') /\ Cardinality(Holders(s)') = Cardinality(Holders(s)) + 1
      BY <1>4, <2>1, FS_AddElement
    <2>3. QED  BY <1>4, <1>6, <2>2 DEF Balanced
  <1>7. CASE Holding(c, s) /\ ~Holding(c, s)' /\ sem'[s] = sem[s] + 1
    <2>1. Holders(s)' = Holders(s) \ {c} /\ c \in Holders(s)
      BY Zenon, <1>1, <1>2, <1>3, <1>7
    <2>2. IsFiniteSet(Holders(s)') /\ Cardinality(Holders(s)') = Cardinality(Holders(s)) - 1
      BY <1>4, <2>1, FS_RemoveElement
    <2>3. QED  BY <1>4, <1>7, <2>2 DEF Balanced
  <1>8. QED  BY Zenon, <1>5, <1>6, <1>7 DEF Moved

LEMMA StandingKept ==
  ASSUME NEW d \in Calls, Standing(d), Same(d), cpc'[d] = cpc[d],
         \A e \in Calls : d \in expired'[e] \union closing'[e] => d \in expired[e] \union closing[e]
  PROVE  Standing(d)'
  BY Zenon DEF Standing, Same

LEMMA PermitOne ==
  ASSUME TypeOK, PermitInv, running, UNCHANGED <<running, spc, manager, cpc>>, NEW c \in Calls,
         \A d \in Calls \ {c} : Same(d),
         \A d, e \in Calls :
           d \in expired'[e] \union closing'[e] => d \in expired[e] \union closing[e],
         Standing(c)', Reported', \A s \in Stages : Moved(c, s)
  PROVE  PermitInv'
  <1>1. \A d \in Calls : Standing(d)'
    BY Zenon, StandingKept DEF PermitInv
  <1>2. \A s \in Stages : Balanced(s)'
    BY Zenon, BalancedMove DEF PermitInv
  <1>3. QED  BY Zenon, <1>1, <1>2 DEF PermitInv

LEMMA ReportedKept ==
  ASSUME Reported, UNCHANGED inbox,
         \A d \in Calls : wpc[d] \in {"final", "exit"} => wpc'[d] \in {"final", "exit"}
  PROVE  Reported'
  BY Zenon DEF Reported

(* What releasing a recorded permit does.                                   *)
LEMMA Released ==
  ASSUME TypeOK, NEW c \in Calls, Standing(c), PopAndRelease(c),
         ~alive[c] \/ wpc[c] = "final", UNCHANGED stage, alive'[c] = alive[c] \/ ~alive'[c],
         wpc'[c] = wpc[c] \/ ~alive'[c]
  PROVE  /\ status'[c] = "none"
         /\ \A d \in Calls \ {c} : status'[d] = status[d]
         /\ \A s \in Stages : Moved(c, s)
  <1>1. /\ status'[c] = "none" /\ \A d \in Calls \ {c} : status'[d] = status[d]
        /\ \A s \in Stages : sem'[s] = IF s = status[c] THEN sem[s] + 1 ELSE sem[s]
    BY Zenon DEF PopAndRelease, TypeOK
  <1>2. "none" \notin Stages /\ stage[c] \in Stages
    BY Zenon DEF Stages, TypeOK
  <1>3. CASE alive[c]
    BY ZenonT(30), <1>1, <1>2, <1>3 DEF Standing, Moved, Holding
  <1>4. CASE ~alive[c]
    BY ZenonT(30), <1>1, <1>2, <1>4 DEF Standing, Moved, Holding
  <1>5. QED  BY Zenon, <1>1, <1>3, <1>4

LEMMA PermitClean ==
  ASSUME PermitsRecorded, TypeOK, PermitInv, running, NEW c \in Calls,
         Monitor(c) \/ CleanupStatus(c) \/ CleanupJob(c)
  PROVE  PermitInv'
  <1> USE DEF serverVars, managerVars, workerVars, clientVars, stopVars
  <1>1. /\ \A d \in Calls : Standing(d)
        /\ Reported /\ manager /\ spc = "idle" /\ \A s \in Stages : Balanced(s)
        /\ expired \in [Calls -> SUBSET Calls] /\ closing \in [Calls -> SUBSET Calls]
        /\ ppc \in [Calls -> ClientLocs] /\ alive \in [Calls -> BOOLEAN]
        /\ finished \in [Calls -> BOOLEAN] /\ jobs \subseteq Calls
    BY Zenon DEF PermitInv, TypeOK
  <1>2. UNCHANGED <<running, spc, manager, cpc, inbox, wpc, stage>>
    BY Zenon DEF Monitor, CleanupStatus, CleanupJob
  <1>3. Reported'
    BY Zenon, <1>1, <1>2, ReportedKept
  <1>4. CASE Monitor(c)
    <2>1. PICK D \in SUBSET {j \in jobs : ~alive[j]} :
            /\ expired' = [expired EXCEPT ![c] = D]
            /\ ppc' = [ppc EXCEPT ![c] = IF c \in Rejected /\ D = {} THEN "idle" ELSE "monitored"]
      BY Zenon, <1>4 DEF Monitor
    <2>2. ppc[c] = "idle" /\ UNCHANGED <<jobs, finished, alive, status, sem, closing>>
      BY Zenon, <1>4 DEF Monitor
    <2>3. /\ \A e \in Calls \ {c} : expired'[e] = expired[e] /\ ppc'[e] = ppc[e]
          /\ expired'[c] = D /\ ppc'[c] \in {"idle", "monitored"}
      BY Zenon, <1>1, <2>1
    <2>4. \A d \in Calls : Standing(d)'
      <3>1. c \notin D /\ \A d \in D : ~alive[d] /\ ppc[d] \notin {"idle", "monitored"} /\ d # c
        BY Zenon, <1>1, <2>1, <2>2 DEF Standing
      <3>2. QED  BY <1>1, <1>2, <2>2, <2>3, <3>1 DEF Standing
    <2>5. \A s \in Stages : Balanced(s)'
      BY Zenon, <1>1, <1>2, <2>2 DEF Balanced, Holders
    <2>6. QED  BY Zenon, <1>1, <1>2, <1>3, <2>4, <2>5 DEF PermitInv
  <1>5. CASE CleanupStatus(c)
    <2>1. PICK j \in expired[c] :
            /\ expired' = [expired EXCEPT ![c] = @ \ {j}]
            /\ PopAndRelease(j) /\ closing' = [closing EXCEPT ![c] = {j}]
      BY Zenon, <1>1, <1>5 DEF CleanupStatus
    <2>2. UNCHANGED <<ppc, alive, finished, jobs>>
      BY Zenon, <1>5 DEF CleanupStatus
    <2>3. j \in Calls /\ ~alive[j]
      BY Zenon, <1>1 DEF Standing
    <2>4. /\ status'[j] = "none" /\ \A d \in Calls \ {j} : status'[d] = status[d]
          /\ \A s \in Stages : Moved(j, s)
      BY Zenon, <1>1, <1>2, <2>1, <2>2, <2>3, Released
    <2>5. \A d, e \in Calls :
            d \in expired'[e] \union closing'[e] => d \in expired[e] \union closing[e]
      BY Zenon, <1>1, <2>1
    <2>6. \A d \in Calls \ {j} : Same(d)
      BY Zenon, <1>2, <2>2, <2>4 DEF Same
    <2>7. Standing(j)'
      BY Zenon, <1>1, <1>2, <2>2, <2>3, <2>4, <2>5 DEF Standing
    <2>8. QED  BY Zenon, <1>2, <1>3, <2>3, <2>4, <2>5, <2>6, <2>7, PermitOne
  <1>6. CASE CleanupJob(c)
    <2>1. PICK j \in closing[c] : CloseJob(j)
      BY Zenon, <1>6 DEF CleanupJob
    <2>2. /\ UNCHANGED <<ppc, expired, status, sem>> /\ closing' = [closing EXCEPT ![c] = {}]
          /\ j \in Calls /\ ~alive[j]
      BY Zenon, <1>1, <1>6 DEF CleanupJob, Standing
    <2>3. /\ alive'[j] = alive[j] /\ \A d \in Calls \ {j} :
               alive'[d] = alive[d] /\ finished'[d] = finished[d] /\ (d \in jobs' <=> d \in jobs)
          /\ j \in jobs' => j \in jobs
          /\ j \notin jobs => finished'[j] = finished[j]
      BY Zenon, <1>1, <2>1, <2>2 DEF CloseJob
    <2>4. \A d, e \in Calls :
            d \in expired'[e] \union closing'[e] => d \in expired[e] \union closing[e]
      BY Zenon, <1>1, <2>2
    <2>5. \A d \in Calls \ {j} : Same(d)
      BY Zenon, <1>2, <2>2, <2>3 DEF Same
    <2>6. Standing(j)'
      <3>1. Standing(j) /\ ppc[j] \notin {"idle", "monitored"}
        BY Zenon, <1>1, <2>2 DEF Standing
      <3>2. ppc[j] \in {"collected", "popped"} => finished'[j]
        BY Zenon, <1>1, <2>1, <2>2, <3>1 DEF CloseJob, Standing
      <3>3. QED  BY Zenon, <1>2, <2>2, <2>3, <2>4, <3>1, <3>2 DEF Standing
    <2>7. \A s \in Stages : Moved(j, s)
      BY Zenon, <1>2, <2>2, <2>3 DEF Moved, Holding
    <2>8. QED  BY Zenon, <1>2, <1>3, <2>2, <2>4, <2>5, <2>6, <2>7, PermitOne
  <1>7. QED  BY Zenon, <1>4, <1>5, <1>6

LEMMA PermitCall ==
  ASSUME PermitsRecorded, TypeOK, PermitInv, running, NEW c \in Calls,
         Launch(c) \/ Register(c) \/ Await(c) \/ Collect(c) \/ PopStatus(c) \/ Close(c)
  PROVE  PermitInv'
  <1> USE DEF serverVars, managerVars, workerVars, clientVars, stopVars
  <1>1. /\ Standing(c) /\ Reported /\ manager
        /\ ppc \in [Calls -> ClientLocs] /\ alive \in [Calls -> BOOLEAN]
        /\ wpc \in [Calls -> WorkerLocs] /\ status \in [Calls -> Stages \union {"none"}]
        /\ jobs \subseteq Calls
    BY Zenon DEF PermitInv, TypeOK
  <1>2. UNCHANGED <<running, spc, manager, cpc, inbox, stage, expired, closing, finished>>
    BY Zenon DEF Launch, Register, Await, Collect, PopStatus, Close
  <1>3. ASSUME wpc' = wpc \/ wpc[c] = "none", \A d \in Calls \ {c} : Same(d), Standing(c)',
               \A s \in Stages : Moved(c, s)
        PROVE  PermitInv'
    <2>1. \A d \in Calls : wpc[d] \in {"final", "exit"} => wpc'[d] \in {"final", "exit"}
      BY Zenon, <1>3 DEF Same
    <2>2. Reported'
      BY Zenon, <1>1, <1>2, <2>1, ReportedKept
    <2>3. QED  BY Zenon, <1>2, <1>3, <2>2, PermitOne
  <1>4. CASE Launch(c)
    <2>1. /\ ppc[c] = "monitored" /\ UNCHANGED <<status, sem, jobs>>
          /\ \A d \in Calls \ {c} : ppc'[d] = ppc[d] /\ alive'[d] = alive[d] /\ wpc'[d] = wpc[d]
          /\ \/ ppc'[c] = "idle" /\ UNCHANGED <<alive, wpc>>
             \/ ppc'[c] = "spawned" /\ alive'[c] /\ wpc'[c] = "acquire"
      BY Zenon, <1>1, <1>4 DEF Launch
    <2>2. \A d \in Calls \ {c} : Same(d)
      BY Zenon, <1>2, <2>1 DEF Same
    <2>3. Standing(c)'
      BY Zenon, <1>1, <1>2, <2>1 DEF Standing
    <2>4. \A s \in Stages : Moved(c, s)
      <3>1. "none" \notin Stages /\ status[c] = "none" /\ ~alive[c]
        BY Zenon, <1>1, <2>1 DEF Stages, Standing
      <3>2. QED  BY Zenon, <1>2, <2>1, <3>1 DEF Moved, Holding
    <2>5. wpc[c] = "none"
      BY Zenon, <1>1, <2>1 DEF Standing
    <2>6. QED  BY Zenon, <1>3, <2>2, <2>3, <2>4, <2>5
  <1>5. CASE Register(c) \/ Collect(c)
    <2>1. /\ \A d \in Calls \ {c} : ppc'[d] = ppc[d] /\ (d \in jobs' <=> d \in jobs)
          /\ UNCHANGED <<alive, wpc, status, sem>>
          /\ \/ ppc'[c] = "registered" /\ c \in jobs'
             \/ ppc'[c] = "collected" /\ finished[c] /\ jobs' = jobs
      BY Zenon, <1>1, <1>5 DEF Register, Collect
    <2>2. \A d \in Calls \ {c} : Same(d)
      BY Zenon, <1>2, <2>1 DEF Same
    <2>3. Standing(c)'
      BY Zenon, <1>1, <1>2, <2>1 DEF Standing
    <2>4. \A s \in Stages : Moved(c, s)
      BY Zenon, <1>2, <2>1 DEF Moved, Holding
    <2>5. QED  BY Zenon, <1>3, <2>1, <2>2, <2>3, <2>4
  <1>6. CASE Await(c)
    <2>1. /\ ppc[c] = "registered" /\ UNCHANGED <<wpc, status, sem, jobs>>
          /\ \A d \in Calls \ {c} : ppc'[d] = ppc[d] /\ alive'[d] = alive[d]
          /\ ppc'[c] \in {"waiting", "raised"} /\ (c \in jobs => alive'[c] = alive[c])
          /\ c \notin jobs => alive'[c] = FALSE
      BY Zenon, <1>1, <1>6 DEF Await, Leave
    <2>2. alive'[c] = alive[c]
      <3>1. c \notin jobs => alive[c] = FALSE
        BY Zenon, <1>1, <2>1 DEF Standing
      <3>2. QED  BY Zenon, <2>1, <3>1
    <2>3. \A d \in Calls \ {c} : Same(d)
      BY Zenon, <1>2, <2>1 DEF Same
    <2>4. Standing(c)'
      BY Zenon, <1>1, <1>2, <2>1, <2>2 DEF Standing
    <2>5. \A s \in Stages : Moved(c, s)
      BY Zenon, <1>2, <2>1, <2>2 DEF Moved, Holding
    <2>6. QED  BY Zenon, <1>3, <2>1, <2>3, <2>4, <2>5
  <1>7. CASE PopStatus(c)
    <2>1. /\ ppc[c] = "collected" /\ PopAndRelease(c) /\ UNCHANGED <<wpc, jobs, alive>>
          /\ ppc'[c] = "popped" /\ \A d \in Calls \ {c} : ppc'[d] = ppc[d]
      BY Zenon, <1>1, <1>7 DEF PopStatus
    <2>2. finished[c] /\ (~alive[c] \/ wpc[c] = "final")
      BY Zenon, <1>1, <2>1 DEF Standing
    <2>3. /\ status'[c] = "none" /\ \A d \in Calls \ {c} : status'[d] = status[d]
          /\ \A s \in Stages : Moved(c, s)
      BY Zenon, <1>1, <1>2, <2>1, <2>2, Released
    <2>4. \A d \in Calls \ {c} : Same(d)
      BY Zenon, <1>2, <2>1, <2>3 DEF Same
    <2>5. Standing(c)'
      BY Zenon, <1>1, <1>2, <2>1, <2>2, <2>3 DEF Standing
    <2>6. QED  BY Zenon, <1>3, <2>1, <2>3, <2>4, <2>5
  <1>8. CASE Close(c)
    <2>1. /\ ppc[c] = "popped" /\ UNCHANGED <<wpc, status, sem>>
          /\ ppc'[c] = "returned" /\ ~alive'[c]
          /\ \A d \in Calls \ {c} : /\ ppc'[d] = ppc[d] /\ alive'[d] = alive[d]
                                    /\ d \in jobs' <=> d \in jobs
      BY Zenon, <1>1, <1>8 DEF Close, Leave
    <2>2. ~alive[c] \/ wpc[c] = "final"
      BY Zenon, <1>1, <2>1 DEF Standing
    <2>3. \A d \in Calls \ {c} : Same(d)
      BY Zenon, <1>2, <2>1 DEF Same
    <2>4. Standing(c)'
      BY Zenon, <1>1, <1>2, <2>1, <2>2 DEF Standing
    <2>5. \A s \in Stages : Moved(c, s)
      <3>1. "none" \notin Stages
        BY Zenon DEF Stages
      <3>2. QED  BY Zenon, <1>1, <1>2, <2>1, <2>2, <3>1 DEF Moved, Holding, Standing
    <2>6. QED  BY Zenon, <1>3, <2>1, <2>3, <2>4, <2>5
  <1>9. QED  BY Zenon, <1>4, <1>5, <1>6, <1>7, <1>8

LEMMA PermitWorker ==
  ASSUME PermitsRecorded, TypeOK, PermitInv, running, NEW c \in Calls, WorkerStep(c) \/ Crash(c)
  PROVE  PermitInv'
  <1> USE DEF serverVars, managerVars, workerVars, clientVars, stopVars
  <1>1. /\ Standing(c) /\ Reported /\ manager
        /\ alive \in [Calls -> BOOLEAN] /\ wpc \in [Calls -> WorkerLocs]
        /\ status \in [Calls -> Stages \union {"none"}] /\ stage \in [Calls -> Stages]
        /\ sem \in [Stages -> Nat] /\ inbox \in Seq(Messages)
    BY Zenon DEF PermitInv, TypeOK, Messages
  <1>2. UNCHANGED <<running, spc, manager, cpc, expired, closing, finished, ppc, jobs>>
    BY Zenon, <1>1 DEF WorkerStep, Crash, Acquire, TakeLock, Mark, Step, Release, Pop, PutResult,
       Final,
       Orphaned
  <1>3. "none" \notin Stages /\ stage[c] \in Stages
    BY Zenon, <1>1 DEF Stages
  <1>4. ASSUME \A d \in Calls \ {c} : /\ stage'[d] = stage[d] /\ alive'[d] = alive[d]
                                      /\ wpc'[d] = wpc[d] /\ status'[d] = status[d],
               wpc[c] \in {"final", "exit"} => wpc'[c] \in {"final", "exit"},
               UNCHANGED inbox, Standing(c)', \A s \in Stages : Moved(c, s)
        PROVE  PermitInv'
    <2>1. \A d \in Calls \ {c} : Same(d)
      BY Zenon, <1>2, <1>4 DEF Same
    <2>2. \A d \in Calls : wpc[d] \in {"final", "exit"} => wpc'[d] \in {"final", "exit"}
      BY Zenon, <1>4
    <2>3. Reported'
      BY Zenon, <1>1, <1>4, <2>2, ReportedKept
    <2>4. QED  BY Zenon, <1>2, <1>4, <2>1, <2>3, PermitOne
  <1>5. CASE Acquire(c)
    <2>1. /\ wpc[c] = "acquire" /\ alive[c] /\ sem[stage[c]] > 0
          /\ sem' = [sem EXCEPT ![stage[c]] = @ - 1] /\ wpc' = [wpc EXCEPT ![c] = "mark"]
          /\ UNCHANGED <<stage, alive, status, inbox>>
      BY Zenon, <1>1, <1>5 DEF Acquire, Standing
    <2>2. wpc'[c] = "mark" /\ \A d \in Calls \ {c} : wpc'[d] = wpc[d]
      BY Zenon, <1>1, <2>1
    <2>3. Standing(c)'
      BY Zenon, <1>1, <1>2, <2>1, <2>2 DEF Standing
    <2>4. \A s \in Stages : Moved(c, s)
      BY Zenon, <1>1, <2>1, <2>2 DEF Moved, Holding
    <2>5. QED  BY Zenon, <1>4, <2>1, <2>2, <2>3, <2>4
  <1>6. CASE TakeLock(c)
    <2>1. UNCHANGED <<stage, alive, wpc, status, sem, inbox>>
      BY Zenon, <1>6 DEF TakeLock
    <2>2. Standing(c)' /\ \A s \in Stages : Moved(c, s)
      BY Zenon, <1>1, <1>2, <2>1 DEF Standing, Moved, Holding
    <2>3. QED  BY Zenon, <1>4, <2>1, <2>2
  <1>7. CASE Mark(c) \/ Step(c)
    <2>1. /\ wpc[c] \in {"mark", "step"} /\ alive[c] /\ UNCHANGED <<stage, alive, sem, inbox>>
          /\ wpc'[c] \in {"step", "release"} /\ \A d \in Calls \ {c} : wpc'[d] = wpc[d]
      BY Zenon, <1>1, <1>7 DEF Mark, Step
    <2>2. status'[c] = stage[c] /\ \A d \in Calls \ {c} : status'[d] = status[d]
      BY Zenon, <1>1, <1>7 DEF Mark, Step, Standing
    <2>3. Standing(c)'
      BY Zenon, <1>1, <1>2, <2>1, <2>2 DEF Standing
    <2>4. \A s \in Stages : Moved(c, s)
      BY Zenon, <2>1 DEF Moved, Holding
    <2>5. QED  BY Zenon, <1>4, <2>1, <2>2, <2>3, <2>4
  <1>8. CASE Release(c)
    <2>1. /\ wpc[c] = "release" /\ alive[c] /\ sem' = [sem EXCEPT ![stage[c]] = @ + 1]
          /\ wpc'[c] = "pop" /\ \A d \in Calls \ {c} : wpc'[d] = wpc[d]
          /\ UNCHANGED <<stage, alive, status, inbox>>
      BY Zenon, <1>1, <1>8 DEF Release
    <2>2. Standing(c)'
      BY Zenon, <1>1, <1>2, <2>1 DEF Standing
    <2>3. \A s \in Stages : Moved(c, s)
      BY Zenon, <1>1, <2>1 DEF Moved, Holding
    <2>4. QED  BY Zenon, <1>4, <2>1, <2>2, <2>3
  <1>9. CASE Pop(c)
    <2>1. /\ wpc[c] = "pop" /\ alive[c] /\ UNCHANGED <<sem, alive, inbox>>
          /\ wpc'[c] \in {"acquire", "result"} /\ status'[c] = "none"
          /\ \A d \in Calls \ {c} : /\ wpc'[d] = wpc[d] /\ status'[d] = status[d]
                                    /\ stage'[d] = stage[d]
      BY Zenon, <1>1, <1>9 DEF Pop
    <2>2. Standing(c)'
      BY Zenon, <1>1, <1>2, <2>1 DEF Standing
    <2>3. \A s \in Stages : Moved(c, s)
      BY Zenon, <2>1 DEF Moved, Holding
    <2>4. QED  BY Zenon, <1>4, <2>1, <2>2, <2>3
  <1>10. CASE PutResult(c)
    <2>1. /\ wpc[c] = "result" /\ alive[c] /\ UNCHANGED <<sem, alive, stage, status>>
          /\ wpc'[c] = "final" /\ \A d \in Calls \ {c} : wpc'[d] = wpc[d]
      BY Zenon, <1>1, <1>10 DEF PutResult
    <2>2. Standing(c)'
      BY Zenon, <1>1, <1>2, <2>1 DEF Standing
    <2>3. \A s \in Stages : Moved(c, s)
      BY Zenon, <2>1 DEF Moved, Holding
    <2>4. \A d \in Calls \ {c} : Same(d)
      BY Zenon, <1>2, <2>1 DEF Same
    <2>5. Reported'
      <3>1. PICK q : inbox' = Append(inbox, <<c, q>>)
        BY Zenon, <1>10 DEF PutResult
      <3>2. \A k \in 1..Len(inbox') : inbox'[k] = <<c, q>> \/ (k \in 1..Len(inbox) /\ inbox'[k] = inbox[k])
        BY <1>1, <3>1
      <3>3. \A d \in Calls : wpc[d] \in {"final", "exit"} => wpc'[d] \in {"final", "exit"}
        BY Zenon, <2>1
      <3>4. ASSUME NEW k \in 1..Len(inbox'), NEW d \in Calls, NEW r \in Answers, inbox'[k] = <<d, r>>
            PROVE  wpc'[d] \in {"final", "exit"}
        <4>1. CASE inbox'[k] = <<c, q>>
          BY <2>1, <3>4, <4>1
        <4>2. CASE k \in 1..Len(inbox) /\ inbox'[k] = inbox[k]
          BY Zenon, <1>1, <3>3, <3>4, <4>2 DEF Reported
        <4>3. QED  BY Zenon, <3>2, <4>1, <4>2
      <3>5. QED  BY Zenon, <3>4 DEF Reported
    <2>6. QED  BY ZenonT(30), <1>2, <2>2, <2>3, <2>4, <2>5, PermitOne
  <1>11. CASE Final(c)
    <2>1. /\ wpc[c] = "final" /\ alive[c] /\ PopAndRelease(c) /\ UNCHANGED <<stage, inbox>>
          /\ wpc'[c] = "exit" /\ ~alive'[c]
          /\ \A d \in Calls \ {c} : wpc'[d] = wpc[d] /\ alive'[d] = alive[d]
      BY Zenon, <1>1, <1>11 DEF Final
    <2>2. /\ status'[c] = "none" /\ \A d \in Calls \ {c} : status'[d] = status[d]
          /\ \A s \in Stages : Moved(c, s)
      BY Zenon, <1>1, <2>1, Released
    <2>3. Standing(c)'
      BY Zenon, <1>1, <1>2, <2>1, <2>2 DEF Standing
    <2>4. QED  BY Zenon, <1>4, <2>1, <2>2, <2>3
  <1>12. CASE Crash(c)
    <2>1. /\ alive[c] /\ ~alive'[c] /\ wpc[c] \notin {"acquire", "mark", "pop"}
          /\ UNCHANGED <<stage, wpc, status, sem, inbox>>
          /\ \A d \in Calls \ {c} : alive'[d] = alive[d]
      BY Zenon, <1>1, <1>12 DEF Crash, PermitsRecorded
    <2>2. Standing(c)'
      BY Zenon, <1>1, <1>2, <2>1 DEF Standing
    <2>3. \A s \in Stages : Moved(c, s)
      BY Zenon, <1>1, <1>3, <2>1 DEF Moved, Holding, Standing
    <2>4. QED  BY Zenon, <1>4, <2>1, <2>2, <2>3
  <1>13. CASE Orphaned(c)
    BY Zenon, <1>1, <1>13 DEF Orphaned
  <1>14. QED  BY ZenonT(30), <1>5, <1>6, <1>7, <1>8, <1>9, <1>10, <1>11, <1>12, <1>13 DEF WorkerStep

LEMMA PermitDeliver ==
  ASSUME TypeOK, PermitInv, running, Deliver PROVE PermitInv'
  <1> USE DEF serverVars, managerVars, workerVars, clientVars, stopVars
  <1>1. /\ inbox \in Seq(Messages) /\ inbox # <<>> /\ inbox' = Tail(inbox) /\ Reported
        /\ UNCHANGED <<running, spc, manager, cpc, expired, closing, ppc, jobs, stage, alive, wpc,
                       status, sem>>
        /\ finished \in [Calls -> BOOLEAN]
    BY Zenon DEF Deliver, TypeOK, Messages, PermitInv
  <1>2. /\ 1 \in 1..Len(inbox) /\ Head(inbox) = inbox[1] /\ Head(inbox) \in Messages
        /\ \A k \in 1..Len(inbox') : k + 1 \in 1..Len(inbox) /\ inbox'[k] = inbox[k + 1]
    BY <1>1
  <1>3. Reported'
    BY <1>1, <1>2 DEF Reported
  <1>4. CASE UNCHANGED finished
    <2>1. \A d \in Calls : Standing(d)'
      BY ZenonT(30), <1>1, <1>4 DEF PermitInv, Standing
    <2>2. \A s \in Stages : Balanced(s)'
      BY Zenon, <1>1 DEF PermitInv, Balanced, Holders
    <2>3. QED  BY Zenon, <1>1, <1>3, <2>1, <2>2 DEF PermitInv
  <1>5. CASE Head(inbox) # STOP /\ Head(inbox)[1] \in jobs
    <2>1. PICK c \in Calls, r \in Answers : Head(inbox) = <<c, r>>
      BY <1>2, <1>5 DEF Messages
    <2>2. wpc[c] \in {"final", "exit"} /\ c \in jobs /\ finished' = [finished EXCEPT ![c] = TRUE]
      BY <1>1, <1>2, <1>5, <2>1 DEF Reported, Deliver
    <2>3. finished'[c] = TRUE /\ \A d \in Calls \ {c} : finished'[d] = finished[d]
      BY Zenon, <1>1, <2>2
    <2>4. \A d \in Calls \ {c} : Same(d)
      BY Zenon, <1>1, <2>3 DEF Same
    <2>5. Standing(c)'
      BY Zenon, <1>1, <2>2, <2>3 DEF PermitInv, Standing
    <2>6. \A s \in Stages : Moved(c, s)
      BY Zenon, <1>1 DEF Moved, Holding
    <2>7. QED  BY Zenon, <1>1, <1>3, <2>4, <2>5, <2>6, PermitOne
  <1>6. QED  BY Zenon, <1>4, <1>5 DEF Deliver

LEMMA PermitNext ==
  ASSUME PermitsRecorded, TypeOK, PermitInv, [Next]_vars PROVE PermitInv'
  <1> USE DEF serverVars, managerVars, workerVars, clientVars, stopVars
  <1>1. SUFFICES ASSUME running' PROVE PermitInv'
    BY Zenon DEF PermitInv
  <1>2. running
    BY ZenonT(30), <1>1 DEF Next, vars, ProcessStep, Monitor, CleanupStatus, CleanupJob, Launch,
       Register, Await,
       Collect, PopStatus, Close, WorkerStep, Crash, Acquire, TakeLock, Mark, Step, Release, Pop,
       PutResult, Final, Orphaned, Deliver, CancelSignal, CancelRelease, StopStep, StopBegin,
       StopClose, StopClear, StopDrain, StopRelease, StopShutdown
  <1>3. ~StopStep
    BY Zenon, <1>1, <1>2 DEF PermitInv, StopStep, StopBegin, StopClose, StopClear, StopDrain,
       StopRelease,
       StopShutdown
  <1>4. ~ \E c \in Calls : CancelSignal(c) \/ CancelRelease(c)
    BY Zenon, <1>2 DEF PermitInv, Standing, PermitsRecorded, CancelSignal, CancelRelease
  <1>5. CASE UNCHANGED vars
    <2>1. UNCHANGED <<running, spc, manager, cpc, expired, closing, finished, ppc, jobs, stage, alive,
                      wpc, status, sem, inbox>>
      BY Zenon, <1>5 DEF vars
    <2>2. (\A c \in Calls : Standing(c)) => \A c \in Calls : Standing(c)'
      BY Zenon, <2>1 DEF Standing
    <2>3. (\A s \in Stages : Balanced(s)) => \A s \in Stages : Balanced(s)'
      BY Zenon, <2>1 DEF Balanced, Holders
    <2>4. QED  BY Zenon, <1>2, <2>1, <2>2, <2>3 DEF PermitInv, Reported
  <1>6. QED  BY ZenonT(30), <1>2, <1>3, <1>4, <1>5, PermitClean, PermitCall, PermitWorker,
     PermitDeliver
             DEF Next, ProcessStep

(* While the server runs, every permit of a stage's semaphore is free or    *)
(* stands for one worker, for any number of permits and calls: a worker     *)
(* that fails, is killed inside a stage or is cleaned up after by another   *)
(* call neither loses a permit nor gives one back twice.                    *)
THEOREM PermitsKept == ASSUME PermitsRecorded PROVE Spec => []PermitsConserved
  <1>1. PermitInv => PermitsConserved
    BY Zenon DEF PermitInv, Balanced, PermitsConserved
  <1>2. TypeOK /\ PermitInv /\ [Next]_vars => PermitInv'
    BY Zenon, PermitNext
  <1>3. QED  BY <1>1, <1>2, TypeInit, TypeNext, PermitInit, PTL DEF Spec
=============================================================================
