---------------------------- MODULE MCThreadSafe ----------------------------
(***************************************************************************)
(* The thread server for TLC, twice: two jobs under cancels and faults     *)
(* while the server runs, and one job while the server is stopped and      *)
(* started again.  A behaviour is one of one part, which the initial state *)
(* chooses; the other part stays as it is.                                 *)
(***************************************************************************)
EXTENDS MCThreadServer

VARIABLES
  part,
  on, started, table, queues, busy, dropped, object, open, made, kept,
  wloc, wjob, wobj, wbox, wend, callAt, replied, cancelAt, stopAt, toEnd

restartVars ==
  <<on, started, table, queues, busy, dropped, object, open, made, kept,
    wloc, wjob, wobj, wbox, wend, callAt, replied, cancelAt, stopAt, toEnd>>

(* One call, two starts, and a worker thread per stage and start.           *)
OneCall == {c1}
OneId == {i1}
OneIdOf == [c \in OneCall |-> i1]
TwoStarts == {1, 2} \X Stages
TwoGenOf == [w \in TwoStarts |-> w[1]]
TwoStageOf == [w \in TwoStarts |-> w[2]]

Again == INSTANCE ThreadServer
  WITH Calls <- OneCall, Ids <- OneId, IdOf <- OneIdOf, MaxStarts <- 2,
       Workers <- TwoStarts, GenOf <- TwoGenOf, StageOf <- TwoStageOf,
       Rejected <- {}, Unmapped <- {}, Cancellable <- {}, StopAllowed <- TRUE,
       SleepSuffices <- TRUE, HandlerFaults <- {},
       running <- on, starts <- started, details <- table, queue <- queues, active <- busy,
       discarded <- dropped, job <- object, live <- open, opened <- made, spared <- kept,
       wpc <- wloc, wid <- wjob, wcall <- wobj, wrt <- wbox, wout <- wend,
       ppc <- callAt, answer <- replied, cpc <- cancelAt, spc <- stopAt, toSignal <- toEnd

(* A budget runs out, and final_result() raises, for the job that nobody    *)
(* cancels: a cancelled job is marked as timed out, and its call fails to   *)
(* delete the entry, in any case.                                           *)
FaultsNext ==
  /\ Next
  /\ \A w \in Workers : wout'[w] = "timeout" => wid'[w] \notin Cancellable
  /\ \A c \in Calls :
       ppc'[c] = "failed" /\ IdOf[c] \in Cancellable => answer'[c] # "pending"

(* The server is stopped once, and started again at any moment after that.  *)
(* Tasks end with a result; that they fail or their budget runs out is left *)
(* to the other part.                                                       *)
RestartNext ==
  /\ Again!Next
  /\ started' = 2 => on'
  /\ \A w \in TwoStarts : wend'[w] \in {"ok", "nophase"}

SafeInit == part \in {"faults", "restart"} /\ Init /\ Again!Init

SafeNext ==
  /\ UNCHANGED part
  /\ \/ part = "faults" /\ FaultsNext /\ UNCHANGED restartVars
     \/ part = "restart" /\ RestartNext /\ UNCHANGED vars

SafeSpec == SafeInit /\ [][SafeNext]_<<part, vars, restartVars>>

-----------------------------------------------------------------------------
(* The job has at most one worker thread while the workers of two starts    *)
(* are there.                                                               *)
OneWorkerOnRestart == Again!OneWorkerPerJob
=============================================================================
