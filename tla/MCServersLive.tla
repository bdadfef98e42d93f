--------------------------- MODULE MCServersLive ---------------------------
(***************************************************************************)
(* That calls come back, for TLC: of the coordinator, and of the thread    *)
(* server behind it.  The coordinator sees only of the server that a job   *)
(* that runs ends, so a behaviour is one of one part, which the initial    *)
(* state chooses; the other stays in its initial state, where none of its  *)
(* fair actions is enabled.                                                *)
(***************************************************************************)
EXTENDS MCCoordinator

CONSTANTS c1, c2, NoWorker

VARIABLES
  part,
  running, entries, details, queue, active, discarded, object, live, opened, spared,
  wpc, wid, wcall, wrt, wout, ppc, answer, cpc, spc, toSignal

threadVars ==
  <<running, entries, details, queue, active, discarded, object, live, opened, spared,
    wpc, wid, wcall, wrt, wout, ppc, answer, cpc, spc, toSignal>>

(* One worker thread per stage, which is its name.                          *)
StageNames == {"init", "run", "eval"}
OneWorker == [s \in StageNames |-> s]
OneStart == [s \in StageNames |-> 1]
Cancelled == {IdOf[c1]}
WithoutFunctions == {c2}
RaisingCallbacks == {"final_result"}

(* The server is started once and not stopped; the job of c1 may be         *)
(* cancelled, c2 has no handler functions, and final_result() may raise.    *)
Threads == INSTANCE ThreadServer
  WITH Workers <- StageNames, StageOf <- OneWorker, GenOf <- OneStart,
       MaxWorkers <- OneStart, MaxStarts <- 1, Rejected <- {}, Unmapped <- WithoutFunctions,
       Cancellable <- Cancelled, StopAllowed <- FALSE, SleepSuffices <- FALSE,
       HandlerFaults <- RaisingCallbacks, starts <- entries, job <- object

ASSUME ThreadConstants == Threads!ConstantsAssumption

LiveInit == part \in {"server", "coordinator"} /\ Init /\ Threads!Init

LiveNext ==
  /\ UNCHANGED part
  /\ \/ part = "server" /\ Threads!Next /\ UNCHANGED vars
     \/ part = "coordinator" /\ Next /\ UNCHANGED threadVars

LiveSpec ==
  /\ LiveInit /\ [][LiveNext]_<<part, vars, threadVars>>
  /\ Fairness /\ Threads!Fairness

-----------------------------------------------------------------------------
(* Every call of the thread server's process() that waits for its job's     *)
(* event comes back.                                                        *)
EveryCallReturns == Threads!EveryCallReturns
=============================================================================
