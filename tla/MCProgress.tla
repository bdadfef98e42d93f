----------------------------- MODULE MCProgress -----------------------------
(***************************************************************************)
(* The training loop, a rollout call and an agent run for TLC.  They meet  *)
(* only in the calls they make, so a behaviour is one of one part, which   *)
(* the initial state chooses; the other parts stay in their initial        *)
(* states, where none of their fair actions is enabled.                    *)
(***************************************************************************)
EXTENDS TrainingLoop, RolloutDispatcher, AgentLoop, TLC

CONSTANTS
  Parts,
  m1, m2, w1, w2, s1, s2

VARIABLE part

progressVars == <<part, vars, dispatcherVars, agentVars>>

(* Two messages and two servers with a worker each.                         *)
MCMessages == <<m1, m2>>
MCWorkers == <<w1, w2>>
MCServerOf == (w1 :> s1) @@ (w2 :> s2)

ASSUME DispatcherSound == DispatcherAssumption

ProgressInit == part \in Parts /\ Init /\ DispatcherInit /\ AgentInit

ProgressNext ==
  /\ UNCHANGED part
  /\ \/ part = "training" /\ Next /\ UNCHANGED <<dispatcherVars, agentVars>>
     \/ part = "dispatcher" /\ DispatcherNext /\ UNCHANGED <<vars, agentVars>>
     \/ part = "agent" /\ AgentNext /\ UNCHANGED <<vars, dispatcherVars>>

ProgressSpec ==
  /\ ProgressInit /\ [][ProgressNext]_progressVars
  /\ Fairness /\ DispatcherFairness /\ AgentFairness

-----------------------------------------------------------------------------
(* The types of the parts.                                                  *)
TypesOK == TypeOK /\ DispatcherTypeOK /\ AgentTypeOK
=============================================================================
