-------------------------- MODULE JobSupportProofs --------------------------
(***************************************************************************)
(* The two helpers every job of a server relies on.  The timer, for every  *)
(* budget: it loses no time, and the coroutines of a job stay within the   *)
(* budget.  The choice of an LLM address, for every set of addresses:      *)
(* giving out the least used one evens out the load.                       *)
(***************************************************************************)
EXTENDS PausableTimer, TLAPS

Counted == phase_times["init"] + phase_times["run"] + phase_times["eval"]

(* The phase is the stage's from the switch in to the switch out.           *)
PhaseInv ==
  current_phase = IF pc \in {"check", "arm", "working", "exit", "leave"} THEN stage ELSE "others"

(* During a switch the phase times reach up to current_time, otherwise up   *)
(* to phase_start_time.                                                     *)
ClockInv ==
  /\ start_time <= phase_start_time /\ phase_start_time <= now
  /\ IF pc \in {"switch", "leave"}
     THEN /\ phase_start_time <= current_time /\ current_time <= now
          /\ Counted + phase_times["others"] = current_time - start_time
     ELSE Counted + phase_times["others"] = phase_start_time - start_time

(* Coroutine time is counted time, the part since the phase began included  *)
(* until it is accumulated.                                                 *)
WorkInv ==
  /\ worked <= Timeout
  /\ IF pc \in {"check", "arm", "working", "exit"}
     THEN worked <= Counted + (now - phase_start_time)
     ELSE worked <= Counted
  /\ pc = "working" => now <= deadline /\ worked + (deadline - now) <= Timeout

TimerInv == TypeOK /\ PhaseInv /\ ClockInv /\ WorkInv

(* Accumulating adds the elapsed time to the phase that ends and to no      *)
(* other.                                                                   *)
LEMMA AccumulateTimes ==
  ASSUME TypeOK, phase_start_time <= now, Accumulate
  PROVE  /\ phase_times' \in [Phases -> Nat]
         /\ current_phase \in Stages => /\ Counted' = Counted + (now - phase_start_time)
                                        /\ phase_times'["others"] = phase_times["others"]
         /\ current_phase = "others" =>
              /\ Counted' = Counted
              /\ phase_times'["others"] = phase_times["others"] + (now - phase_start_time)
  BY DEF TypeOK, Accumulate, Counted, Phases, Stages

(* The invariant holds when the job starts.                                 *)
LEMMA TimerInit == Init => TimerInv
<1> SUFFICES ASSUME Init PROVE TimerInv
  OBVIOUS
<1>1. TypeOK
  BY DEF Init, TypeOK, Phases, Stages, Locs
<1>2. Counted = 0 /\ phase_times["others"] = 0
  BY DEF Init, Counted, Phases, Stages
<1>3. PhaseInv
  BY DEF Init, PhaseInv
<1>4. ClockInv /\ WorkInv
  BY <1>2, ConstantsAssumption DEF Init, ClockInv, WorkInv
<1>. QED  BY <1>1, <1>3, <1>4 DEF TimerInv

(* Every step of the worker, and of the clock, preserves it.                *)
LEMMA TimerStep == TimerInv /\ [Next]_vars => TimerInv'
<1> SUFFICES ASSUME TimerInv, [Next]_vars PROVE TimerInv'
  OBVIOUS
<1> USE ConstantsAssumption DEF TimerInv, timerVars
<1>0. Counted \in Nat
  BY DEF TypeOK, Counted, Phases, Stages
<1>1. CASE Enter
  <2>1. Accumulate /\ current_phase = "others"
    BY <1>1 DEF Enter, PhaseInv
  <2>2. /\ phase_times' \in [Phases -> Nat] /\ Counted' = Counted
        /\ phase_times'["others"] = phase_times["others"] + (now - phase_start_time)
    BY <2>1, AccumulateTimes DEF ClockInv
  <2>. QED  BY <1>0, <1>1, <2>1, <2>2 DEF Enter, Accumulate, TypeOK, PhaseInv, ClockInv, WorkInv,
                                          Phases, Stages, Locs
<1>2. CASE Exit
  <2>1. Accumulate /\ current_phase \in Stages
    BY <1>2 DEF Exit, PhaseInv, TypeOK
  <2>2. /\ phase_times' \in [Phases -> Nat]
        /\ Counted' = Counted + (now - phase_start_time)
        /\ phase_times'["others"] = phase_times["others"]
    BY <2>1, AccumulateTimes DEF ClockInv
  <2>. QED  BY <1>0, <1>2, <2>1, <2>2 DEF Exit, Accumulate, TypeOK, PhaseInv, ClockInv, WorkInv,
                                          Phases, Stages, Locs
<1>3. CASE Entered
  BY <1>0, <1>3 DEF Entered, SwitchTo, Counted, TypeOK, PhaseInv, ClockInv, WorkInv, Phases,
                    Stages, Locs
<1>4. CASE Exited
  BY <1>0, <1>4 DEF Exited, SwitchTo, Counted, TypeOK, PhaseInv, ClockInv, WorkInv, Phases,
                    Stages, Locs
<1>5. CASE Check
  BY <1>0, <1>5 DEF Check, Counted, TypeOK, PhaseInv, ClockInv, WorkInv, Stages, Locs
<1>6. CASE Arm
  <2>1. current_phase \in Stages /\ CountedTime = Counted + (now - phase_start_time)
    BY <1>6 DEF Arm, CountedTime, Counted, TypeOK, PhaseInv, Stages
  <2>2. worked <= CountedTime /\ CountedTime \in Nat
    BY <1>0, <1>6, <2>1 DEF Arm, WorkInv, ClockInv, TypeOK
  <2>3. Counted' = Counted
    BY <1>6 DEF Arm, Counted
  <2>4. CASE pc' = "working"
    <3>1. deadline' = now + Remaining /\ Remaining > 0 /\ Remaining \in Nat
      BY <1>6, <2>2, <2>4 DEF Arm, Remaining
    <3>2. worked + Remaining <= Timeout
      BY <2>2, <3>1 DEF Remaining, TypeOK
    <3>. QED  BY <1>0, <1>6, <2>3, <2>4, <3>1, <3>2 DEF Arm, TypeOK, PhaseInv, ClockInv, WorkInv,
                                                        Locs
  <2>5. CASE pc' = "exit"
    BY <1>0, <1>6, <2>3, <2>5 DEF Arm, TypeOK, PhaseInv, ClockInv, WorkInv, Locs
  <2>. QED  BY <1>6, <2>4, <2>5 DEF Arm
<1>7. CASE Finish
  BY <1>0, <1>7 DEF Finish, Counted, TypeOK, PhaseInv, ClockInv, WorkInv, Locs
<1>8. CASE Expire
  BY <1>0, <1>8 DEF Expire, Counted, TypeOK, PhaseInv, ClockInv, WorkInv, Locs
<1>9. CASE Cancelled
  BY <1>0, <1>9 DEF Cancelled, Counted, TypeOK, PhaseInv, ClockInv, WorkInv, Locs
<1>10. CASE Follow
  BY <1>0, <1>10 DEF Follow, Counted, TypeOK, PhaseInv, ClockInv, WorkInv, Stages, Locs
<1>11. CASE Tick
  BY <1>0, <1>11 DEF Tick, Counted, TypeOK, PhaseInv, ClockInv, WorkInv
<1>12. CASE UNCHANGED vars
  BY <1>12 DEF vars, Counted, TypeOK, PhaseInv, ClockInv, WorkInv
<1>. QED  BY <1>1, <1>2, <1>3, <1>4, <1>5, <1>6, <1>7, <1>8, <1>9, <1>10, <1>11, <1>12
         DEF Next

(* It holds always.                                                         *)
LEMMA TimerInvariant == Spec => []TimerInv
  BY TimerInit, TimerStep, PTL DEF Spec

(* The timer's state is well typed; in particular enter_phase() and         *)
(* exit_phase() never add a negative time.                                  *)
THEOREM TimerTypeCorrect == Spec => []TypeOK
<1>1. TimerInv => TypeOK
  BY DEF TimerInv
<1>. QED  BY <1>1, TimerInvariant, PTL

(* enter_phase() and exit_phase() lose no time and count none twice.        *)
THEOREM NoTimeLost == Spec => []TimeConserved
<1>1. TimerInv => TimeConserved
  BY DEF TimerInv, TypeOK, ClockInv, Counted, TimeConserved, Phases, Stages
<1>. QED  BY <1>1, TimerInvariant, PTL

(* What run_with_timeout_awareness() grants to the stages of a job adds up  *)
(* to no more than the budget.                                              *)
THEOREM WithinBudget == Spec => []BudgetRespected
<1>1. TimerInv => BudgetRespected
  BY DEF TimerInv, WorkInv, BudgetRespected
<1>. QED  BY <1>1, TimerInvariant, PTL

-----------------------------------------------------------------------------
CONSTANT Address
VARIABLE weights

Balancer == INSTANCE LlmBalancer

(* Two known addresses after one step: neither gets further ahead of the    *)
(* other unless it is by one job.                                           *)
Even ==
  \A a, b \in Balancer!Known :
    Balancer!Known \subseteq DOMAIN weights' /\ weights'[a] - weights'[b] > 1
      => weights'[a] - weights'[b] <= weights[a] - weights[b]

(* Weights are natural numbers, of addresses only.                          *)
LEMMA BalancerTyped == Balancer!TypeOK /\ [Balancer!Next]_weights => Balancer!TypeOK'
<1> SUFFICES ASSUME Balancer!TypeOK, [Balancer!Next]_weights PROVE Balancer!TypeOK'
  OBVIOUS
<1> USE DEF Balancer!TypeOK, Balancer!Known
<1>1. CASE Balancer!Clear
  BY <1>1 DEF Balancer!Clear, Balancer!NoAddress
<1>2. ASSUME NEW a \in Address, Balancer!Add(a) PROVE Balancer!TypeOK'
  BY <1>2 DEF Balancer!Add
<1>3. ASSUME NEW a \in Address, Balancer!Pick(a) PROVE Balancer!TypeOK'
  BY <1>3 DEF Balancer!Pick
<1>4. CASE UNCHANGED weights
  BY <1>4
<1>. QED  BY <1>1, <1>2, <1>3, <1>4 DEF Balancer!Next

(* No operation widens a gap.                                               *)
LEMMA BalancerEven == Balancer!TypeOK /\ [Balancer!Next]_weights => [Even]_weights
<1> SUFFICES ASSUME Balancer!TypeOK, Balancer!Next PROVE Even
  OBVIOUS
<1> USE DEF Balancer!TypeOK, Balancer!Known
<1> SUFFICES ASSUME NEW a \in Balancer!Known, NEW b \in Balancer!Known, Balancer!Known \subseteq DOMAIN weights',
                    weights'[a] - weights'[b] > 1
             PROVE  weights'[a] - weights'[b] <= weights[a] - weights[b]
  BY DEF Even
<1>1. CASE Balancer!Clear
  BY <1>1 DEF Balancer!Clear, Balancer!NoAddress
<1>2. ASSUME NEW c \in Address, Balancer!Add(c)
      PROVE  weights'[a] - weights'[b] <= weights[a] - weights[b]
  BY <1>2 DEF Balancer!Add
<1>3. ASSUME NEW c \in Address, Balancer!Pick(c)
      PROVE  weights'[a] - weights'[b] <= weights[a] - weights[b]
  <2>1. weights[a] \in Nat /\ weights[b] \in Nat
    OBVIOUS
  <2>2. /\ weights'[a] = IF a = c THEN weights[a] + 1 ELSE weights[a]
        /\ weights'[b] = IF b = c THEN weights[b] + 1 ELSE weights[b]
    BY <1>3 DEF Balancer!Pick
  <2>3. a = c => weights[a] <= weights[b]
    BY <1>3 DEF Balancer!Pick
  <2>. QED  BY <2>1, <2>2, <2>3
<1>. QED  BY <1>1, <1>2, <1>3 DEF Balancer!Next

(* As long as two addresses stay known, one gets ahead of the other by more *)
(* than one job only if add_llm_server_address() put it there.              *)
THEOREM LoadEvensOut == Balancer!Spec => Balancer!GapNeverWidens
<1>1. Balancer!Init => Balancer!TypeOK
  BY DEF Balancer!Init, Balancer!NoAddress, Balancer!TypeOK, Balancer!Known
<1>2. Balancer!Spec => []Balancer!TypeOK
  BY <1>1, BalancerTyped, PTL DEF Balancer!Spec
<1>3. Balancer!Spec => [][Even]_weights
  BY <1>2, BalancerEven, PTL DEF Balancer!Spec
<1>. QED  BY <1>3 DEF Balancer!GapNeverWidens, Even
=============================================================================
