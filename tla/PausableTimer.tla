--------------------------- MODULE PausableTimer ---------------------------
(***************************************************************************)
(* The PausableTimer of openhands/nvidia/timer.py, and how the worker of   *)
(* the process-based server uses it.                                       *)
(*                                                                         *)
(* A stage enters its phase, runs its coroutine under what is left of the  *)
(* budget, and leaves the phase; the stages follow each other in one       *)
(* thread, with waits for a semaphore in between.  enter_phase() and       *)
(* exit_phase() read the clock once, add the elapsed time to the phase     *)
(* that ends and then switch; time may pass between any two steps.         *)
(***************************************************************************)
EXTENDS Integers

CONSTANTS
  Timeout,  \* the budget of the job
  MaxTime   \* bound on the clock

ASSUME ConstantsAssumption == Timeout \in Nat /\ MaxTime \in Nat

Stages == {"init", "run", "eval"}
Phases == Stages \union {"others"}
Locs == {"enter", "switch", "check", "arm", "working", "exit", "leave", "left"}

VARIABLES
  now,              \* time.time()
  start_time, current_phase, phase_start_time, phase_times,
  triggered,        \* is_timeout_triggered
  stage, pc,        \* where Worker.run() is
  current_time,     \* the clock as enter_phase() or exit_phase() read it
  deadline,         \* when wait_for() gives up
  passed,           \* did the stage's coroutine end without an error?
  worked            \* time that coroutines have run

timerVars == <<start_time, current_phase, phase_start_time, phase_times, triggered>>
vars == <<now, timerVars, stage, pc, current_time, deadline, passed, worked>>

(* The timer has been started with the job; times are relative to that.     *)
Init ==
  /\ now = 0 /\ start_time = 0
  /\ current_phase = "others" /\ phase_start_time = 0
  /\ phase_times = [p \in Phases |-> 0]
  /\ triggered = FALSE
  /\ stage = "init" /\ pc = "enter"
  /\ current_time = 0 /\ deadline = 0 /\ passed = FALSE /\ worked = 0

-----------------------------------------------------------------------------
(* get_counted_time().                                                      *)
CountedTime ==
  phase_times["init"] + phase_times["run"] + phase_times["eval"]
    + (IF current_phase \in Stages THEN now - phase_start_time ELSE 0)

(* Mutant: the subtraction is the wrong way round.                          *)
Accumulate_Reversed ==
  /\ current_time' = now
  /\ phase_times' = [phase_times EXCEPT ![current_phase] = @ + (phase_start_time - now)]
  /\ UNCHANGED <<now, start_time, current_phase, phase_start_time, triggered, stage, deadline,
                 passed, worked>>

(* enter_phase() and exit_phase(), first half: the elapsed time goes to the *)
(* phase that ends.                                                         *)
Accumulate ==
  /\ current_time' = now
  /\ phase_times' = [phase_times EXCEPT ![current_phase] = @ + (now - phase_start_time)]
  /\ UNCHANGED <<now, start_time, current_phase, phase_start_time, triggered, stage, deadline,
                 passed, worked>>

(* Second half: the new phase begins at the time that was read.             *)
SwitchTo(phase) ==
  /\ current_phase' = phase /\ phase_start_time' = current_time
  /\ UNCHANGED <<now, start_time, phase_times, triggered, stage, current_time, deadline, passed,
                 worked>>

Enter == pc = "enter" /\ pc' = "switch" /\ Accumulate
Entered == pc = "switch" /\ pc' = "check" /\ SwitchTo(stage)
Exit == pc = "exit" /\ pc' = "leave" /\ Accumulate
Exited == pc = "leave" /\ pc' = "left" /\ SwitchTo("others")

(* check_and_trigger_timeout().                                             *)
Check ==
  /\ pc = "check" /\ pc' = "arm"
  /\ triggered' = (triggered \/ CountedTime >= Timeout)
  /\ UNCHANGED <<now, start_time, current_phase, phase_start_time, phase_times, stage,
                 current_time, deadline, passed, worked>>

(* Mutant: the coroutine gets the whole budget.                             *)
Remaining_Full == Timeout

(* get_remaining_timeout(), in a counted phase.                             *)
Remaining == IF Timeout > CountedTime THEN Timeout - CountedTime ELSE 0

(* run_with_timeout_awareness(), up to the await.  Without budget, or       *)
(* outside a counted phase, the timeout is triggered and the stage over.    *)
Arm ==
  /\ pc = "arm"
  /\ IF ~triggered /\ current_phase \in Stages /\ Remaining > 0
     THEN /\ deadline' = now + Remaining
          /\ pc' = "working"
          /\ UNCHANGED <<triggered, passed>>
     ELSE /\ triggered' = TRUE /\ passed' = FALSE /\ pc' = "exit"
          /\ UNCHANGED deadline
  /\ UNCHANGED <<now, start_time, current_phase, phase_start_time, phase_times, stage,
                 current_time, worked>>

(* The coroutine ends, with a result or with an error.                      *)
Finish ==
  /\ pc = "working" /\ pc' = "exit"
  /\ passed' \in BOOLEAN
  /\ UNCHANGED <<now, timerVars, stage, current_time, deadline, worked>>

(* wait_for() gives up at the deadline.                                     *)
Expire ==
  /\ pc = "working" /\ pc' = "exit" /\ now = deadline
  /\ triggered' = TRUE /\ passed' = FALSE
  /\ UNCHANGED <<now, start_time, current_phase, phase_start_time, phase_times, stage,
                 current_time, deadline, worked>>

(* The coroutine is cancelled.                                              *)
Cancelled ==
  /\ pc = "working" /\ pc' = "exit"
  /\ triggered' = TRUE /\ passed' = FALSE
  /\ UNCHANGED <<now, start_time, current_phase, phase_start_time, phase_times, stage,
                 current_time, deadline, worked>>

(* The next stage begins, when it gets its permit, if this one passed.      *)
Follow ==
  /\ pc = "left" /\ pc' = "enter" /\ passed /\ stage # "eval"
  /\ stage' = IF stage = "init" THEN "run" ELSE "eval"
  /\ UNCHANGED <<now, timerVars, current_time, deadline, passed, worked>>

(* A timer of the event loop is punctual.                                   *)
Tick ==
  /\ now < MaxTime /\ (pc = "working" => now < deadline)
  /\ now' = now + 1
  /\ worked' = IF pc = "working" THEN worked + 1 ELSE worked
  /\ UNCHANGED <<timerVars, stage, pc, current_time, deadline, passed>>

Next ==
  \/ Enter \/ Entered \/ Check \/ Arm \/ Finish \/ Expire \/ Cancelled \/ Exit \/ Exited
  \/ Follow \/ Tick

Spec == Init /\ [][Next]_vars

-----------------------------------------------------------------------------
(* Properties.                                                              *)

TypeOK ==
  /\ now \in Nat /\ start_time \in Nat /\ phase_start_time \in Nat
  /\ current_phase \in Phases /\ phase_times \in [Phases -> Nat]
  /\ triggered \in BOOLEAN /\ passed \in BOOLEAN
  /\ stage \in Stages /\ pc \in Locs
  /\ current_time \in Nat /\ deadline \in Nat /\ worked \in Nat

(* No time is lost or counted twice: outside of a switch, the times of the  *)
(* four phases, the running one included, add up to the time since start(). *)
TimeConserved ==
  pc \notin {"switch", "leave"} =>
    phase_times["init"] + phase_times["run"] + phase_times["eval"] + phase_times["others"]
      + (now - phase_start_time) = now - start_time

(* The coroutines of a job's stages run for no longer than its budget in    *)
(* all, however much time passes between and around them.                   *)
BudgetRespected == worked <= Timeout
=============================================================================
