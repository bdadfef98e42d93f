---------------------------- MODULE TrainingLoop ----------------------------
(***************************************************************************)
(* fit() of the PPO trainer with its checkpoints: a step draws a batch,    *)
(* generates, updates critic and actor, saves now and then and validates.  *)
(* A run may die between any two writes; the next one resumes from the     *)
(* folder that the tracker file names.                                     *)
(*                                                                         *)
(* Weights are the number of the last step that changed them; the position *)
(* of the data loader is the number of batches it has given since the      *)
(* beginning, which its state dictionary restores (external).              *)
(***************************************************************************)
EXTENDS Naturals, FiniteSets

CONSTANTS
  EpochLen,     \* len(train_dataloader)
  Epochs,       \* trainer.total_epochs
  TotalSteps,   \* total_training_steps
  SaveFreq, Warmup,   \* trainer.save_freq, critic_warmup
  MaxCrashes    \* bound on the runs that die

ASSUME TrainingAssumption ==
  /\ EpochLen \in Nat \ {0} /\ Epochs \in Nat \ {0}
  /\ TotalSteps \in 1..(EpochLen * Epochs)
  /\ SaveFreq \in Nat \ {0} /\ Warmup \in Nat
  /\ MaxCrashes \in Nat

VARIABLES
  tpc,          \* where fit() is
  step,         \* self.global_steps
  epoch,        \* passes over the data loader that this run has begun
  fed,          \* position of the data loader
  actor, critic,    \* weights in the workers
  lastSaved,    \* self.timeout.last_saved
  disk,         \* the parts of each step's folder, with their contents
  tracker,      \* latest_checkpointed_iteration.txt; 0 when there is none
  crashes

memory == <<step, epoch, fed, actor, critic, lastSaved>>
storage == <<disk, tracker>>
vars == <<tpc, memory, storage, crashes>>

LastStep == TotalSteps + MaxCrashes   \* see OvershootBounded
Steps == 1..LastStep
Empty == LastStep + 1     \* a tracker that was truncated and not yet written
Nothing == LastStep + 1   \* a part that was not saved
NoFolder == [actor |-> Nothing, critic |-> Nothing, data |-> Nothing]
Weights == 0..LastStep

TypeOK ==
  /\ tpc \in {"off", "load", "pass", "generate", "critic", "actor", "decide", "save_actor",
              "save_critic", "save_data", "truncate", "track", "validate", "advance",
              "done", "exhausted", "stuck"}
  /\ step \in 0..LastStep /\ epoch \in 0..Epochs
  /\ fed \in Weights /\ actor \in Weights /\ critic \in Weights
  /\ lastSaved \in BOOLEAN
  /\ disk \in [Steps -> [actor : Weights \union {Nothing}, critic : Weights \union {Nothing},
                         data : Weights \union {Nothing}]]
  /\ tracker \in 0..Empty /\ crashes \in 0..MaxCrashes

Init ==
  /\ tpc = "off" /\ step = 0 /\ epoch = 0 /\ fed = 0
  /\ actor = 0 /\ critic = 0 /\ lastSaved = FALSE
  /\ disk = [s \in Steps |-> NoFolder] /\ tracker = 0 /\ crashes = 0

-----------------------------------------------------------------------------
At(from, to) == tpc = from /\ tpc' = to

(* The first job is launched, with fresh weights.                           *)
Launch == At("off", "load") /\ UNCHANGED <<memory, storage, crashes>>

(* Mutant: the position of the data loader is not restored.                 *)
Load_NoData ==
  /\ At("load", "pass") /\ tracker # Empty
  /\ IF tracker = 0
     THEN UNCHANGED <<step, actor, critic, fed>>
     ELSE /\ step' = tracker /\ actor' = disk[tracker].actor
          /\ critic' = disk[tracker].critic /\ UNCHANGED fed
  /\ UNCHANGED <<epoch, lastSaved, storage, crashes>>

(* _load_checkpoint() with resume_mode "auto": every part is read from the  *)
(* folder that the tracker names.                                           *)
Load ==
  /\ At("load", "pass") /\ tracker # Empty
  /\ IF tracker = 0
     THEN UNCHANGED <<step, actor, critic, fed>>
     ELSE /\ step' = tracker /\ actor' = disk[tracker].actor
          /\ critic' = disk[tracker].critic
          /\ fed' = IF disk[tracker].data = Nothing THEN 0 ELSE disk[tracker].data
  /\ UNCHANGED <<epoch, lastSaved, storage, crashes>>

(* Mutant: what the tracker holds is taken for a step.                      *)
LoadFails_Goes ==
  /\ At("load", "pass") /\ tracker = Empty
  /\ step' = tracker
  /\ UNCHANGED <<epoch, fed, actor, critic, lastSaved, storage, crashes>>

(* The tracker can not be read as a number.                                 *)
LoadFails ==
  /\ At("load", "stuck") /\ tracker = Empty
  /\ UNCHANGED <<memory, storage, crashes>>

(* The next pass over the data loader.  step is the number of steps done    *)
(* until the batch is drawn.  A loader that was restored at the end of a    *)
(* pass may give an empty pass first.                                       *)
BeginPass ==
  /\ tpc = "pass"
  /\ IF epoch < Epochs
     THEN tpc' \in {"generate"} \union
                   (IF epoch = 0 /\ fed > 0 /\ fed % EpochLen = 0
                    THEN {"pass"} ELSE {})
          /\ epoch' = epoch + 1
     ELSE tpc' = "exhausted" /\ UNCHANGED epoch
  /\ UNCHANGED <<step, fed, actor, critic, lastSaved, storage, crashes>>

(* A batch is drawn and its trajectories are generated.                     *)
Generate ==
  /\ At("generate", "critic")
  /\ fed' = fed + 1 /\ step' = step + 1
  /\ UNCHANGED <<epoch, actor, critic, lastSaved, storage, crashes>>

UpdateCritic ==
  /\ At("critic", "actor") /\ critic' = step
  /\ UNCHANGED <<step, epoch, fed, actor, lastSaved, storage, crashes>>

UpdateActor ==
  /\ At("actor", "decide")
  /\ actor' = IF Warmup <= step THEN step ELSE actor
  /\ UNCHANGED <<step, epoch, fed, critic, lastSaved, storage, crashes>>

(* Mutant: the last step is not noticed when it is past.                    *)
IsLastStep_Equal == step = TotalSteps

IsLastStep == step >= TotalSteps

(* Mutant: the last step is not special.                                    *)
SaveDue_NoLast == step % SaveFreq = 0

SaveDue == IsLastStep \/ step % SaveFreq = 0

(* Save by frequency, or once when the job's time limit comes near          *)
(* (TimeoutChecker.check_save).                                             *)
Decide(expired) ==
  /\ tpc = "decide"
  /\ lastSaved' = (lastSaved \/ (~SaveDue /\ expired))
  /\ tpc' = IF SaveDue \/ (expired /\ ~lastSaved) THEN "save_actor" ELSE "validate"
  /\ UNCHANGED <<step, epoch, fed, actor, critic, storage, crashes>>

SaveActor ==
  /\ At("save_actor", "save_critic") /\ disk' = [disk EXCEPT ![step].actor = actor]
  /\ UNCHANGED <<memory, tracker, crashes>>

(* Mutant: no critic is saved while the actor is not trained.               *)
SaveCritic_Warm ==
  /\ At("save_critic", "save_data")
  /\ disk' = IF Warmup <= step THEN [disk EXCEPT ![step].critic = critic] ELSE disk
  /\ UNCHANGED <<memory, tracker, crashes>>

SaveCritic ==
  /\ At("save_critic", "save_data") /\ disk' = [disk EXCEPT ![step].critic = critic]
  /\ UNCHANGED <<memory, tracker, crashes>>

SaveData ==
  /\ At("save_data", "truncate") /\ disk' = [disk EXCEPT ![step].data = fed]
  /\ UNCHANGED <<memory, tracker, crashes>>

(* open(..., "w") empties the tracker, write() and close() fill it.         *)
Truncate ==
  /\ At("truncate", "track") /\ tracker' = Empty
  /\ UNCHANGED <<memory, disk, crashes>>

Track ==
  /\ At("track", "validate") /\ tracker' = step
  /\ UNCHANGED <<memory, disk, crashes>>

(* Validation reads only.                                                   *)
Validate ==
  /\ At("validate", "advance")
  /\ UNCHANGED <<memory, storage, crashes>>

(* The end of the step: return after the last one, or the next batch of     *)
(* this pass, or the next pass.                                             *)
Advance ==
  /\ tpc = "advance"
  /\ tpc' = IF IsLastStep THEN "done"
            ELSE IF fed % EpochLen = 0 THEN "pass" ELSE "generate"
  /\ UNCHANGED <<memory, storage, crashes>>

(* The job dies; what is on disk stays, the rest starts anew.               *)
Crash ==
  /\ tpc \notin {"off", "done", "stuck", "exhausted"}
  /\ crashes < MaxCrashes /\ crashes' = crashes + 1
  /\ tpc' = "load" /\ step' = 0 /\ epoch' = 0 /\ fed' = 0
  /\ actor' = 0 /\ critic' = 0 /\ lastSaved' = FALSE
  /\ UNCHANGED storage

Work ==
  /\ tpc # "off"
  /\ \/ Load \/ LoadFails \/ BeginPass \/ Generate \/ UpdateCritic \/ UpdateActor
     \/ \E expired \in BOOLEAN : Decide(expired)
     \/ SaveActor \/ SaveCritic \/ SaveData \/ Truncate \/ Track
     \/ Validate \/ Advance

Next == Launch \/ Work \/ Crash

(* The driver runs on; crashes happen or not.                               *)
Fairness == WF_vars(Work)
Spec == Init /\ [][Next]_vars /\ Fairness

-----------------------------------------------------------------------------
(* The updates that step s of an undisturbed training has behind it.        *)
ActorAt(s) == IF Warmup <= s THEN s ELSE 0

(* Whenever a step begins, in the first run or a resumed one, both models   *)
(* and the data are those of an undisturbed training: no checkpoint mixes   *)
(* parts of two steps, no batch is skipped and none is used twice.          *)
Aligned ==
  tpc \in {"pass", "generate"} => actor = ActorAt(step) /\ critic = step /\ fed = step

(* What the tracker names is complete, whenever the job dies.               *)
TrackedIsComplete ==
  tracker \in Steps =>
    disk[tracker] = [actor |-> ActorAt(tracker), critic |-> tracker, data |-> tracker]

(* What the tracker names is given up only for a later step, although the   *)
(* steps after a checkpoint are done again by the run that resumes there.   *)
TrackerAdvances == [][(tracker \in Steps /\ tracker' # tracker) => tracker < step]_vars

(* A run that dies after its last checkpoint, say while it validates, is    *)
(* resumed past the last step: _load_checkpoint() is followed by a step     *)
(* whatever it loaded.  Each crash adds at most one step to the training.   *)
OvershootBounded == step <= TotalSteps + crashes

(* A run finds the epochs used up only past the last step, although a       *)
(* resumed run counts its epochs from zero and may lose one at once.        *)
EpochsSuffice == tpc = "exhausted" => step >= TotalSteps

(* Training ends with a checkpoint of the last step, unless a crash hit the *)
(* instant at which the tracker was empty.                                  *)
TrainingEnds ==
  tpc = "load" ~> ((tpc \in {"done", "exhausted"} /\ tracker \in TotalSteps..LastStep)
                   \/ tpc = "stuck")
=============================================================================
