------------------------- MODULE TrainingLoopProofs -------------------------
(***************************************************************************)
(* Checkpoints and resumed runs of the training loop, for any numbers of   *)
(* steps, epochs and crashes.                                              *)
(*                                                                         *)
(* Models, data and step are equal only between two steps, and a folder is *)
(* complete only after its last write: the inductive invariant says for    *)
(* each place in fit() how far they are apart, and how far the tracker is  *)
(* behind.                                                                 *)
(***************************************************************************)
EXTENDS TrainingLoop, Integers, TLAPS

Trained == {"decide", "save_actor", "save_critic", "save_data", "truncate", "track",
            "validate", "advance"}

Folder == [actor : Weights \union {Nothing}, critic : Weights \union {Nothing},
           data : Weights \union {Nothing}]

(* A run that has not loaded anything is fresh; a crash has paid for the    *)
(* step that a resumed run may take too many.                               *)
Fresh ==
  tpc \in {"off", "load"} =>
    /\ step = 0 /\ fed = 0 /\ actor = 0 /\ critic = 0
    /\ tracker # Empty => tracker + 1 <= TotalSteps + crashes

Between ==
  tpc \in {"pass", "generate"} =>
    /\ actor = ActorAt(step) /\ critic = step /\ fed = step
    /\ step + 1 <= TotalSteps + crashes /\ tracker <= step

(* A batch has been drawn, and then the critic updated.                     *)
Behind ==
  tpc \in {"critic", "actor"} =>
    /\ step > 0 /\ fed = step /\ tracker < step
    /\ actor = ActorAt(step - 1)
    /\ critic = IF tpc = "critic" THEN step - 1 ELSE step

Updated ==
  tpc \in Trained => step > 0 /\ actor = ActorAt(step) /\ critic = step /\ fed = step

(* The parts of the folder that have been written so far.                   *)
Written ==
  /\ tpc \in {"save_critic", "save_data", "truncate", "track"} => disk[step].actor = ActorAt(step)
  /\ tpc \in {"save_data", "truncate", "track"} => disk[step].critic = step
  /\ tpc \in {"truncate", "track"} => disk[step].data = step

Tracked ==
  /\ tpc \in {"decide", "save_actor", "save_critic", "save_data", "truncate"} => tracker < step
  /\ tpc = "track" => tracker = Empty
  /\ tpc \in {"validate", "advance"} => tracker <= step
  /\ tracker \in Steps => tracker <= TotalSteps + crashes

IInv ==
  /\ TypeOK /\ OvershootBounded /\ TrackedIsComplete
  /\ Fresh /\ Between /\ Behind /\ Updated /\ Written /\ Tracked

(* A run has begun no more passes than the data loader has completed, and   *)
(* the one under way.                                                       *)
EInv ==
  /\ tpc \in {"off", "load"} => epoch = 0
  /\ tpc = "pass" => EpochLen * epoch <= fed
  /\ tpc = "generate" => epoch > 0 /\ EpochLen * (epoch - 1) <= fed
  /\ tpc \in {"critic", "actor"} \union Trained => epoch > 0 /\ EpochLen * (epoch - 1) < fed
  /\ EpochsSuffice

-----------------------------------------------------------------------------
(* What the assumption on the constants says of the bounds of the model.    *)
LEMMA Bounds ==
  /\ TotalSteps \in Nat /\ TotalSteps > 0
  /\ LastStep \in Nat /\ LastStep = TotalSteps + MaxCrashes
  /\ Empty = LastStep + 1 /\ Nothing = LastStep + 1
  /\ MaxCrashes \in Nat /\ Warmup \in Nat /\ Epochs \in Nat /\ Epochs > 0
  /\ EpochLen \in Nat /\ EpochLen > 0
  <1>1. EpochLen * Epochs \in Nat
    BY TrainingAssumption
  <1> QED
    BY <1>1, TrainingAssumption DEF LastStep, Empty, Nothing

(* The state before the first run.                                          *)
LEMMA InitIInv == Init => IInv
  <1> SUFFICES ASSUME Init PROVE IInv
    OBVIOUS
  <1>1. NoFolder \in Folder
    BY DEF NoFolder, Folder
  <1>2. disk \in [Steps -> Folder]
    BY <1>1 DEF Init
  <1>3. lastSaved \in BOOLEAN
    BY Zenon DEF Init
  <1>4. TypeOK
    <2>1. step = 0 /\ epoch = 0 /\ fed = 0 /\ actor = 0 /\ critic = 0 /\ tracker = 0 /\ crashes = 0
      BY DEF Init
    <2>2. tpc = "off"
      BY DEF Init
    <2> QED
      BY <1>2, <1>3, <2>1, <2>2, Bounds DEF TypeOK, Weights, Folder
  <1> QED
    BY <1>4, Bounds DEF Init, IInv, OvershootBounded, TrackedIsComplete, Fresh, Between, Behind,
      Updated, Written, Tracked, Trained, Steps

LEMMA LaunchKeeps == IInv /\ Launch => IInv'
  BY Bounds DEF IInv, Launch, At, memory, storage, Steps, TypeOK, OvershootBounded, TrackedIsComplete, Fresh,
    Between, Behind, Updated, Written, Tracked, Trained, Weights, ActorAt

LEMMA LoadFailsKeeps == IInv /\ LoadFails => IInv'
  BY Bounds DEF IInv, LoadFails, At, memory, storage, Steps, TypeOK, OvershootBounded, TrackedIsComplete, Fresh,
    Between, Behind, Updated, Written, Tracked, Trained, Weights, ActorAt

LEMMA BeginPassKeeps == IInv /\ BeginPass => IInv'
  BY Bounds DEF IInv, BeginPass, At, memory, storage, Steps, TypeOK, OvershootBounded, TrackedIsComplete, Fresh,
    Between, Behind, Updated, Written, Tracked, Trained, Weights, ActorAt

LEMMA GenerateKeeps == IInv /\ Generate => IInv'
  BY Bounds DEF IInv, Generate, At, memory, storage, Steps, TypeOK, OvershootBounded, TrackedIsComplete, Fresh,
    Between, Behind, Updated, Written, Tracked, Trained, Weights, ActorAt

LEMMA UpdateCriticKeeps == IInv /\ UpdateCritic => IInv'
  BY Bounds DEF IInv, UpdateCritic, At, memory, storage, Steps, TypeOK, OvershootBounded, TrackedIsComplete, Fresh,
    Between, Behind, Updated, Written, Tracked, Trained, Weights, ActorAt

LEMMA UpdateActorKeeps == IInv /\ UpdateActor => IInv'
  BY Bounds DEF IInv, UpdateActor, At, memory, storage, Steps, TypeOK, OvershootBounded, TrackedIsComplete, Fresh,
    Between, Behind, Updated, Written, Tracked, Trained, Weights, ActorAt

LEMMA ValidateKeeps == IInv /\ Validate => IInv'
  BY Bounds DEF IInv, Validate, At, memory, storage, Steps, TypeOK, OvershootBounded, TrackedIsComplete, Fresh,
    Between, Behind, Updated, Written, Tracked, Trained, Weights, ActorAt

LEMMA AdvanceKeeps == IInv /\ Advance => IInv'
  BY Bounds DEF IInv, Advance, IsLastStep, At, memory, storage, Steps, TypeOK, OvershootBounded, TrackedIsComplete, Fresh,
    Between, Behind, Updated, Written, Tracked, Trained, Weights, ActorAt
LEMMA LoadKeeps == IInv /\ Load => IInv'
  BY Bounds DEF IInv, Load, At, memory, storage, Steps, TypeOK, OvershootBounded, TrackedIsComplete, Fresh,
    Between, Behind, Updated, Written, Tracked, Trained, Weights, ActorAt

LEMMA SaveActorKeeps == IInv /\ SaveActor => IInv'
  <1> SUFFICES ASSUME IInv, SaveActor PROVE IInv'
    OBVIOUS
  <1>1. step \in Steps /\ actor \in Weights /\ disk \in [Steps -> Folder]
    BY Bounds DEF IInv, SaveActor, At, TypeOK, Updated, Trained, Steps, Weights, Folder
  <1>2. disk' = [disk EXCEPT ![step] = [@ EXCEPT !.actor = actor]]
    BY DEF SaveActor
  <1>3. [disk[step] EXCEPT !.actor = actor] = [actor |-> actor, critic |-> disk[step].critic, data |-> disk[step].data]
    BY <1>1 DEF Folder
  <1>4. [actor |-> actor, critic |-> disk[step].critic, data |-> disk[step].data] \in Folder
    BY <1>1 DEF Folder
  <1>5. /\ disk' \in [Steps -> Folder]
        /\ disk'[step] = [actor |-> actor, critic |-> disk[step].critic, data |-> disk[step].data]
        /\ \A t \in Steps : t # step => disk'[t] = disk[t]
    BY <1>1, <1>2, <1>3, <1>4
  <1>6. TypeOK'
    BY <1>5 DEF IInv, SaveActor, At, memory, TypeOK, Folder
  <1> QED
    BY <1>1, <1>5, <1>6, Bounds DEF IInv, TypeOK, SaveActor, At, memory, Steps, OvershootBounded, TrackedIsComplete,
      Fresh, Between, Behind, Updated, Written, Tracked, Trained, Weights, ActorAt

LEMMA SaveCriticKeeps == IInv /\ SaveCritic => IInv'
  <1> SUFFICES ASSUME IInv, SaveCritic PROVE IInv'
    OBVIOUS
  <1>1. step \in Steps /\ critic \in Weights /\ disk \in [Steps -> Folder]
    BY Bounds DEF IInv, SaveCritic, At, TypeOK, Updated, Trained, Steps, Weights, Folder
  <1>2. disk' = [disk EXCEPT ![step] = [@ EXCEPT !.critic = critic]]
    BY DEF SaveCritic
  <1>3. [disk[step] EXCEPT !.critic = critic] = [actor |-> disk[step].actor, critic |-> critic, data |-> disk[step].data]
    BY <1>1 DEF Folder
  <1>4. [actor |-> disk[step].actor, critic |-> critic, data |-> disk[step].data] \in Folder
    BY <1>1 DEF Folder
  <1>5. /\ disk' \in [Steps -> Folder]
        /\ disk'[step] = [actor |-> disk[step].actor, critic |-> critic, data |-> disk[step].data]
        /\ \A t \in Steps : t # step => disk'[t] = disk[t]
    BY <1>1, <1>2, <1>3, <1>4
  <1>6. TypeOK'
    BY <1>5 DEF IInv, SaveCritic, At, memory, TypeOK, Folder
  <1> QED
    BY <1>1, <1>5, <1>6, Bounds DEF IInv, TypeOK, SaveCritic, At, memory, Steps, OvershootBounded, TrackedIsComplete,
      Fresh, Between, Behind, Updated, Written, Tracked, Trained, Weights, ActorAt

LEMMA SaveDataKeeps == IInv /\ SaveData => IInv'
  <1> SUFFICES ASSUME IInv, SaveData PROVE IInv'
    OBVIOUS
  <1>1. step \in Steps /\ fed \in Weights /\ disk \in [Steps -> Folder]
    BY Bounds DEF IInv, SaveData, At, TypeOK, Updated, Trained, Steps, Weights, Folder
  <1>2. disk' = [disk EXCEPT ![step] = [@ EXCEPT !.data = fed]]
    BY DEF SaveData
  <1>3. [disk[step] EXCEPT !.data = fed] = [actor |-> disk[step].actor, critic |-> disk[step].critic, data |-> fed]
    BY <1>1 DEF Folder
  <1>4. [actor |-> disk[step].actor, critic |-> disk[step].critic, data |-> fed] \in Folder
    BY <1>1 DEF Folder
  <1>5. /\ disk' \in [Steps -> Folder]
        /\ disk'[step] = [actor |-> disk[step].actor, critic |-> disk[step].critic, data |-> fed]
        /\ \A t \in Steps : t # step => disk'[t] = disk[t]
    BY <1>1, <1>2, <1>3, <1>4
  <1>6. TypeOK'
    BY <1>5 DEF IInv, SaveData, At, memory, TypeOK, Folder
  <1> QED
    BY <1>1, <1>5, <1>6, Bounds DEF IInv, TypeOK, SaveData, At, memory, Steps, OvershootBounded, TrackedIsComplete,
      Fresh, Between, Behind, Updated, Written, Tracked, Trained, Weights, ActorAt

LEMMA TruncateKeeps == IInv /\ Truncate => IInv'
  BY Bounds DEF IInv, Truncate, At, memory, storage, Steps, TypeOK, OvershootBounded, TrackedIsComplete, Fresh,
    Between, Behind, Updated, Written, Tracked, Trained, Weights, ActorAt

LEMMA TrackKeeps == IInv /\ Track => IInv'
  BY Bounds DEF IInv, Track, At, memory, storage, Steps, TypeOK, OvershootBounded, TrackedIsComplete, Fresh,
    Between, Behind, Updated, Written, Tracked, Trained, Weights, ActorAt

LEMMA CrashKeeps == IInv /\ Crash => IInv'
  <1> SUFFICES ASSUME IInv, Crash PROVE IInv'
    OBVIOUS
  <1>1. TypeOK'
    <2>1. lastSaved' \in BOOLEAN
      BY Zenon DEF Crash
    <2>2. /\ tpc' = "load" /\ step' = 0 /\ epoch' = 0 /\ fed' = 0 /\ actor' = 0 /\ critic' = 0
          /\ crashes' = crashes + 1 /\ crashes < MaxCrashes /\ disk' = disk /\ tracker' = tracker
      BY DEF Crash, storage
    <2> QED
      BY <2>1, <2>2, Bounds DEF IInv, TypeOK, Weights
  <1>2. tracker # Empty => tracker <= TotalSteps + crashes
    BY Bounds DEF IInv, TypeOK, Tracked, Steps
  <1> QED
    BY <1>1, <1>2, Bounds DEF IInv, TypeOK, Crash, storage, Steps, OvershootBounded, TrackedIsComplete,
      Fresh, Between, Behind, Updated, Written, Tracked, Trained, ActorAt

LEMMA DecideKeeps ==
  ASSUME NEW expired \in BOOLEAN, IInv, Decide(expired) PROVE IInv'
  BY Bounds DEF IInv, Decide, At, memory, storage, Steps, TypeOK, OvershootBounded, TrackedIsComplete, Fresh,
    Between, Behind, Updated, Written, Tracked, Trained, Weights, ActorAt

LEMMA StutterKeeps == IInv /\ UNCHANGED vars => IInv'
  BY Bounds DEF IInv, vars, memory, storage, Steps, TypeOK, OvershootBounded, TrackedIsComplete, Fresh,
    Between, Behind, Updated, Written, Tracked, Trained, Weights, ActorAt
(* Every step, of a run or of a crash, keeps the inductive invariant.       *)
LEMMA StepKeeps == IInv /\ [Next]_vars => IInv'
  <1> SUFFICES ASSUME IInv, [Next]_vars PROVE IInv'
    OBVIOUS
  <1>1. CASE Work
    BY <1>1, LoadKeeps, LoadFailsKeeps, BeginPassKeeps, GenerateKeeps, UpdateCriticKeeps,
      UpdateActorKeeps, DecideKeeps, SaveActorKeeps, SaveCriticKeeps, SaveDataKeeps, TruncateKeeps,
      TrackKeeps, ValidateKeeps, AdvanceKeeps DEF Work
  <1> QED
    BY <1>1, LaunchKeeps, CrashKeeps, StutterKeeps DEF Next

LEMMA Invariance == Spec => []IInv
  <1> QED
    BY InitIInv, StepKeeps, PTL DEF Spec

(* fit() and its checkpoints are well typed in every run, resumed or not.   *)
THEOREM TypeCorrect == Spec => []TypeOK
  <1>1. IInv => TypeOK
    BY DEF IInv
  <1> QED
    BY <1>1, Invariance, PTL

(* A resumed training is the undisturbed one: whenever a step begins, both  *)
(* models and the position in the data are those of that step, however      *)
(* often and wherever earlier runs died.                                    *)
THEOREM ResumesAligned == Spec => []Aligned
  <1>1. IInv => Aligned
    BY DEF IInv, Between, Aligned
  <1> QED
    BY <1>1, Invariance, PTL

(* The folder that the tracker names holds all its parts, of one step.      *)
THEOREM CheckpointComplete == Spec => []TrackedIsComplete
  <1>1. IInv => TrackedIsComplete
    BY DEF IInv
  <1> QED
    BY <1>1, Invariance, PTL

(* Each crash adds at most one step to the training.                        *)
THEOREM Overshoot == Spec => []OvershootBounded
  <1>1. IInv => OvershootBounded
    BY DEF IInv
  <1> QED
    BY <1>1, Invariance, PTL

(* A checkpoint replaces only one of an earlier step.                       *)
THEOREM NoStepBack == Spec => TrackerAdvances
  <1>1. IInv /\ [Next]_vars => [(tracker \in Steps /\ tracker' # tracker) => tracker < step]_vars
    <2> SUFFICES ASSUME IInv, Next, tracker \in Steps, tracker' # tracker PROVE tracker < step
      BY DEF vars, storage
    <2>1. CASE Truncate
      BY <2>1 DEF Truncate, At, IInv, Tracked
    <2>2. CASE Track
      BY <2>2, Bounds DEF Track, At, IInv, Tracked, Steps
    <2> QED
      BY <2>1, <2>2 DEF Next, Work, Launch, Crash, Load, LoadFails, BeginPass, Generate,
        UpdateCritic, UpdateActor, Decide, SaveActor, SaveCritic, SaveData, Validate, Advance, storage
  <1> QED
    BY <1>1, Invariance, PTL DEF Spec, TrackerAdvances
-----------------------------------------------------------------------------
(* The least multiple of l above l * (e - 1) is l * e.                      *)
LEMMA NextMultiple ==
  ASSUME NEW l \in Nat, l > 0, NEW e \in Nat, e > 0, NEW f \in Nat, f % l = 0, l * (e - 1) < f
  PROVE  l * e <= f
  <1> DEFINE k == f \div l
  <1>1. k \in Nat /\ f = l * k
    OBVIOUS
  <1>2. k > e - 1
    <2> SUFFICES ASSUME k <= e - 1 PROVE FALSE
      BY <1>1
    <2>1. l * k <= l * (e - 1)
      BY <1>1
    <2> QED
      BY <2>1, <1>1
  <1>3. l * e <= l * k
    BY <1>1, <1>2
  <1> QED
    BY <1>1, <1>3
(* A pass that gives no batch, and the end of one that did, are where the   *)
(* data loader has completed one more; elsewhere only fed grows.            *)
LEMMA PassesKept == IInv /\ EInv /\ [Next]_vars => EInv'
  <1> SUFFICES ASSUME IInv, EInv, [Next]_vars PROVE EInv'
    OBVIOUS
  <1>t. /\ step \in Nat /\ epoch \in Nat /\ fed \in Nat /\ epoch <= Epochs
        /\ EpochLen * epoch \in Nat /\ EpochLen * (epoch - 1) \in Int
    BY Bounds DEF IInv, TypeOK, Weights
  <1>1. CASE UNCHANGED vars
    BY <1>1 DEF EInv, EpochsSuffice, Trained, vars, memory
  <1>2. CASE Launch
    BY <1>2 DEF Launch, At, memory, EInv, EpochsSuffice, Trained
  <1>3. CASE Crash
    BY <1>3 DEF Crash, EInv, EpochsSuffice, Trained
  <1>4. CASE Load
    <2>1. fed' \in Nat /\ epoch' = 0 /\ tpc' = "pass"
      BY <1>4, LoadKeeps, Bounds DEF Load, At, IInv, TypeOK, Weights, EInv
    <2>2. EpochLen * 0 = 0
      BY Bounds
    <2> QED
      BY <2>1, <2>2 DEF EInv, EpochsSuffice, Trained
  <1>5. CASE BeginPass
    <2>1. tpc = "pass" /\ EpochLen * epoch <= fed /\ fed' = fed /\ step' = step /\ fed = step
      BY <1>5 DEF BeginPass, EInv, IInv, Between
    <2>2. CASE epoch = Epochs
      <3>1. tpc' = "exhausted"
        BY <1>5, <2>2, Bounds DEF BeginPass
      <3>2. TotalSteps <= EpochLen * Epochs
        BY TrainingAssumption, Bounds
      <3>3. TotalSteps <= step
        BY <2>1, <2>2, <3>2, Bounds, <1>t
      <3> QED
        BY <3>1, <3>3, <2>1 DEF EInv, EpochsSuffice, Trained
    <2>3. CASE epoch # Epochs
      <3>1. epoch' = epoch + 1 /\ (tpc' = "generate" \/ (tpc' = "pass" /\ epoch = 0 /\ fed > 0 /\ fed % EpochLen = 0))
        BY <1>5, <2>3, <1>t, Bounds DEF BeginPass
      <3>2. CASE tpc' = "generate"
        <4>1. epoch' - 1 = epoch
          BY <3>1, <1>t
        <4> QED
          BY <3>1, <3>2, <2>1, <4>1, <1>t DEF EInv, EpochsSuffice, Trained
      <3>3. CASE tpc' = "pass" /\ epoch = 0 /\ fed > 0 /\ fed % EpochLen = 0
        <4>1. EpochLen * (1 - 1) < fed
          BY <3>3, Bounds
        <4>2. EpochLen * 1 <= fed
          BY <3>3, <4>1, NextMultiple, Bounds, <1>t
        <4> QED
          BY <3>1, <3>3, <2>1, <4>2 DEF EInv, EpochsSuffice, Trained
      <3> QED
        BY <3>1, <3>2, <3>3
    <2> QED
      BY <2>2, <2>3
  <1>6. CASE Generate
    BY <1>6, <1>t DEF Generate, At, EInv, EpochsSuffice, Trained
  <1>7. CASE Advance
    <2>1. epoch > 0 /\ EpochLen * (epoch - 1) < fed /\ epoch' = epoch /\ fed' = fed /\ step' = step
      BY <1>7 DEF Advance, EInv, Trained, memory
    <2>2. CASE tpc' = "pass"
      <3>1. fed % EpochLen = 0
        BY <1>7, <2>2 DEF Advance
      <3>2. EpochLen * epoch <= fed
        BY <3>1, <2>1, NextMultiple, Bounds, <1>t
      <3> QED
        BY <2>1, <2>2, <3>2 DEF EInv, EpochsSuffice, Trained
    <2>3. CASE tpc' = "generate"
      BY <2>1, <2>3, <1>t DEF EInv, EpochsSuffice, Trained
    <2>4. CASE tpc' = "done"
      BY <2>1, <2>4 DEF EInv, EpochsSuffice, Trained
    <2> QED
      BY <1>7, <2>2, <2>3, <2>4 DEF Advance
  <1>8. CASE LoadFails \/ UpdateCritic \/ UpdateActor \/ \E expired \in BOOLEAN : Decide(expired)
    BY <1>8 DEF LoadFails, UpdateCritic, UpdateActor, Decide, At, memory, EInv, EpochsSuffice, Trained
  <1>9. CASE SaveActor \/ SaveCritic \/ SaveData \/ Truncate \/ Track \/ Validate
    BY <1>9 DEF SaveActor, SaveCritic, SaveData, Truncate, Track, Validate, At, memory, EInv,
      EpochsSuffice, Trained
  <1> QED
    BY <1>1, <1>2, <1>3, <1>4, <1>5, <1>6, <1>7, <1>8, <1>9 DEF Next, Work

(* No run, however often training was resumed, finds its epochs used up     *)
(* before the last step.                                                    *)
THEOREM NeverShortOfEpochs == Spec => []EpochsSuffice
  <1>1. Init => EInv
    BY DEF Init, EInv, EpochsSuffice, Trained
  <1>2. EInv => EpochsSuffice
    BY DEF EInv
  <1> QED
    BY <1>1, <1>2, PassesKept, Invariance, PTL DEF Spec
=============================================================================
