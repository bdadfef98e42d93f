---------------------------- MODULE MCComponents ----------------------------
(***************************************************************************)
(* Components for TLC that are each driven by one client: the timer of a   *)
(* job, the heap of LLM addresses, the DAPO rollout, the agent's context,  *)
(* the detector of its loops, the shell session of the runtime, the tokens *)
(* of a rollout and the batch made of many.  A behaviour is one of one     *)
(* part, which the initial state chooses.                                  *)
(***************************************************************************)
EXTENDS PausableTimer, RolloutDapo, TLC

CONSTANTS
  Parts,
  Address, MaxWeight,
  Policies, MaxSize, KeepFirst, MaxCalls, MaxRanked, MaxLength,
  MaxLines, MaxPieces, MaxKeys,
  x1, x2, Batch, NumTrajectories, Answers, MaxStarting, TotalLen, UseErrorMask,
  MaxModelLen, MaxToolCalls, MaxReply, MaxReplies,
  Menus, MaxTurns

VARIABLES
  part,
  weighted_addresses,
  policy, history, calls, again,
  fg, typed, tty, printed, flushed, buffer, ready, inProgress, current, detected, code,
  position, waiting, lines, keys, reply, shown, astray,
  all_responses, tensors,
  conversation, turn, answered, format_error, sampled, acted, reported,
  menu, strict, turns, judged

contextVars == <<policy, history, calls, again>>
bashVars ==
  <<fg, typed, tty, printed, flushed, buffer, ready, inProgress, current, detected, code,
    position, waiting, lines, keys, reply, shown, astray>>
batchVars == <<all_responses, tensors>>
tokenVars == <<conversation, turn, answered, format_error, sampled, acted, reported>>
rowVars == <<batchVars, tokenVars>>
stuckVars == <<menu, strict, turns, judged>>
componentVars ==
  <<part, vars, weighted_addresses, dapoVars, contextVars, bashVars, rowVars, stuckVars>>

(* What rollouts of one turn and of two come back with, and what one does   *)
(* that failed before its first turn.                                       *)
Answer(shape, resolved, failed) == [shape |-> shape, resolved |-> resolved, failed |-> failed]
Part(role, length) == [role |-> role, length |-> length]
OneTurn == <<Part("system", 1), Part("user", 1), Part("assistant", 2)>>
TwoTurns == <<Part("system", 1), Part("user", 3), Part("assistant", 1), Part("tool", 1),
              Part("assistant", 2)>>
MCAnswers == {Answer(<<>>, FALSE, TRUE), Answer(OneTurn, FALSE, FALSE),
              Answer(TwoTurns, TRUE, FALSE), Answer(TwoTurns, FALSE, TRUE)}
MCBatch == <<x1, x2>>

(* What an agent does in a run: commands that go well and differently,      *)
(* commands that fail, edits with a syntax error, talk, and all of a kind.  *)
Turn(act, key, obs, val, more) ==
  [act |-> act, key |-> key, obs |-> obs, val |-> val, more |-> more]
Ran(command, exit, text) == Turn("cmd", command, "output", exit, text)
Failed(command, why) == Turn("cmd", command, "error", why, 0)
Edited(file, rest, line) == Turn("edit", file, "cell", line, rest)
Thought(what) == Turn("think", what, "thought", 0, 0)
Said(what) == Turn("say", what, "none", 0, 0)
Malformed == Turn("none", 0, "error", 3, 0)
Condensed == Turn("condense", 0, "none", 0, 0)
MCMenus ==
  {{Ran(1, 0, 1), Ran(1, 0, 2), Ran(2, 0, 1), Ran(1, 1, 1)},
   {Failed(1, 1), Failed(1, 2), Failed(2, 1), Malformed},
   {Edited(1, 1, 1), Edited(1, 2, 1), Edited(1, 1, 2), Turn("short", 1, "cell", 1, 1)},
   {Said(1), Said(2), Ran(1, 0, 1), Condensed},
   {Thought(1), Thought(2), Edited(1, 1, 0), Failed(1, 1)}}

Heap == INSTANCE HeapBalancer
Context == INSTANCE AgentContext
Bash == INSTANCE BashSession
Rows == INSTANCE RolloutBatch
Tokens == INSTANCE TokenRollout WITH MaxCalls <- MaxToolCalls
Stuck == INSTANCE StuckDetector

ASSUME HeapSound == Heap!HeapAssumption
ASSUME DapoSound == DapoAssumption
ASSUME ContextSound == Context!SizesAllowed
ASSUME BatchSound == Rows!BatchAssumption

ComponentsInit ==
  part \in Parts /\ Init /\ Heap!Init /\ DapoInit /\ Context!Init /\ Bash!Init
    /\ Rows!Init /\ Tokens!Init /\ Stuck!Init /\ (part # "context" => policy = "window")
    /\ (part # "stuck" => strict /\ menu = CHOOSE m \in Menus : TRUE)

ComponentsNext ==
  /\ UNCHANGED part
  /\ \/ /\ part = "timer" /\ Next
        /\ UNCHANGED <<weighted_addresses, dapoVars, contextVars, bashVars, rowVars, stuckVars>>
     \/ /\ part = "balancer" /\ Heap!Next
        /\ UNCHANGED <<vars, dapoVars, contextVars, bashVars, rowVars, stuckVars>>
     \/ /\ part = "dapo" /\ DapoNext
        /\ UNCHANGED <<vars, weighted_addresses, contextVars, bashVars, rowVars, stuckVars>>
     \/ /\ part = "context" /\ Context!Next
        /\ UNCHANGED <<vars, weighted_addresses, dapoVars, bashVars, rowVars, stuckVars>>
     \/ /\ part = "bash" /\ Bash!Next
        /\ UNCHANGED <<vars, weighted_addresses, dapoVars, contextVars, rowVars, stuckVars>>
     \/ /\ part = "batch" /\ Rows!Next
        /\ UNCHANGED <<vars, weighted_addresses, dapoVars, contextVars, bashVars, tokenVars, stuckVars>>
     \/ /\ part = "tokens" /\ Tokens!Next
        /\ UNCHANGED <<vars, weighted_addresses, dapoVars, contextVars, bashVars, batchVars, stuckVars>>
     \/ /\ part = "stuck" /\ Stuck!Next
        /\ UNCHANGED <<vars, weighted_addresses, dapoVars, contextVars, bashVars, rowVars>>

ComponentsSpec == ComponentsInit /\ [][ComponentsNext]_componentVars

(* A shell session is followed until something goes astray.                 *)
OnTrack == Bash!OnTrack

(* Renaming the instances of the training set.                              *)
Symm == Permutations(Instances)

-----------------------------------------------------------------------------
(* The types of all parts.                                                  *)
TypesOK ==
  /\ TypeOK /\ Heap!TypeOK /\ DapoTypeOK /\ Context!TypeOK /\ Bash!TypeOK /\ Rows!TypeOK
  /\ Tokens!TypeOK /\ Stuck!TypeOK

(* The heap gives out an address used least often.                          *)
LeastUsed == Heap!LeastUsed

(* Whatever a condenser forgets, the prompt is one that the model's API     *)
(* accepts, every response that survives is in it once, the conversation    *)
(* window loses nothing it meant to keep when it cuts, and a rolling        *)
(* condenser never runs twice in a row.                                     *)
ViewSound ==
  part = "context" => /\ Context!PromptWellFormed /\ Context!NothingLost
                      /\ Context!WindowRespected /\ Context!CondensesOnce

(* A command that is reported as completed is reported with its own exit    *)
(* code, and all its output has been shown by then.                         *)
CommandReported == Bash!CodeIsOwn /\ Bash!OutputShown

(* A row of the training batch is grouped with its own instance, and its    *)
(* messages, verdict and error belong together; the conversion fails only   *)
(* when the first instance has nothing to be filled from.                   *)
RowsSound == Rows!RowsMatchUids /\ Rows!VerdictFits /\ Rows!FailsOnFirst

(* A row carries loss on the turns of its own rollout, on all of them that  *)
(* fit and on nothing else; attended tokens are numbered densely and the    *)
(* last one carries the reward.                                             *)
LossSound == Rows!LossOnOwnTurns /\ Rows!TurnsTrained /\ Rows!PositionsDense

(* An instance without messages is filled from another one.                 *)
EmptiesFilled == Rows!EmptiesFilled

(* The loss falls on the replies the agent acted on, behind the tokens they *)
(* were sampled behind, up to generation prompts that pending messages add; *)
(* and the row fits into the model's context.                               *)
TrainedAsSampled ==
  /\ Tokens!RepliesTrained /\ Tokens!TurnsAligned /\ Tokens!HeadersOnly /\ Tokens!RowFits

(* An agent that only repeats itself is stopped in time, one that does not  *)
(* is not, and the strict detector stops whatever the default one stops.    *)
StuckExactly == Stuck!LoopsCut /\ Stuck!AlarmFounded /\ Stuck!StrictFlagsMore
=============================================================================
