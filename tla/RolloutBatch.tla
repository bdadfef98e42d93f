---------------------------- MODULE RolloutBatch ----------------------------
(***************************************************************************)
(* The training batch made of the responses to a rollout call: rows in the *)
(* order of the input batch, the conversations copied for responses that   *)
(* have none, the tensors, the uids the trainer puts beside them, and what *)
(* of a row the actor trains on.                                           *)
(*                                                                         *)
(* A response is one of Answers: the roles and lengths of its messages,    *)
(* the verdict and whether it reports an error.  One without messages is   *)
(* what the collector stores when the last attempt of a request brought    *)
(* none.                                                                   *)
(***************************************************************************)
EXTENDS TrainingRow

CONSTANTS
  Batch,          \* the instances of the input batch, a sequence
  NumTrajectories,\* rollout.n
  Answers,        \* what a rollout may come to
  MaxStarting,    \* rollout.max_starting_message_length
  TotalLen,       \* max_prompt_length + max_response_length
  UseErrorMask    \* actor.use_error_mask

BatchAssumption ==
  /\ \A i, j \in 1..Len(Batch) : Batch[i] = Batch[j] => i = j
  /\ NumTrajectories \in Nat \ {0} /\ MaxStarting \in Nat /\ TotalLen \in Nat \ {0}
  /\ \A a \in Answers : a.shape = <<>> => a.failed /\ ~a.resolved

VARIABLES
  all_responses,  \* responses in the order they were stored
  tensors         \* what the conversion returned

batchVars == <<all_responses, tensors>>

Keys == {<<Batch[i], t>> : i \in 1..Len(Batch), t \in 0..NumTrajectories - 1}

Message(key, i, part) ==
  LET m == <<key[1], key[2], i>>
      n == part.length
  IN [role      |-> part.role,
      token_ids |-> [k \in 1..n |-> IF part.role = "assistant" THEN Written(m, k) ELSE Text(m, k)],
      logprobs  |-> IF part.role = "assistant" THEN [k \in 1..n |-> LogProb(m, k)] ELSE Nothing]

Conversation(key, shape) == [i \in 1..Len(shape) |-> Message(key, i, shape[i])]

Init == all_responses = <<>> /\ tensors = Nothing

\* The collector of the rollout call stores a response.
Arrive ==
  \E key \in Keys, a \in Answers :
    /\ \A i \in 1..Len(all_responses) : all_responses[i].key # key
    /\ all_responses' =
         Append(all_responses,
                [key |-> key, messages |-> Conversation(key, a.shape), resolved |-> a.resolved,
                 error |-> IF a.failed THEN key ELSE Nothing, is_padded |-> FALSE])
    /\ UNCHANGED tensors

-----------------------------------------------------------------------------
(* _convert_results_to_dataproto_token *)

OfInstance(i) == SelectSeq(all_responses, LAMBDA r : r.key[1] = Batch[i])

\* Mutant: rows in the order the responses came in.
Matched_AsArrived == all_responses

Matched == FlattenSeq([i \in 1..Len(Batch) |-> OfInstance(i)])

Valid(i) == SelectSeq(OfInstance(i), LAMBDA r : r.messages # <<>>)

Providers(i) == {j \in 1..i : Valid(j) # <<>>}

\* The response whose messages fill the empty ones of instance i: the first
\* with messages of the instance, or of the last instance before it that has one.
Donor(i) == IF Providers(i) = {} THEN Nothing ELSE Valid(Max(Providers(i)))[1]

Filled(result, donor) ==
  IF result.messages # <<>> \/ donor = Nothing THEN result
  ELSE [result EXCEPT !.messages = donor.messages, !.resolved = donor.resolved,
                      !.error = donor.error, !.is_padded = TRUE]

PlaceOf(instance) == CHOOSE i \in 1..Len(Batch) : Batch[i] = instance

Rows == MapSeq(LAMBDA r : Filled(r, Donor(PlaceOf(r.key[1]))), Matched)

\* convert: nothing comes of it when one row cannot be converted.
Convert ==
  /\ Len(all_responses) = Cardinality(Keys) /\ tensors = Nothing
  /\ tensors' =
       IF \A r \in 1..Len(Rows) : Convertible(Rows[r].messages)
       THEN Tensors(MapSeq(LAMBDA r : Encode(r.messages), Rows), MaxStarting, TotalLen)
       ELSE <<>>
  /\ UNCHANGED all_responses

Next == Arrive \/ Convert

-----------------------------------------------------------------------------
(* What the trainer makes of the batch *)

\* batch.repeat(n, interleave=True): the instance whose uid row r gets.
UidOf(r) == Batch[(r - 1) \div NumTrajectories + 1]

\* Mutant: copies are trained on.
ResponseMask_Copies(r) ==
  MapSeq(LAMBDA m : IF UseErrorMask /\ Rows[r].error # Nothing THEN 0 ELSE m, tensors[r].loss_mask)

\* The actor masks copies out, and failed rollouts if it is told to.
ResponseMask(r) ==
  MapSeq(LAMBDA m : IF Rows[r].is_padded \/ (UseErrorMask /\ Rows[r].error # Nothing) THEN 0 ELSE m,
         tensors[r].loss_mask)

Attended(r) == SubSeq(tensors[r].attention_mask, MaxStarting + 1, MaxStarting + TotalLen)

\* valid_response_length - 1 is an index from 0, and -1 is the last place.
RewardAt(r) == LET n == Total(Attended(r)) IN IF n = 0 THEN TotalLen ELSE n

Converted == tensors \notin {Nothing, <<>>}

-----------------------------------------------------------------------------
TypeOK ==
  /\ \A i \in 1..Len(all_responses) :
       /\ all_responses[i].key \in Keys
       /\ all_responses[i].resolved \in BOOLEAN /\ ~all_responses[i].is_padded
  /\ Converted =>
       \A r \in 1..Len(tensors) :
         /\ Len(tensors[r].input_ids) = MaxStarting + TotalLen
         /\ Len(tensors[r].attention_mask) = MaxStarting + TotalLen
         /\ Len(tensors[r].responses) = TotalLen
         /\ Len(tensors[r].loss_mask) = TotalLen /\ Len(tensors[r].rollout_log_probs) = TotalLen

\* The row a response gives is grouped with its own instance: the uid beside
\* it, by which advantages are computed, is that of the instance it is for.
RowsMatchUids == Converted => \A r \in 1..Len(Rows) : Rows[r].key[1] = UidOf(r)

\* A token is trained on in a row only if the model wrote it in the very
\* rollout the row is for, and then with its own log-probability.
LossOnOwnTurns ==
  Converted =>
    \A r \in 1..Len(tensors), k \in 1..TotalLen :
      ResponseMask(r)[k] = 1 =>
        /\ Attended(r)[k] = 1
        /\ \E i \in 1..Len(Rows[r].messages), n \in 1..TotalLen :
             LET m == <<Rows[r].key[1], Rows[r].key[2], i>>
             IN /\ tensors[r].responses[k] = Written(m, n)
                /\ tensors[r].rollout_log_probs[k] = LogProb(m, n)

\* Of a response with messages, and no error that masks it, every token the
\* model wrote is trained on as far as the row is long enough for it.
TurnsTrained ==
  Converted =>
    \A r \in 1..Len(tensors) :
      LET own == Encode(Rows[r].messages).response
      IN (~Rows[r].is_padded /\ ~(UseErrorMask /\ Rows[r].error # Nothing)) =>
           \A k \in 1..Min({TotalLen, Len(own)}) :
             own[k][1] = "written" => ResponseMask(r)[k] = 1 /\ tensors[r].responses[k] = own[k]

\* The verdict and the error of a row are those of the rollout whose messages
\* it shows, its own or the one it was copied from.
VerdictFits ==
  Converted =>
    \A r \in 1..Len(Rows) :
      \E i \in 1..Len(all_responses) :
        LET a == all_responses[i]
        IN /\ a.messages = Rows[r].messages /\ a.messages # <<>>
           /\ a.resolved = Rows[r].resolved /\ a.error = Rows[r].error
           /\ (a.key # Rows[r].key) = Rows[r].is_padded

\* The attended tokens of a row are those that are not padding; they are
\* numbered from 0 without a gap, across the end of the prompt, and the reward
\* is put on the last of them.
PositionsDense ==
  Converted =>
    \A r \in 1..Len(tensors) :
      LET a == tensors[r].attention_mask
          seen == {k \in 1..Len(a) : a[k] = 1}
      IN /\ \A k \in 1..Len(a) : k \in seen <=> tensors[r].input_ids[k] # Pad
         /\ \A k \in seen : tensors[r].position_ids[k] = Cardinality({j \in seen : j < k})
         /\ MaxStarting + RewardAt(r) = Max(seen)

\* A batch cannot be converted exactly when no rollout of its first instance
\* brought messages: later instances are filled from earlier ones only.
FailsOnFirst ==
  tensors # Nothing =>
    (tensors = <<>> <=> \A i \in 1..Len(all_responses) :
       all_responses[i].key[1] = Batch[1] => all_responses[i].messages = <<>>)

\* What the comment on the fallback says: if all trajectories of an instance
\* are empty, valid messages of other instances are used.
EmptiesFilled ==
  (tensors # Nothing /\ \E i \in 1..Len(all_responses) : all_responses[i].messages # <<>>)
    => Converted
=============================================================================
