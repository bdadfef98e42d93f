---------------------------- MODULE TrainingRow ----------------------------
(***************************************************************************)
(* How the trainer turns one conversation into one row of a batch          *)
(* (_convert_results_to_dataproto_token): prompt and response, the loss    *)
(* mask, the log-probabilities, and the padding of both sides.             *)
(*                                                                         *)
(* A message of a conversation is its role, its tokens and, if the model   *)
(* wrote it, their log-probabilities.  A token names the message it comes  *)
(* from and its place there; a log-probability names its token.            *)
(***************************************************************************)
EXTENDS Integers, Sequences, SequencesExt, FiniteSetsExt

CONSTANT Nothing   \* None

Pad == <<"pad", <<>>, 0>>
Header == <<"header", <<>>, 0>>              \* <|im_start|>assistant
Text(m, k) == <<"text", m, k>>
Written(m, k) == <<"written", m, k>>         \* sampled by the model
LogProb(m, k) == <<"log_prob", m, k>>
Zero == <<"log_prob", <<>>, 0>>              \* 0.0

Constantly(x, n) == [k \in 1..n |-> x]

MapSeq(Op(_), s) == [k \in 1..Len(s) |-> Op(s[k])]

Total(s) == FoldLeft(LAMBDA x, y : x + y, 0, s)

-----------------------------------------------------------------------------
(* Prompt and response of one conversation *)

Assistants(messages) == {i \in 1..Len(messages) : messages[i].role = "assistant"}

\* Messages before the first of the assistant; a conversation that begins
\* with the assistant is taken for one without.
StartingIndex(messages) ==
  LET found == IF Assistants(messages) = {} THEN 0 ELSE Min(Assistants(messages)) - 1
  IN IF found = 0 THEN Len(messages) ELSE found

Trimmed(messages) == SubSeq(messages, 1, Max(Assistants(messages) \union {0}))

\* The assert on the last message reads it.
Convertible(messages) == Trimmed(messages) # <<>>

Ids(messages) == FlattenSeq(MapSeq(LAMBDA m : m.token_ids, messages))

LogProbs(messages) ==
  FlattenSeq(MapSeq(LAMBDA m : IF m.logprobs # Nothing THEN m.logprobs
                               ELSE Constantly(Zero, Len(m.token_ids)), messages))

Masks(messages) ==
  FlattenSeq(MapSeq(LAMBDA m : Constantly(IF m.role = "assistant" THEN 1 ELSE 0,
                                          Len(m.token_ids)), messages))

Drop(s, n) == SubSeq(s, n + 1, Len(s))

Encode(messages) ==
  LET start  == StartingIndex(messages)
      kept   == Trimmed(messages)
      split  == IF start < Len(kept) THEN start ELSE Len(kept)
      prompt == Ids(SubSeq(kept, 1, split))
  IN [prompt    |-> prompt,
      response  |-> Ids(Drop(kept, split)),
      mask      |-> Drop(Masks(kept), Len(prompt)),
      log_probs |-> LogProbs(Drop(kept, split))]

-----------------------------------------------------------------------------
(* Padding *)

PadTo(s, x, n) == s \o Constantly(x, n - Len(s))

\* convert_right_padding_to_left: an overlong prompt loses its end.
LeftPadded(ids, attention, max_len) ==
  LET n == Min({Total(attention), max_len})
  IN [ids       |-> Constantly(Pad, max_len - n) \o SubSeq(ids, 1, n),
      attention |-> Constantly(0, max_len - n) \o Constantly(1, n)]

\* pad_to_max_length_right
RightPadded(row, attention, max_length) ==
  LET n == Min({Total(attention), max_length})
  IN [ids       |-> PadTo(SubSeq(row.response, 1, n), Pad, max_length),
      attention |-> PadTo(SubSeq(attention, 1, n), 0, max_length),
      mask      |-> PadTo(SubSeq(row.mask, 1, n), 0, max_length),
      log_probs |-> PadTo(SubSeq(row.log_probs, 1, n), Zero, max_length)]

\* compute_position_id_with_mask
PositionIds(attention) ==
  [k \in 1..Len(attention) |-> Max({0, Total(SubSeq(attention, 1, k)) - 1})]

\* The tensors of rows: the rows are padded to the longest of the batch, and
\* then to the fixed lengths.
Tensors(rows, max_starting, total_len) ==
  LET longest(part(_)) == Max({0} \union {Len(part(rows[r])) : r \in 1..Len(rows)})
      prompts   == longest(LAMBDA row : row.prompt)
      responses == longest(LAMBDA row : row.response)
      tensor(row) ==
        LET left  == LeftPadded(PadTo(row.prompt, Pad, prompts),
                                PadTo(Constantly(1, Len(row.prompt)), 0, prompts), max_starting)
            padded == [response  |-> PadTo(row.response, Pad, responses),
                       mask      |-> PadTo(row.mask, 0, responses),
                       log_probs |-> PadTo(row.log_probs, Zero, responses)]
            right == RightPadded(padded, PadTo(Constantly(1, Len(row.response)), 0, responses),
                                 total_len)
        IN [input_ids         |-> left.ids \o right.ids,
            responses         |-> right.ids,
            attention_mask    |-> left.attention \o right.attention,
            position_ids      |-> PositionIds(left.attention \o right.attention),
            loss_mask         |-> right.mask,
            rollout_log_probs |-> right.log_probs]
  IN MapSeq(tensor, rows)
=============================================================================
