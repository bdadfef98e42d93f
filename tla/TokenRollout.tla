---------------------------- MODULE TokenRollout ----------------------------
(***************************************************************************)
(* One rollout with token-level generation: what tokens the model is sent  *)
(* at each turn (request_response_tokens), what of its replies becomes     *)
(* part of the conversation, and the messages with tokens the rollout is   *)
(* reported with (process_messages_from_agent_state).  The trainer makes a *)
(* row of them: module TrainingRow.                                        *)
(*                                                                         *)
(* The agents of the rollout servers neither condense nor truncate their   *)
(* history (NoOpCondenserConfig, enable_history_truncation=False), so what *)
(* the model is shown is all of the conversation.  A message is of one     *)
(* token, a reply of up to MaxReply.                                       *)
(***************************************************************************)
EXTENDS TrainingRow

CONSTANTS
  MaxModelLen,  \* llm_config.max_model_len
  MaxCalls,     \* bound: tool calls in one reply
  MaxReply,     \* bound: tokens of a reply
  MaxReplies    \* bound: replies sampled in a rollout

VARIABLES
  conversation, \* the messages made of the history so far
  turn,         \* the reply whose actions are being carried out
  answered,     \* how many of its tool calls have a result
  format_error, \* get_last_agent_format_error()
  sampled,      \* replies sampled so far
  acted,        \* those all of whose actions were carried out, in order
  reported      \* the messages of the result, or Nothing

tokenVars == <<conversation, turn, answered, format_error, sampled, acted, reported>>

Plain(role, id) ==
  [role |-> role, id |-> <<id>>, input_ids |-> Nothing, output_ids |-> Nothing, logprobs |-> Nothing]

Init ==
  /\ conversation = <<Plain("system", 1), Plain("user", 2)>>
  /\ turn = Nothing /\ answered = 0 /\ format_error = "none" /\ sampled = 0 /\ acted = <<>>
  /\ reported = Nothing

-----------------------------------------------------------------------------
(* llm/nvidia/qwen3.py *)

\* The chat template: a generation prompt follows if it is asked for.
Templated(m, header) == <<Text(m.id, 1)>> \o (IF header THEN <<Header>> ELSE <<>>)

\* Every message by itself; the generation prompt only after the last, and
\* never after the system message.
convert_messages_to_tokens(messages) ==
  FlattenSeq([i \in 1..Len(messages) |->
               Templated(messages[i], messages[i].role # "system" /\ i = Len(messages))])

LastWritten == Max({0} \union {i \in 1..Len(conversation) : conversation[i].output_ids # Nothing})

\* The tokens of the last reply and of its prompt are used again as they are;
\* only what came after is tokenized.
InputIds ==
  LET written == IF LastWritten = 0 THEN <<>>
                 ELSE conversation[LastWritten].input_ids \o conversation[LastWritten].output_ids
  IN written \o convert_messages_to_tokens(Drop(conversation, LastWritten))

\* What one reply may come to: tool calls, of which the last may be finish,
\* a message to the user, or calls that do not pass validation.
Kinds == {"calls", "finish", "message", "invalid"}

\* parse_response_ids: a reply without an end-of-sequence token has no calls;
\* one with malformed calls may have others, or none.
FormatErrors == {"none", "length", "tool_call"}

Reply(kind, calls, n, prompt) ==
  LET id == <<"reply", sampled + 1>>
  IN [kind |-> kind, calls |-> calls, id |-> id, input_ids |-> prompt,
      output_ids |-> [k \in 1..n |-> Written(id, k)], logprobs |-> [k \in 1..n |-> LogProb(id, k)]]

Said(t) ==
  [role |-> "assistant", id |-> t.id, input_ids |-> t.input_ids, output_ids |-> t.output_ids,
   logprobs |-> t.logprobs]

Running == reported = Nothing

\* kwargs['max_tokens']
Room(prompt) == MaxModelLen - Len(prompt)

\* A step of the agent that asks the model.  Calls that do not pass validation
\* raise: the reply is dropped, and an error observation becomes a message.
\* A reply with a format error is acted on, and the next step raises.
Ask ==
  /\ Running /\ turn = Nothing /\ format_error = "none" /\ sampled < MaxReplies
  /\ Last(conversation).role # "assistant"
  /\ \E kind \in Kinds, calls \in 0..MaxCalls, n \in 1..MaxReply, error \in FormatErrors :
       /\ n <= Room(InputIds)
       /\ kind = "calls" => calls > 0
       /\ kind \in {"message", "invalid"} => calls = 0
       /\ kind = "finish" => calls < MaxCalls
       /\ kind = "invalid" => error = "none"   \* it is dropped with the reply
       /\ error = "length" => kind = "message"
       /\ sampled' = sampled + 1
       /\ LET r == Reply(kind, calls, n, InputIds)
          IN \/ /\ kind = "invalid"
                /\ conversation' = Append(conversation, Plain("user", Len(conversation) + 1))
                /\ UNCHANGED <<turn, format_error, acted>>
             \/ /\ kind = "message"
                /\ conversation' = Append(conversation, Said(r))
                /\ acted' = Append(acted, r.id) /\ format_error' = error
                /\ UNCHANGED turn
             \/ /\ kind \in {"calls", "finish"}
                /\ turn' = r /\ format_error' = error
                /\ UNCHANGED <<conversation, acted>>
  /\ answered' = 0 /\ UNCHANGED reported

Results(t) == [i \in 1..t.calls |-> Plain("tool", Len(conversation) + 1 + i)]

\* Mutant: the tool results come before the reply that asked for them.
Carried_Early(t) ==
  Results(t) \o <<Said(t)>>

\* The reply and the results of its calls, once all of them are there.
Carried(t) ==
  <<Said(t)>> \o Results(t)

\* The result of a tool call.
Observe ==
  /\ Running /\ turn # Nothing /\ answered < turn.calls
  /\ answered' = answered + 1
  /\ IF answered' = turn.calls /\ turn.kind = "calls"
     THEN /\ conversation' = conversation \o Carried(turn)
          /\ acted' = Append(acted, turn.id) /\ turn' = Nothing
     ELSE UNCHANGED <<conversation, acted, turn>>
  /\ UNCHANGED <<format_error, sampled, reported>>

\* The user, that is codeact_user_response, answers a message.
Respond ==
  /\ Running /\ turn = Nothing /\ Last(conversation).role = "assistant"
  /\ conversation' = Append(conversation, Plain("user", Len(conversation) + 1))
  /\ UNCHANGED <<turn, answered, format_error, sampled, acted, reported>>

-----------------------------------------------------------------------------
(* process_messages_from_agent_state *)

TokenIds(m) ==
  IF m.output_ids # Nothing THEN m.output_ids ELSE convert_messages_to_tokens(<<m>>)

Report(messages) ==
  MapSeq(LAMBDA m : [role |-> m.role, token_ids |-> TokenIds(m), input_ids |-> m.input_ids,
                     logprobs |-> m.logprobs], Trimmed(messages))

\* The finish action ends the rollout; its message is the reply.
Finish ==
  /\ Running /\ turn # Nothing /\ turn.kind = "finish" /\ answered = turn.calls
  /\ conversation' = Append(conversation, Said(turn))
  /\ acted' = Append(acted, turn.id)
  /\ reported' = Report(conversation')
  /\ UNCHANGED <<turn, answered, format_error, sampled>>

\* The rollout ends otherwise: the prompt leaves no room, the last reply had a
\* format error, the iterations or the time ran out, or it was cancelled.
Stop ==
  /\ Running
  /\ reported' = Report(conversation)
  /\ UNCHANGED <<conversation, turn, answered, format_error, sampled, acted>>

Next == Ask \/ Observe \/ Respond \/ Finish \/ Stop

-----------------------------------------------------------------------------
TypeOK ==
  /\ sampled \in 0..MaxReplies /\ answered \in 0..MaxCalls /\ format_error \in FormatErrors
  /\ Len(acted) <= sampled
  /\ turn = Nothing \/ turn.kind \in {"calls", "finish"}

Done == reported \notin {Nothing, <<>>}

Row == Encode(reported)

\* The tokens of the row before the i-th message.
Before(i) == Ids(SubSeq(reported, 1, i - 1))

\* Messages before the i-th, system apart, that are followed by one that is
\* not the assistant's.
Unanswered(i) ==
  {j \in 1..i - 2 : reported[j].role \notin {"system", "assistant"}
                    /\ reported[j + 1].role # "assistant"}

Bare(s) == SelectSeq(s, LAMBDA t : t # Header)

\* Token in, token out: a turn is trained on behind the very tokens the model
\* was sent when it wrote it, unless two messages came between two turns.
TurnsAligned ==
  Done => \A i \in Assistants(reported) :
            (Before(i) = reported[i].input_ids) <=> (Unanswered(i) = {})

\* Even then the two differ in generation prompts only, one for each message
\* that was not the last before a turn.
HeadersOnly ==
  Done => \A i \in Assistants(reported) :
            /\ Bare(Before(i)) = Bare(reported[i].input_ids)
            /\ Len(Before(i)) = Len(reported[i].input_ids) + Cardinality(Unanswered(i))

Trained == SelectSeq(Zip(Row.response, Row.log_probs),
                     LAMBDA p : \E k \in 1..Len(Row.response) :
                                  Row.response[k] = p[1] /\ Row.mask[k] = 1)

\* The loss falls on the replies the agent acted on to the end and on nothing
\* else: each is in the row once, in order, with its own log-probabilities.
\* Without one there is no row.
RepliesTrained ==
  reported # Nothing =>
    /\ Done <=> acted # <<>>
    /\ Done =>
         /\ \A p \in ToSet(Trained) : p[1][1] = "written" /\ p[2] = LogProb(p[1][2], p[1][3])
         /\ MapSeq(LAMBDA p : p[1][2], SelectSeq(Trained, LAMBDA p : p[1][3] = 1)) = acted

\* The row is no longer than the model's context, but for the generation
\* prompts it has too many.
RowFits ==
  Done => Len(Row.prompt) + Len(Row.response)
            <= MaxModelLen + Cardinality(Unanswered(Len(reported)))
=============================================================================
