----------------------------- MODULE AgentContext -----------------------------
(***************************************************************************)
(* What an agent shows its model: the history the controller keeps, the    *)
(* view that condensations leave of it (memory/view.py), the condensers    *)
(* that decide what to forget (memory/condenser), the window the           *)
(* controller applies when the model's context overflows, and the messages *)
(* the view becomes (memory/conversation_memory.py).                       *)
(*                                                                         *)
(* An event of the history is its kind, the model response and the tool    *)
(* call it belongs to, and what it forgets; its id is its position.  One   *)
(* response may ask for several calls, which are run one after the other.  *)
(***************************************************************************)
EXTENDS Integers, Sequences, SequencesExt, FiniteSets

CONSTANTS
    Policies,   \* the condensers considered
    MaxSize,    \* condenser.max_size, max_events
    KeepFirst,  \* condenser.keep_first
    MaxCalls,   \* bound: tool calls in one response
    MaxRanked,  \* bound: ids the attention condenser's model returns
    MaxLength   \* bound: events in the history

VARIABLES
    policy,     \* the condenser of this agent
    history,    \* state.history
    calls,      \* tool calls of the last response not yet run, a sequence
    again       \* how many condensations directly precede this step

contextVars == <<policy, history, calls, again>>

\* What the constructors of the condensers check.
SizesAllowed ==
    /\ KeepFirst \in Nat /\ MaxSize \in Nat \ {0}
    /\ KeepFirst < MaxSize \div 2

NoCall == <<0, 0>>

\* call is <<response, index>> and of is how many calls that response asked for.
Event(kind, call, of) ==
    [kind |-> kind, call |-> call, of |-> of, forgotten |-> {}, offset |-> -1]

Plain(kind) == Event(kind, NoCall, 0)

Summary == [id |-> -1, e |-> Plain("summary")]

IsObservation(e) == e.kind \in {"recalled", "result", "summary"}

IsUserMessage(e) == e.kind = "user"

-----------------------------------------------------------------------------
(* View.from_events *)

Condensations(h) == {i \in 1..Len(h) : h[i].kind = "condensation"}

Forgotten(h) == UNION {h[i].forgotten : i \in Condensations(h)}

Numbered(h) == [i \in 1..Len(h) |-> [id |-> i, e |-> h[i]]]

Kept(h) == SelectSeq(Numbered(h), LAMBDA x : x.id \notin Forgotten(h))

Summaries(h) == {i \in Condensations(h) : h[i].offset >= 0}

Least(a, b) == IF a < b THEN a ELSE b

Greatest(a, b) == IF a > b THEN a ELSE b

\* list.insert: an offset past the end appends.
InsertSummary(s, offset) == InsertAt(s, Least(offset, Len(s)) + 1, Summary)

View(h) ==
    IF Summaries(h) = {} THEN Kept(h)
    ELSE LET last == CHOOSE i \in Summaries(h) : \A j \in Summaries(h) : j <= i
         IN InsertSummary(Kept(h), h[last].offset)

Ids(v) == {v[i].id : i \in 1..Len(v)} \ {-1}

MinId(S) == CHOOSE i \in S : \A j \in S : i <= j

MaxId(S) == CHOOSE i \in S : \A j \in S : j <= i

\* view[:n], and view[-n:] for n > 0.
TakeFirst(v, n) == SubSeq(v, 1, Least(n, Len(v)))

TakeLast(v, n) == SubSeq(v, Greatest(1, Len(v) - n + 1), Len(v))

\* view[-n:], where -0 is 0: the whole view.
FromEnd(v, n) == IF n = 0 THEN v ELSE TakeLast(v, n)

-----------------------------------------------------------------------------
(* The rolling condensers: should_condense and get_condensation. *)

Target == MaxSize \div 2

Span(S) == MinId(S)..MaxId(S)

Forgetting(ids, offset) ==
    [Plain("condensation") EXCEPT !.forgotten = ids, !.offset = offset]

Rolling == {"forgetting", "summary", "attention"}

ShouldCondense(v) == policy \in Rolling /\ Len(v) > MaxSize

\* AmortizedForgettingCondenser: the first keep_first, and the tail.
Amortized(v) ==
    LET head == TakeFirst(v, KeepFirst)
        tail == FromEnd(v, Target - Len(head))
    IN Forgetting(Span(Ids(v) \ (Ids(head) \union Ids(tail))), -1)

\* LLMSummarizingCondenser and StructuredSummaryCondenser: one place less in
\* the tail, for the summary.  view[k:-0] is empty, and min() of it raises.
Tailing == Target - KeepFirst - 1

Summarized(v) == IF Tailing = 0 THEN {} ELSE Ids(SubSeq(v, KeepFirst + 1, Len(v) - Tailing))

Summarizing(v) == Forgetting(Span(Summarized(v)), KeepFirst)

\* LLMAttentionCondenser: the model ranks ids, in any way; ids of the head are
\* dropped, the list is cut, and filled up from the end.
Attending(v, ranked) ==
    LET head  == Ids(TakeFirst(v, KeepFirst))
        room  == Target - KeepFirst
        asked == TakeFirst(SelectSeq(ranked, LAMBDA i : i \notin head), room)
        \* event ids from the end, those not asked for
        more  == TakeFirst(SelectSeq(Reverse([i \in 1..Len(v) |-> v[i].id]),
                                 LAMBDA i : i \notin ToSet(asked)), room - Len(asked))
        keep  == ToSet(asked) \union ToSet(more) \union head
    IN Forgetting({i \in Ids(v) : i \notin keep}, -1)

\* RecentEventsCondenser and ObservationMaskingCondenser return a view.
Recent(v) ==
    LET head == TakeFirst(v, KeepFirst)
    IN head \o FromEnd(v, Greatest(0, MaxSize - Len(head)))

Masked(v) == [i \in 1..Len(v) |->
    IF IsObservation(v[i].e) /\ i <= Len(v) - MaxSize THEN Summary ELSE v[i]]

\* What the agent works from when nothing is to be condensed.
Shown(v) ==
    CASE policy = "recent"  -> Recent(v)
      [] policy = "masking" -> Masked(v)
      [] OTHER              -> v
-----------------------------------------------------------------------------
(* ConversationMemory.process_events *)

Message(role, cs) == [role |-> role, calls |-> cs]

CallsOf(e) == [k \in 1..e.of |-> <<e.call[1], k>>]

\* Mutant: the view is taken as it is.
Completed_None(v) == v

\* _ensure_system_message and _ensure_initial_user_message.
Completed(v) ==
    LET system == [id |-> 0, e |-> Plain("system")]
        user   == [id |-> 0, e |-> Plain("user")]
        w == IF \E i \in 1..Len(v) : v[i].e.kind = "system" THEN v ELSE <<system>> \o v
    IN IF Len(w) >= 2 /\ IsUserMessage(w[2].e) THEN w
       ELSE <<w[1], user>> \o SubSeq(w, 2, Len(w))

\* pending_tool_call_action_messages, in the order of insertion: those whose
\* calls all have a result are added, each followed by its results.
Ready(acc, c) == ToSet(c) \subseteq acc.results

Emit(ms, cs) ==
    ms \o <<Message("assistant", cs)>> \o [k \in 1..Len(cs) |-> Message("tool", <<cs[k]>>)]

Emitted(acc) ==
    LET ready == SelectSeq(acc.pending, LAMBDA c : Ready(acc, c))
    IN [messages |-> FoldLeft(Emit, acc.messages, ready),
        pending  |-> SelectSeq(acc.pending, LAMBDA c : ~Ready(acc, c)),
        results  |-> acc.results \ UNION {ToSet(ready[i]) : i \in 1..Len(ready)}]

\* _process_action and _process_observation, but for calls and their results.
ActionMessages(e) ==
    CASE e.kind = "system" -> <<Message("system", <<>>)>>
      [] e.kind = "user"   -> <<Message("user", <<>>)>>
      [] e.kind = "say"    -> <<Message("assistant", <<>>)>>
      [] OTHER             -> <<>>

ObservationMessages(e) ==
    IF e.kind \in {"recalled", "summary"} THEN <<Message("user", <<>>)>> ELSE <<>>

\* One event: a call waits for the results of its whole response, a result
\* waits for its response, and everything else is a message at once or none.
Process(acc, x) ==
    LET response == CallsOf(x.e)
        new == IF IsObservation(x.e) THEN ObservationMessages(x.e) ELSE ActionMessages(x.e)
    IN Emitted([messages |-> acc.messages \o new,
                pending  |-> IF x.e.kind = "call" /\ response \notin ToSet(acc.pending)
                             THEN Append(acc.pending, response) ELSE acc.pending,
                results  |-> acc.results \union (IF x.e.kind = "result" THEN {x.e.call} ELSE {})])

Processed(v) ==
    FoldLeft(Process, [messages |-> <<>>, pending |-> <<>>, results |-> {}], Completed(v)).messages

\* _filter_unmatched_tool_calls
Matched(ms) ==
    LET asked    == UNION {ToSet(ms[i].calls) : i \in {j \in 1..Len(ms) : ms[j].role = "assistant"}}
        answered == UNION {ToSet(ms[i].calls) : i \in {j \in 1..Len(ms) : ms[j].role = "tool"}}
        trimmed  == [i \in 1..Len(ms) |->
                        IF ms[i].role = "assistant"
                        THEN [ms[i] EXCEPT !.calls = SelectSeq(@, LAMBDA c : c \in answered)] ELSE ms[i]]
        Keep(i)  == CASE ms[i].role = "tool" -> ms[i].calls[1] \in asked
                      [] ms[i].role = "assistant" /\ ms[i].calls # <<>> -> trimmed[i].calls # <<>>
                      [] OTHER -> TRUE
        kept     == SelectSeq([i \in 1..Len(ms) |-> i], Keep)
    IN [k \in 1..Len(kept) |-> trimmed[kept[k]]]

Messages(v) == Matched(Processed(v))

-----------------------------------------------------------------------------
(* AgentController._apply_conversation_window and _handle_long_context_error *)

\* The indices of the system message, the first user message and its recall,
\* in a history that starts with them.
Essential(h) == {i \in 1..Len(h) : h[i].kind \in {"system", "user", "recall", "recalled"}
                                    /\ \A j \in 1..i - 1 : h[j].kind # h[i].kind}

Window(h) ==
    LET recent == Greatest(1, (Len(h) - Cardinality(Essential(h))) \div 2)
        start  == Greatest(1, Len(h) - recent + 1)
        valid  == {i \in start..Len(h) : \E j \in start..i : ~IsObservation(h[j])}
    IN Essential(h) \union valid

\* The id that both ends of an empty range default to: 0, the first event's.
FirstEvent == 1

Overflowing(h) ==
    LET out == (1..Len(h)) \ Window(h)
    IN Forgetting(IF out = {} THEN {FirstEvent} ELSE Span(out), -1)

-----------------------------------------------------------------------------
(* The agent's steps, one event of the history at a time. *)

Init ==
    /\ policy \in Policies
    /\ history = <<Plain("system"), Plain("user"), Plain("recall"), Plain("recalled")>>
    /\ calls = <<>>
    /\ again = 0

Room == Len(history) < MaxLength

\* agent.step with nothing to condense: a response of n calls, or a message.
Respond(n) ==
    /\ Room /\ calls = <<>> /\ ~ShouldCondense(View(history))
    /\ calls' = [k \in 1..n |-> <<Len(history) + 1, k>>]
    /\ again' = 0
    /\ UNCHANGED <<policy, history>>

Say ==
    /\ Room /\ calls = <<>> /\ ~ShouldCondense(View(history))
    /\ history' = Append(history, Plain("say"))
    /\ again' = 0
    /\ UNCHANGED <<policy, calls>>

\* The pending calls of a response are executed in turn, each with its result.
RunCall ==
    /\ Len(history) + 1 < MaxLength /\ calls # <<>>
    /\ LET c  == Head(calls)
           of == c[2] + Len(calls) - 1
       IN history' = history \o <<Event("call", c, of), Event("result", c, of)>>
    /\ calls' = Tail(calls)
    /\ UNCHANGED <<policy, again>>

\* The agent returns the condensation instead of an action.
Condense ==
    /\ Room /\ calls = <<>> /\ ShouldCondense(View(history))
    /\ LET v == View(history)
       IN \/ policy = "forgetting" /\ history' = Append(history, Amortized(v))
          \/ policy = "summary" /\ Summarized(v) # {} /\ history' = Append(history, Summarizing(v))
          \/ policy = "attention" /\ \E ranked \in BoundedSeq(1..Len(history), MaxRanked) :
                                        history' = Append(history, Attending(v, ranked))
    /\ again' = again + 1
    /\ UNCHANGED <<policy, calls>>

\* The model rejects the prompt: its context window is exceeded.
Overflow ==
    /\ Room /\ calls = <<>> /\ policy = "window"
    /\ history' = Append(history, Overflowing(history))
    /\ again' = again + 1
    /\ UNCHANGED <<policy, calls>>

Next ==
    \/ \E n \in 1..MaxCalls : Respond(n)
    \/ Say
    \/ RunCall
    \/ Condense
    \/ Overflow

Spec == Init /\ [][Next]_contextVars
-----------------------------------------------------------------------------

TypeOK ==
    /\ policy \in Policies
    /\ \A i \in 1..Len(history) :
          /\ history[i].kind \in {"system", "user", "recall", "recalled", "say", "call", "result", "condensation"}
          /\ history[i].forgotten \subseteq 1..i - 1
    /\ Len(history) <= MaxLength
    /\ Len(calls) <= MaxCalls

Prompt == Messages(Shown(View(history)))

\* Whatever was forgotten, the prompt opens with the system and a user message,
\* a response with calls is followed by the results of exactly these calls, and
\* no result stands anywhere else: the model's API rejects anything else.
PromptWellFormed ==
    LET ms == Prompt
        AnswersAt(i) == \A k \in 1..Len(ms[i].calls) :
                           i + k <= Len(ms) /\ ms[i + k] = Message("tool", <<ms[i].calls[k]>>)
    IN /\ ms[1].role = "system" /\ ms[2].role = "user"
       /\ \A i \in 1..Len(ms) :
             /\ ms[i].role = "assistant" => AnswersAt(i)
             /\ ms[i].role = "tool" => \E j \in 1..i - 1 :
                   ms[j].role = "assistant" /\ i - j <= Len(ms[j].calls) /\ ms[j].calls[i - j] = ms[i].calls[1]

\* A response all of whose calls and results survive in the view is in the
\* prompt, once; masking replaces results, and with them the response goes.
NothingLost ==
    policy \notin {"masking", "recent"} =>
        LET v  == View(history)
            ms == Prompt
            Has(kind, c) == \E i \in 1..Len(v) : v[i].e.kind = kind /\ v[i].e.call = c
        IN \A i \in 1..Len(v) :
              v[i].e.kind = "call" /\ (\A c \in ToSet(CallsOf(v[i].e)) : Has("call", c) /\ Has("result", c))
              => Cardinality({j \in 1..Len(ms) : ms[j] = Message("assistant", CallsOf(v[i].e))}) = 1

\* A rolling condenser brings the view back under its size in one go: the agent
\* never spends two steps on condensing in a row.
CondensesOnce == policy \in Rolling => again <= 1

\* What is out of the window is forgotten as a range of ids, and no event that
\* was to be kept falls into that range, however often the history was cut: the
\* first user message and its recall stay.  The one exception is an overflow
\* with nothing to cut, which forgets the system message; process_events then
\* puts another one first.
WindowRespected ==
    policy = "window" =>
        /\ \A i \in Condensations(history) :
              LET window == Window(SubSeq(history, 1, i - 1))
              IN \/ history[i].forgotten \intersect window = {}
                 \/ history[i].forgotten = {FirstEvent} /\ window = 1..i - 1
        /\ 2..4 \subseteq Ids(View(history))

\* "Cuts history roughly in half when context window is exceeded": an overflow
\* of a view with four or more events after the first messages makes it forget
\* at least one of them.
OverflowCuts ==
    [][(again' > again /\ policy = "window" /\ Cardinality(Ids(View(history)) \ 1..4) >= 4)
        => (~(Ids(View(history)) \subseteq Ids(View(history'))))]_contextVars

\* "If the max_events are larger than the number of events, equivalent to a
\* NoOpCondenser."
RecentIsNoOp ==
    policy = "recent" /\ Len(View(history)) <= MaxSize => Recent(View(history)) = View(history)
=============================================================================
