------------------------------ MODULE AgentLoop ------------------------------
(***************************************************************************)
(* One headless agent run: the AgentController, the event stream it lives  *)
(* on, the runtime and the memory that answer its actions, and the         *)
(* coroutine that started the run (nvidia/controller.py) with its status   *)
(* callback.                                                               *)
(*                                                                         *)
(* Every subscriber of the stream handles events on a thread of its own,   *)
(* one at a time.  EventStream.add_event draws the id and stores the event *)
(* in one step (store) and hands it to the delivery queue in a later one   *)
(* (log), so events of two threads can be delivered against their ids.     *)
(* Every subscriber reads the deliveries in the same order, at its own     *)
(* pace (pos).  What a handler still has to do is its thread's todo list:  *)
(* events to add and agent states to assume, in the order of the code.     *)
(*                                                                         *)
(* An event is its kind, the agent state it carries and the id of the      *)
(* action that caused it; its content is left out.  What the model         *)
(* answers, whether the agent is judged stuck and whether a command fails  *)
(* are choices.                                                            *)
(***************************************************************************)
EXTENDS Integers, Sequences, FiniteSets

CONSTANTS
    Outcomes,   \* what one step of the agent may come to
    MaxIter     \* config.max_iterations

VARIABLES
    store,      \* every stored event; the id of an event is its position
    log,        \* the ids in the order of queue.put
    pos,        \* how many deliveries each subscriber has begun to handle
    todo,       \* per thread: what its handler has left to do
    adding,     \* per thread: the id drawn and not yet delivered, or 0
    ctl,        \* the controller: state, pending action, history, ...
    recallLost, \* a failed recall is waiting for the memory's next event
    overtaken,  \* a step began while another thread was ending the run
    silent,     \* the agent has returned a NullAction
    closed      \* run_controller has closed the controller

agentVars == <<store, log, pos, todo, adding, ctl, recallLost, overtaken, silent, closed>>

Subscribers == {"controller", "main", "memory", "runtime"}

EndStates == {"finished", "rejected", "error", "paused", "stopped"}

AgentStates == EndStates \union {"loading", "running", "awaiting", "rate_limited"}

Runnable == {"cmd"}

Actions == {"user", "say", "ask", "recall", "cmd", "think", "finish", "reject",
            "condense"}

Observations == {"recalled", "null", "output", "error", "state"}

Event(kind, st, cause) == [kind |-> kind, st |-> st, cause |-> cause]

Plain(kind) == Event(kind, "none", 0)

Events == [kind : Actions \union Observations, st : AgentStates \union {"none"},
           cause : {-1} \union Nat]

Add(e) == [op |-> "add", event |-> e, st |-> "none", clear |-> FALSE]

Become(st, clear) == [op |-> "become", event |-> Plain("state"), st |-> st, clear |-> clear]

\* agent_history_filter: state changes and NullObservations stay out.
Included(e) == e.kind \notin {"state", "null"}

\* tool_call_metadata: a command and its results carry the same, the rest none.
Metadata(e) ==
    IF e.kind \in {"output", "error"} /\ e.cause > 0 /\ store[e.cause].kind # "recall"
    THEN e.cause ELSE 0

-----------------------------------------------------------------------------
(* Controller state changes, as what the thread that makes them must do. *)

\* Mutant: the pending action is forgotten.
ResetAdds_None(c) == <<>>

\* _reset: the pending action must not stay without a result.
ResetAdds(c) ==
    LET mine  == IF c.pending > 0 /\ store[c.pending].kind = "recall" THEN 0 ELSE c.pending
        found == \E i \in 1..Len(c.hist) :
                    /\ store[c.hist[i]].kind \in Observations
                    /\ Metadata(store[c.hist[i]]) = mine
    IN IF c.pending # 0 /\ ~found THEN <<Add(Event("error", "none", c.pending))>> ELSE <<>>

\* set_agent_state_to: nothing when the state is the same; otherwise the reset
\* first, then the state, then the observation that announces it.
SetState(c, new) ==
    IF new = c.st THEN <<>>
    ELSE LET ending == new \in {"stopped", "error"}
         IN (IF ending THEN ResetAdds(c) ELSE <<>>)
            \o <<Become(new, ending), Add(Event("state", new, 0))>>

\* _react_to_exception, of a rate limit and of anything else.
ReactTo(c, rateLimited) == SetState(c, IF rateLimited THEN "rate_limited" ELSE "error")

\* status_callback of run_agent_until_done, which the runtime and the memory call.
StatusCallback == SetState(ctl, "error")

-----------------------------------------------------------------------------
(* The event stream. *)

Idle(t) == todo[t] = <<>> /\ adding[t] = 0

\* add_event, under the lock: the next id, and the event is stored.
DrawId(t) ==
    /\ adding[t] = 0
    /\ todo[t] # <<>>
    /\ Head(todo[t]).op = "add"
    /\ LET e == Head(todo[t]).event
           id == Len(store) + 1
       IN /\ store' = Append(store, e)
          /\ adding' = [adding EXCEPT ![t] = id]
          /\ ctl' = IF e.kind \in Runnable \union {"recall"} /\ ctl.pending = -1
                    THEN [ctl EXCEPT !.pending = id] ELSE ctl
    /\ todo' = [todo EXCEPT ![t] = Tail(@)]
    /\ UNCHANGED <<log, pos, recallLost, overtaken, silent, closed>>

\* add_event, after the lock: self._queue.put.
Deliver(t) ==
    /\ adding[t] # 0
    /\ log' = Append(log, adding[t])
    /\ adding' = [adding EXCEPT ![t] = 0]
    /\ UNCHANGED <<store, pos, todo, ctl, recallLost, overtaken, silent, closed>>

\* The assignment of agent_state (and, after a reset, of _pending_action).
Assume(t) ==
    /\ adding[t] = 0
    /\ todo[t] # <<>>
    /\ Head(todo[t]).op = "become"
    /\ ctl' = [ctl EXCEPT !.st = Head(todo[t]).st,
                          !.pending = IF Head(todo[t]).clear THEN 0 ELSE @]
    /\ todo' = [todo EXCEPT ![t] = Tail(@)]
    /\ UNCHANGED <<store, log, pos, adding, recallLost, overtaken, silent, closed>>

\* The events whose handler does something: the runtime runs commands and
\* acknowledges thoughts, the memory answers recalls, and any event lets it
\* run a coroutine left on its loop; the main subscriber answers a waiting agent.
Concerns(s, e) ==
    CASE s = "controller" -> TRUE
      [] s = "runtime"    -> e.kind \in {"cmd", "think"}
      [] s = "memory"     -> e.kind = "recall" \/ recallLost
      [] s = "main"       -> e.kind = "state" /\ e.st = "awaiting"

Upcoming(s) == {k \in pos[s] + 1..Len(log) : Concerns(s, store[log[k]])}

\* _process_queue and the subscriber's pool: the thread is free for the next one.
Receives(s) == Idle(s) /\ Upcoming(s) # {}

Turn(s) == CHOOSE k \in Upcoming(s) : \A l \in Upcoming(s) : k <= l

Received(s) == store[log[Turn(s)]]

TakeTurn(s) == pos' = [pos EXCEPT ![s] = Turn(s)]

-----------------------------------------------------------------------------
(* The controller's thread: on_event, in three stages. *)

\* _handle_action and _handle_observation: the controller after the handler's
\* assignments, and what it adds.  A user message makes the recall the pending
\* action, whatever was pending before.
Handled(c, e) ==
    CASE e.kind = "user"   -> [c EXCEPT !.pending = -1]
      [] e.kind \in Observations /\ c.pending > 0 /\ c.pending = e.cause -> [c EXCEPT !.pending = 0]
      [] OTHER             -> c

MessageAdds(c, e) ==
    CASE e.kind = "user" -> <<Add(Plain("recall"))>> \o SetState(c, "running")
      [] e.kind = "ask"  -> SetState(c, "awaiting")
      [] OTHER           -> <<>>

HandlerAdds(c, e) ==
    CASE e.kind = "finish" -> SetState(c, "finished")
      [] e.kind = "reject" -> SetState(c, "rejected")
      [] OTHER             -> MessageAdds(c, e)

Handle ==
    /\ ~closed
    /\ ctl.at = "idle"
    /\ Receives("controller")
    /\ LET e == Received("controller")
           c == [ctl EXCEPT !.hist = IF Included(e) THEN Append(@, log[Turn("controller")]) ELSE @]
       IN /\ ctl' = [Handled(c, e) EXCEPT !.at = "handled"]
          /\ todo' = [todo EXCEPT !["controller"] = HandlerAdds(c, e)]
    /\ TakeTurn("controller")
    /\ UNCHANGED <<store, log, adding, recallLost, overtaken, silent, closed>>

\* Mutant: the agent waits for something better than a NullObservation.
ShouldStep_NoNull(e) ==
    \/ e.kind \in {"user", "condense"}
    \/ e.kind \in {"say", "ask"} /\ ctl.st # "awaiting"
    \/ e.kind \in {"recalled", "output", "error"}

\* Mutant: the agent goes on from a thought before the runtime has acknowledged it.
ShouldStep_Think(e) ==
    \/ e.kind \in {"user", "condense", "think"}
    \/ e.kind \in {"say", "ask"} /\ ctl.st # "awaiting"
    \/ e.kind \in {"recalled", "null", "output", "error"}

ShouldStep(e) ==
    \/ e.kind \in {"user", "condense"}
    \/ e.kind \in {"say", "ask"} /\ ctl.st # "awaiting"
    \/ e.kind \in {"recalled", "null", "output", "error"}

MayStep == ctl.st = "running" /\ ctl.pending = 0

\* The event has been handled; _step up to the call of the agent.
BeginStep ==
    /\ ~closed
    /\ ctl.at = "handled"
    /\ Idle("controller")
    /\ LET e == store[log[pos["controller"]]]
       IN IF ~ShouldStep(e) \/ ~MayStep
          THEN ctl' = [ctl EXCEPT !.at = "idle"] /\ UNCHANGED <<todo, overtaken>>
          ELSE IF ctl.iter >= MaxIter
          THEN /\ ctl' = [ctl EXCEPT !.at = "idle"]
               /\ todo' = [todo EXCEPT !["controller"] = ReactTo(ctl, FALSE)]
               /\ UNCHANGED overtaken
          ELSE /\ ctl' = [ctl EXCEPT !.at = "thinking"]
               /\ overtaken' = (overtaken \/ \E t \in Subscribers :
                                   \E i \in 1..Len(todo[t]) : todo[t][i].op = "become")
               /\ UNCHANGED todo
    /\ UNCHANGED <<store, log, pos, adding, recallLost, silent, closed>>

\* _is_stuck: the agent does not get to its step.
Stuck ==
    /\ ~closed
    /\ ctl.at = "thinking"
    /\ ctl' = [ctl EXCEPT !.at = "idle"]
    /\ todo' = [todo EXCEPT !["controller"] = ReactTo(ctl, FALSE)]
    /\ UNCHANGED <<store, log, pos, adding, recallLost, overtaken, silent, closed>>

\* update_state_before_step, agent.step and what _step does with its outcome.
AgentStep(o) ==
    /\ ~closed
    /\ ctl.at = "thinking"
    /\ ctl' = [ctl EXCEPT !.at = "idle", !.iter = @ + 1,
                          !.pending = IF o \in Runnable THEN -1 ELSE @]
    /\ todo' = [todo EXCEPT !["controller"] =
                    CASE o = "null"         -> <<>>
                      [] o = "malformed"    -> <<Add(Plain("error"))>>
                      [] o \in {"raises", "rate_limited"} -> ReactTo(ctl, o = "rate_limited")
                      [] OTHER              -> <<Add(Plain(o))>>]
    /\ silent' = (silent \/ o = "null")
    /\ UNCHANGED <<store, log, pos, adding, recallLost, overtaken, closed>>

-----------------------------------------------------------------------------
(* The runtime, the memory, the user and the coroutine that waits. *)

\* run_action: a command is executed, a thought is acknowledged; every other
\* action comes to a NullObservation, which is not added.
RuntimeRuns ==
    /\ Receives("runtime")
    /\ todo' = [todo EXCEPT !["runtime"] =
                    <<Add(Event("output", "none", log[Turn("runtime")]))>>]
    /\ TakeTurn("runtime")
    /\ UNCHANGED <<store, log, adding, ctl, recallLost, overtaken, silent, closed>>

\* The command raises: no observation, but the status callback puts the
\* controller into ERROR, from the runtime's thread.
RuntimeFails ==
    /\ Receives("runtime")
    /\ Received("runtime").kind = "cmd"
    /\ todo' = [todo EXCEPT !["runtime"] = StatusCallback]
    /\ TakeTurn("runtime")
    /\ UNCHANGED <<store, log, adding, ctl, recallLost, overtaken, silent, closed>>

\* Memory._on_event.  A coroutine left over from a failed recall runs on the
\* memory's loop when the next event gets the loop going again.
MemoryAnswers(kind) ==
    /\ Receives("memory")
    /\ todo' = [todo EXCEPT !["memory"] =
                    (IF recallLost THEN StatusCallback ELSE <<>>)
                    \o (IF Received("memory").kind = "recall"
                        THEN <<Add(Event(kind, "none", log[Turn("memory")]))>> ELSE <<>>)]
    /\ recallLost' = FALSE
    /\ TakeTurn("memory")
    /\ UNCHANGED <<store, log, adding, ctl, overtaken, silent, closed>>

\* send_error_message: run_coroutine_threadsafe on the loop that is about to
\* stop, so the callback runs with the memory's next event.
MemoryFails ==
    /\ Receives("memory")
    /\ Received("memory").kind = "recall"
    /\ recallLost' = TRUE
    /\ todo' = [todo EXCEPT !["memory"] = IF recallLost THEN StatusCallback ELSE <<>>]
    /\ TakeTurn("memory")
    /\ UNCHANGED <<store, log, adding, ctl, overtaken, silent, closed>>

\* on_event of run_controller: an agent that waits is answered.
MainAnswers ==
    /\ Receives("main")
    /\ todo' = [todo EXCEPT !["main"] = <<Add(Plain("user"))>>]
    /\ TakeTurn("main")
    /\ UNCHANGED <<store, log, adding, ctl, recallLost, overtaken, silent, closed>>

\* run_agent_until_done polls the agent state.
Done == ctl.st \in EndStates

\* controller.close rebuilds the history from the stored events.
Close ==
    /\ ~closed /\ Done
    /\ closed' = TRUE
    /\ ctl' = [ctl EXCEPT !.hist = SelectSeq([i \in 1..Len(store) |-> i],
                                             LAMBDA i : Included(store[i]))]
    /\ UNCHANGED <<store, log, pos, todo, adding, recallLost, overtaken, silent>>

-----------------------------------------------------------------------------

AgentInit ==
    /\ store = <<>> /\ log = <<>>
    /\ pos = [s \in Subscribers |-> 0]
    /\ adding = [t \in Subscribers |-> 0]
    /\ todo = [t \in Subscribers |-> <<>>]
    /\ ctl = [st |-> "loading", pending |-> 0, iter |-> 0, hist |-> <<>>, at |-> "idle"]
    /\ recallLost = FALSE /\ overtaken = FALSE /\ silent = FALSE /\ closed = FALSE

\* run_controller adds the initial user message.
Begin ==
    /\ store = <<>> /\ Idle("main")
    /\ todo' = [todo EXCEPT !["main"] = <<Add(Plain("user"))>>]
    /\ UNCHANGED <<store, log, pos, adding, ctl, recallLost, overtaken, silent, closed>>

StreamStep(t) == DrawId(t) \/ Deliver(t) \/ Assume(t)

Think == Stuck \/ \E o \in Outcomes : AgentStep(o)

Execute == RuntimeRuns \/ RuntimeFails

Recall == MemoryFails \/ \E kind \in {"recalled", "null"} : MemoryAnswers(kind)

\* What the threads of the process do.
ThreadStep ==
    /\ (store # <<>> \/ todo["main"] # <<>>)
    /\ \/ \E t \in Subscribers : StreamStep(t)
       \/ Handle
       \/ BeginStep
       \/ Think
       \/ Execute
       \/ Recall
       \/ MainAnswers
       \/ Close

AgentNext == Begin \/ ThreadStep

\* The process does not rest while one of its threads can run; the model and
\* the runtime answer every call, if only with an error.
AgentFairness == WF_agentVars(ThreadStep)

AgentSpec == AgentInit /\ [][AgentNext]_agentVars /\ AgentFairness

-----------------------------------------------------------------------------

\* State constraint: nothing is claimed of a run after a step has overtaken a
\* reset, so it is not followed further.
Undisturbed == ~overtaken

AgentTypeOK ==
    /\ store \in Seq(Events)
    /\ Len(log) <= Len(store)
    /\ \A i \in 1..Len(log) : log[i] \in 1..Len(store)
    /\ pos \in [Subscribers -> 0..Len(log)]
    /\ adding \in [Subscribers -> 0..Len(store)]
    /\ ctl.st \in AgentStates
    /\ ctl.pending \in -1..Len(store)
    /\ ctl.at \in {"idle", "handled", "thinking"}

\* Ids name events: no event is delivered twice or replaced by another, and
\* each stored event is delivered or about to be (EventStream.add_event).
DeliveredOnce ==
    /\ \A i, j \in 1..Len(log) : log[i] = log[j] => i = j
    /\ 1..Len(store) = {log[i] : i \in 1..Len(log)} \union ({adding[t] : t \in Subscribers} \ {0})

\* The history grows in the order of the ids, though the stream delivers outside
\* the lock: the history the agent works from is the one close() reads back.
HistoryInOrder ==
    ~overtaken => \A i, j \in 1..Len(ctl.hist) : i < j => ctl.hist[i] < ctl.hist[j]

ResultsOf(a) == {i \in 1..Len(ctl.hist) : Metadata(store[ctl.hist[i]]) = a}

\* A command never has two results in the history, the runtime's and the one a
\* reset makes up.
OneResult ==
    ~overtaken => \A a \in 1..Len(store) : store[a].kind = "cmd" => Cardinality(ResultsOf(a)) <= 1

Answered == \A i \in 1..Len(ctl.hist) :
    store[ctl.hist[i]].kind = "cmd" => Cardinality(ResultsOf(ctl.hist[i])) = 1

\* The trajectory a closed run hands back has a result for every command in
\* it, however the run ended, because _reset adds its observation before the
\* state changes; unless a step began while another thread was in _reset.
TrajectoryAnswered == closed /\ ~overtaken => Answered

\* "Runnable actions need an Observation": _reset makes sure that the pending
\* action has one, so a closed run has no command without a result.
ResetAnswers == closed => Answered

\* The agent is asked for its next action only when every command of the history
\* has its result there.
StepsOnAnswers == ctl.at = "thinking" /\ ~overtaken => Answered

\* The event stream delivers every event once, and the history of the
\* controller is in the order of the ids.
EventsInOrder == DeliveredOnce /\ HistoryInOrder

\* A command has one result at most, the agent steps only when every command
\* has its result, and a closed run has a result for every one.
CommandsAnswered == OneResult /\ StepsOnAnswers /\ TrajectoryAnswered

\* A run that has begun ends.  What can keep run_agent_until_done waiting for
\* ever is a rate limit, which is not one of its end states, a NullAction, or a
\* step that overtook the reset of another thread.
RunEnds == store # <<>> ~> (closed \/ silent \/ ctl.st = "rate_limited" \/ overtaken)
=============================================================================
