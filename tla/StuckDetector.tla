---------------------------- MODULE StuckDetector ----------------------------
(***************************************************************************)
(* The loop detector of openhands/controller/stuck.py, and the step that   *)
(* consults it: AgentController._step asks _is_stuck before every step and *)
(* ends the run in an error when the answer is yes.  Rollouts are          *)
(* headless, so the detector reads the whole history.                      *)
(*                                                                         *)
(* A turn is what one step adds to the history before the next one: an     *)
(* action and its observation, a message with the made-up reply and the    *)
(* recall it starts, an error for an answer that could not be parsed, or a *)
(* condensation: what the agent does (act, key), what comes back (obs,     *)
(* val), and the details of both that the detector is meant to overlook    *)
(* (more).  The detector sees only the events, flattened, and picks        *)
(* the last actions and the last observations separately; what it should   *)
(* find is stated about the turns.                                         *)
(*                                                                         *)
(* An event is its kind, the part every comparison looks at (key, val) and *)
(* the part _eq_no_pid leaves out (more).  Scenario 5, ten condensation    *)
(* observations in a row, is left out: only the agent's view ever holds    *)
(* such an observation, never the history.                                 *)
(***************************************************************************)
EXTENDS Integers, Sequences, FiniteSets, SequencesExt

CONSTANTS
    Menus,      \* sets of turns: what the agent may do in one run
    MaxTurns    \* bound on the turns of a run

VARIABLES
    menu,       \* the turns of this run
    strict,     \* config.strict_loop_detector
    turns,      \* the turns taken so far
    judged      \* the run has been ended as stuck

stuckVars == <<menu, strict, turns, judged>>

Event(kind, key, val, more) == [kind |-> kind, key |-> key, val |-> val, more |-> more]

ActionKinds == {"system", "recall", "cmd", "edit", "short", "think", "say", "condense"}

ObservationKinds == {"recalled", "output", "error", "cell", "thought"}

\* The run opens with the system message, the task and its recall.
Opening == <<Event("system", 0, 0, 0), Event("user", 0, 0, 0), Event("recall", 0, 0, 0),
             Event("recalled", 0, 0, 0)>>

\* An edit is a cell whose code is compared by its first three lines; thoughts
\* are all acknowledged alike; the made-up user replies are all alike, and their
\* recall finds nothing (a NullObservation, which stays out of the history); a
\* condensation names the events it drops, so no two are the same.
Observed(t) ==
    CASE t.obs = "error"   -> Event("error", 0, t.val, 0)
      [] t.obs = "thought" -> Event("thought", 0, 0, 0)
      [] OTHER             -> Event(t.obs, t.key, t.val, t.more)

EventsOf(t, i) ==
    CASE t.act = "none"     -> <<Observed(t)>>
      [] t.act = "say"      -> <<Event("say", t.key, 0, 0), Event("user", 1, 0, 0),
                                 Event("recall", 1, 0, 0)>>
      [] t.act = "condense" -> <<Event("condense", i, 0, 0)>>
      [] OTHER -> <<Event(t.act, t.key, 0, IF t.act = "edit" THEN t.more ELSE 0), Observed(t)>>

history == Opening \o FlattenSeq([i \in DOMAIN turns |-> EventsOf(turns[i], i)])

-----------------------------------------------------------------------------
(* The scenarios.  The last n events of some kinds, oldest first. *)

LastOf(h, kinds, n) ==
    LET s == SelectSeq(h, LAMBDA e : e.kind \in kinds)
    IN SubSeq(s, IF Len(s) > n THEN Len(s) - n + 1 ELSE 1, Len(s))

\* User messages are filtered out in headless mode.
Filtered(h) == SelectSeq(h, LAMBDA e : e.kind # "user")

\* Mutant: the whole event is compared, the output of a command included.
EqNoPid_Whole(x, y) == x = y

\* _eq_no_pid: edits by their first three lines, and never when they have fewer;
\* outputs by command and exit code; everything else by what it holds.
EqNoPid(x, y) ==
    CASE x.kind = "short" /\ y.kind \in {"short", "edit"} -> FALSE
      [] x.kind = y.kind /\ x.kind = "edit"   -> x.key = y.key
      [] x.kind = y.kind /\ x.kind = "output" -> x.key = y.key /\ x.val = y.val
      [] OTHER -> x = y

AllEq(s) == \A i \in DOMAIN s : EqNoPid(s[Len(s)], s[i])

\* Scenario 1: the last n actions are the same, and the last n observations.
RepeatingActionObservation(h, n) ==
    LET as == LastOf(h, ActionKinds, n)
        os == LastOf(h, ObservationKinds, n)
    IN Len(as) = n /\ Len(os) = n /\ AllEq(as) /\ AllEq(os)

\* _check_for_consistent_line_error, _check_for_consistent_invalid_syntax: n
\* cells that fail with the same syntax error on the same line.
ConsistentErrors(os, n) ==
    Len(os) = n /\ \A i \in DOMAIN os : os[i].val # 0 /\ os[i].val = os[1].val

FailingAlike(os, n) ==
    \/ \A i \in DOMAIN os : os[i].kind = "error"
    \/ (\A i \in DOMAIN os : os[i].kind = "cell") /\ ConsistentErrors(os, n)

\* Scenario 2: the last three actions are the same and all of them failed.
RepeatingActionError(h) ==
    LET as == LastOf(h, ActionKinds, 3)
        os == LastOf(h, ObservationKinds, 3)
    IN Len(as) = 3 /\ Len(os) = 3 /\ AllEq(as) /\ FailingAlike(os, 3)

\* Scenario 2 of the strict detector: the last two, or as many as there are.
StrictActionError(h) ==
    LET as == LastOf(h, ActionKinds, 2)
        os == LastOf(h, ObservationKinds, 2)
    IN AllEq(as) /\ FailingAlike(os, 2)

\* Scenario 3: the last n messages of the agent are the same, and nothing was
\* observed between them.
Monologue(h, n) ==
    LET said == {i \in DOMAIN h : h[i].kind = "say"}
        last == {i \in said : Cardinality({j \in said : j > i}) < n}
    IN /\ Cardinality(last) = n
       /\ \A i, j \in last : h[i] = h[j]
       /\ \A k \in DOMAIN h :
             h[k].kind \in ObservationKinds => ~\E i, j \in last : i < k /\ k < j

\* Scenario 4: two actions and their observations in turn, three times.
ActionObservationPattern(h) ==
    LET as == LastOf(h, ActionKinds, 6)
        os == LastOf(h, ObservationKinds, 6)
        alternates(s) == \A i \in 1..6 : EqNoPid(s[IF i % 2 = 0 THEN 6 ELSE 5], s[i])
    IN Len(as) = 6 /\ Len(os) = 6 /\ alternates(as) /\ alternates(os)

\* The strict detector's last scenario: the last two actions only talk.
UselessAction(h) ==
    \A i \in DOMAIN LastOf(h, ActionKinds, 2) :
        LastOf(h, ActionKinds, 2)[i].kind \in {"say", "think"}

\* StuckDetector.is_stuck.
IsStuck(full) ==
    LET h == Filtered(full)
    IN /\ Len(h) >= 3
       /\ \/ RepeatingActionObservation(h, 4)
          \/ RepeatingActionError(h)
          \/ Monologue(h, 3)
          \/ ActionObservationPattern(h)

\* StrictStuckDetector.is_stuck.
IsStrictlyStuck(full) ==
    LET h == Filtered(full)
    IN /\ Len(h) >= 2
       /\ \/ UselessAction(h)
          \/ RepeatingActionObservation(h, 2)
          \/ StrictActionError(h)
          \/ Monologue(h, 2)
          \/ ActionObservationPattern(h)

-----------------------------------------------------------------------------
(* The run. *)

Init ==
    /\ menu \in Menus
    /\ strict \in BOOLEAN
    /\ turns = <<>>
    /\ judged = FALSE

Stuck == IF strict THEN IsStrictlyStuck(history) ELSE IsStuck(history)

\* _step, when the detector sees no loop: the turn the agent takes.
TakeTurn(t) ==
    /\ ~judged
    /\ Len(turns) < MaxTurns
    /\ ~Stuck
    /\ turns' = Append(turns, t)
    /\ UNCHANGED <<menu, strict, judged>>

\* _step, when it does: AgentStuckInLoopError.
Judge ==
    /\ ~judged
    /\ Stuck
    /\ judged' = TRUE
    /\ UNCHANGED <<menu, strict, turns>>

Next ==
    \/ \E t \in menu : TakeTurn(t)
    \/ Judge

-----------------------------------------------------------------------------
\* Every turn comes from the menu, and the run ends with the verdict.
TypeOK ==
    /\ menu \in Menus
    /\ strict \in BOOLEAN
    /\ turns \in Seq(menu) /\ Len(turns) <= MaxTurns
    /\ judged \in BOOLEAN

(* What the detector is for, stated about turns. *)

\* Turns with an action whose observation shows how it went.
Acts(t) == t.act \in {"cmd", "edit", "think"}

SameAction(x, y) == x.act = y.act /\ x.key = y.key

SameTurn(x, y) ==
    SameAction(x, y) /\ x.obs = y.obs /\ (x.obs \in {"output", "error"} => x.val = y.val)
                     /\ (x.obs = "cell" => x.val = y.val /\ x.more = y.more)

FailsAlike(x, y) ==
    SameAction(x, y) /\ x.obs = y.obs
    /\ (x.obs = "error" \/ (x.obs = "cell" /\ x.val = y.val /\ x.val # 0))

\* The turns i+1 .. i+n repeat one.
Repeats(i, n, Same(_, _)) == \A j \in i + 1..i + n : Same(turns[i + 1], turns[j])

\* An agent that only repeats itself is stopped in time: no step follows four
\* turns that are the same (two, for the strict detector), three that fail in
\* the same way (two), three messages that are the same (two), or two turns
\* taken in alternation three times.  The output of a command and the rest of an
\* edit may vary.  (StuckDetector.is_stuck and StrictStuckDetector.is_stuck, whose
\* windows are over events that need not belong together.)
LoopsCut ==
    \A i \in 0..Len(turns) - 1 : \A n \in 2..6 : i + n < Len(turns) =>
        LET all(P(_)) == \A j \in i + 1..i + n : P(turns[j])
        IN /\ n = (IF strict THEN 2 ELSE 4) /\ all(Acts) => ~Repeats(i, n, SameTurn)
           /\ n = (IF strict THEN 2 ELSE 3) /\ all(Acts) => ~Repeats(i, n, FailsAlike)
           /\ n = (IF strict THEN 2 ELSE 3) /\ all(LAMBDA t : t.act = "say")
                 => ~Repeats(i, n, SameAction)
           /\ n = 6 /\ all(Acts)
                 => ~\A j \in i + 3..i + 6 : SameTurn(turns[j], turns[j - 2])

\* A run that gets somewhere is not stopped: the agent is judged stuck only when,
\* answers that could not be parsed and condensations aside, it has just repeated
\* an action (three times; for the strict detector twice, and any two thoughts
\* count), or has alternated between two actions three times.  (An observation
\* between two messages, or a different action between two failures, is
\* progress: _is_stuck_monologue, _is_stuck_repeating_action_error.)
AlarmFounded ==
    judged =>
        LET done == SelectSeq(turns, LAMBDA t : t.act \notin {"none", "condense"})
            last == Len(done)
            n    == IF strict THEN 2 ELSE 3
        IN \/ /\ last >= n
              /\ \A j \in last - n + 1..last :
                    \/ SameAction(done[j], done[last])
                    \/ strict /\ done[j].act = "think" /\ done[last].act = "think"
           \/ /\ last >= 6
              /\ \A j \in last - 3..last : SameAction(done[j], done[j - 2])

\* Training is never more lenient: whatever history the default detector stops,
\* the strict one stops too.  (It overrides four scenarios and inherits one.)
StrictFlagsMore == IsStuck(history) => IsStrictlyStuck(history)
==============================================================================
