----------------------------- MODULE BashSession -----------------------------
(***************************************************************************)
(* EfficientBashSession (runtime/utils/efficient_bash.py): a shell on a    *)
(* pseudo terminal, the task that reads what it prints, and the calls of   *)
(* execute(), one at a time, that write lines to it and wait for a prompt, *)
(* a timeout or a key press to take effect.                                *)
(*                                                                         *)
(* A line written to the terminal has a number.  The shell, when at its    *)
(* prompt, runs the next line; a process that is running may read it as    *)
(* its input.  What is printed is a sequence of pieces of output and of    *)
(* prompts, each with the line that it comes from; the echo of commands    *)
(* and the limit on the length of replies are left out.                    *)
(***************************************************************************)
EXTENDS Integers, Sequences, SequencesExt

CONSTANTS
    MaxLines,   \* bound: lines written
    MaxPieces,  \* bound: pieces of output of one process
    MaxKeys     \* bound: keys sent

VARIABLES
    fg,         \* the line whose process is in the foreground, 0 at the prompt
    typed,      \* lines that nobody has read
    tty,        \* printed and not yet read by the session
    printed,    \* how many pieces the process of each line has printed
    flushed,    \* pieces the terminal has discarded
    buffer,     \* _output_buffer
    ready,      \* _output_ready
    inProgress, current,    \* _command_in_progress, _current_command
    detected, code,         \* _completion_detected, and whose exit code was found
    position,   \* _last_output_position
    waiting,    \* what the call of execute() waits for
    lines, keys,
    reply,      \* the last reply
    shown,      \* the output of the current command that replies have shown
    astray      \* a line or key went to the shell instead of a process, or a
                \* key was given up on

shellVars == <<fg, typed, tty, printed, flushed>>
sessionVars == <<buffer, ready, inProgress, current, detected, code, position>>
clientVars == <<waiting, lines, keys, reply, shown, astray>>
bashVars == <<shellVars, sessionVars, clientVars>>

Line == 1..MaxLines

Piece(line, k) == [kind |-> "output", of |-> line, k |-> k]

Prompt(line) == [kind |-> "prompt", of |-> line, k |-> 0]

Reply(kind, of) == [kind |-> kind, code |-> of]

Prompts(s) == {i \in DOMAIN s : s[i].kind = "prompt"}

LastPrompt(s) == CHOOSE i \in Prompts(s) : \A j \in Prompts(s) : j <= i

\* matches_ps1_metadata(...)[-1]: whose exit code it is; 0 for no prompt.
CodeOf(s) == IF Prompts(s) = {} THEN 0 ELSE s[LastPrompt(s)].of

Init ==
    /\ fg = 0 /\ typed = <<>> /\ tty = <<>> /\ printed = [l \in Line |-> 0] /\ flushed = {}
    /\ buffer = <<>> /\ ready = FALSE /\ inProgress = FALSE /\ current = 0
    /\ detected = FALSE /\ code = 0 /\ position = 0
    /\ waiting = "none" /\ lines = 0 /\ keys = 0 /\ reply = Reply("none", 0)
    /\ shown = {} /\ astray = FALSE

-----------------------------------------------------------------------------
(* The shell and its processes. *)

\* The shell runs the next line, whoever it was meant for.
ShellRuns ==
    /\ fg = 0 /\ typed # <<>>
    /\ fg' = Head(typed) /\ typed' = Tail(typed)
    /\ UNCHANGED <<tty, printed, flushed, sessionVars, clientVars>>

ProcessReads ==
    /\ fg # 0 /\ typed # <<>>
    /\ typed' = Tail(typed)
    /\ UNCHANGED <<fg, tty, printed, flushed, sessionVars, clientVars>>

ProcessPrints ==
    /\ fg # 0 /\ printed[fg] < MaxPieces
    /\ printed' = [printed EXCEPT ![fg] = @ + 1]
    /\ tty' = Append(tty, Piece(fg, printed'[fg]))
    /\ UNCHANGED <<fg, typed, flushed, sessionVars, clientVars>>

ProcessEnds ==
    /\ fg # 0
    /\ tty' = Append(tty, Prompt(fg)) /\ fg' = 0
    /\ astray' = (astray \/ typed # <<>>)
    /\ UNCHANGED <<typed, printed, flushed, sessionVars, waiting, lines, keys, reply, shown>>

-----------------------------------------------------------------------------
(* _read_output_continuously: reads until nothing is left before it lets    *)
(* anybody else run, and looks for a prompt.                                *)

Reader ==
    /\ tty # <<>>
    /\ buffer' = buffer \o tty /\ tty' = <<>> /\ ready' = TRUE
    /\ IF inProgress /\ ~detected /\ Prompts(buffer') # {}
       THEN detected' = TRUE /\ code' = CodeOf(buffer')
       ELSE UNCHANGED <<detected, code>>
    /\ UNCHANGED <<fg, typed, printed, flushed, inProgress, current, position, clientVars>>

-----------------------------------------------------------------------------
(* What a reply shows of the buffer. *)

\* _extract_clean_output: up to the first prompt.
CleanOutput(s) == IF Prompts(s) = {} THEN s
                  ELSE SubSeq(s, 1, (CHOOSE i \in Prompts(s) : \A j \in Prompts(s) : i <= j) - 1)

\* _extract_output_content: what is new up to the last prompt, or all that lies
\* between the last two.
Extracted(s, from) ==
    LET new  == SubSeq(s, from + 1, Len(s))
        rest == SubSeq(new, 1, LastPrompt(new) - 1)
    IN IF Prompts(new) = {} THEN new
       ELSE IF from > 0 \/ Prompts(rest) = {} THEN rest
       ELSE SubSeq(rest, LastPrompt(rest) + 1, Len(rest))

Outputs(s) == {s[i] : i \in {j \in DOMAIN s : s[j].kind = "output"}}

Show(s) == shown' = shown \union Outputs(s)

Answer(kind, of, s) == waiting' = "none" /\ reply' = Reply(kind, of) /\ Show(s)

-----------------------------------------------------------------------------
(* execute, up to its first await. *)

Free == waiting = "none"

\* A key is sent: the terminal discards what is under way, a process dies of it
\* or not, and the shell prints a prompt.
Press ==
    /\ keys < MaxKeys /\ keys' = keys + 1
    /\ typed' = <<>> /\ flushed' = flushed \union Outputs(tty)
    /\ \/ fg' = 0 /\ tty' = <<Prompt(fg)>>
       \/ fg # 0 /\ UNCHANGED fg /\ tty' = <<>>
    /\ UNCHANGED printed

\* A new command, while one is in progress: it is not executed, and the output
\* since the last reply is shown, without moving on.
Reject ==
    /\ Free /\ inProgress
    /\ Answer("rejected", -1, SubSeq(buffer, position + 1, Len(buffer)))
    /\ UNCHANGED <<shellVars, sessionVars, lines, keys, astray>>

\* Mutant: the buffer keeps what the last command printed.
Run_KeepBuffer(n) ==
    /\ Free /\ ~inProgress /\ lines < MaxLines
    /\ lines' = lines + 1 /\ current' = lines + 1
    /\ inProgress' = TRUE /\ detected' = FALSE /\ code' = 0
    /\ ready' = FALSE /\ position' = 0
    /\ tty' = SubSeq(tty, n + 1, Len(tty))
    /\ typed' = Append(typed, lines + 1)
    /\ waiting' = "run" /\ shown' = {}
    /\ UNCHANGED <<fg, printed, flushed, buffer, keys, reply, astray>>

\* _execute_new_command: _clear_output_buffer throws away what it can read in
\* one go, and the line is written.
Run(n) ==
    /\ Free /\ ~inProgress /\ lines < MaxLines
    /\ lines' = lines + 1 /\ current' = lines + 1
    /\ inProgress' = TRUE /\ detected' = FALSE /\ code' = 0
    /\ buffer' = <<>> /\ ready' = FALSE /\ position' = 0
    /\ tty' = SubSeq(tty, n + 1, Len(tty))
    /\ typed' = Append(typed, lines + 1)
    /\ waiting' = "run" /\ shown' = {}
    /\ UNCHANGED <<fg, printed, flushed, keys, reply, astray>>

\* A key given as a command: written as it is, and nothing is reset but the
\* buffer and its position.
RunKey ==
    /\ Free /\ ~inProgress
    /\ Press
    /\ inProgress' = TRUE /\ current' = 0
    /\ buffer' = <<>> /\ ready' = FALSE /\ position' = 0
    /\ waiting' = "run" /\ shown' = {} /\ astray' = TRUE
    /\ UNCHANGED <<detected, code, lines, reply>>

\* The empty command asks for more output.
Poll ==
    /\ Free /\ inProgress
    /\ waiting' = "poll"
    /\ UNCHANGED <<shellVars, sessionVars, lines, keys, reply, shown, astray>>

\* _send_input, with text ...
Input ==
    /\ Free /\ inProgress /\ lines < MaxLines
    /\ lines' = lines + 1 /\ typed' = Append(typed, lines + 1)
    /\ astray' = (astray \/ fg = 0)
    /\ waiting' = "input"
    /\ UNCHANGED <<fg, tty, printed, flushed, sessionVars, keys, reply, shown>>

\* ... or with C-c, C-z or C-d.
Interrupt ==
    /\ Free /\ inProgress
    /\ Press
    /\ astray' = (astray \/ fg = 0)
    /\ waiting' = "interrupt"
    /\ UNCHANGED <<sessionVars, lines, reply, shown>>

\* Empty commands and input are refused when nothing is in progress.
Refuse ==
    /\ Free /\ ~inProgress
    /\ reply' = Reply("refused", -1)
    /\ UNCHANGED <<shellVars, sessionVars, waiting, lines, keys, shown, astray>>

-----------------------------------------------------------------------------
(* execute, when its wait is over. *)

\* _handle_completed_command
HandleCompleted ==
    /\ inProgress' = FALSE /\ detected' = FALSE /\ code' = 0
    /\ Answer("completed", code, CleanOutput(buffer))
    /\ UNCHANGED <<shellVars, buffer, ready, current, position, lines, keys, astray>>

\* _wait_for_event_with_timeout clears the event it waits for.
Notice ==
    /\ waiting \in {"run", "poll"} /\ ready
    /\ ready' = FALSE
    /\ UNCHANGED <<shellVars, buffer, inProgress, current, detected, code, position, clientVars>>

RunCompletes == waiting = "run" /\ detected /\ HandleCompleted

\* _handle_timeout_command: the hard timeout is looked at before the prompt.
RunTimesOut ==
    /\ waiting = "run"
    /\ position' = Len(buffer)
    /\ Answer("timeout", -1, CleanOutput(buffer))
    /\ UNCHANGED <<shellVars, buffer, ready, inProgress, current, detected, code, lines, keys,
                   astray>>

\* _get_incremental_output.
PollCompletes ==
    /\ waiting = "poll" /\ detected
    /\ inProgress' = FALSE /\ position' = 0
    /\ Answer("completed", CodeOf(buffer), Extracted(buffer, position))
    /\ UNCHANGED <<shellVars, buffer, ready, current, detected, code, lines, keys, astray>>

PollTimesOut ==
    /\ waiting = "poll" /\ ~detected
    /\ position' = Len(buffer)
    /\ Answer("timeout", -1, Extracted(buffer, position))
    /\ UNCHANGED <<shellVars, buffer, ready, inProgress, current, detected, code, lines, keys,
                   astray>>

\* _send_input and _wait_for_interrupt_completion look at the buffer whenever
\* something was read.
Look ==
    /\ waiting \in {"input", "interrupt"} /\ ready /\ Prompts(buffer) = {}
    /\ ready' = FALSE
    /\ UNCHANGED <<shellVars, buffer, inProgress, current, detected, code, position, clientVars>>

InputCompletes ==
    /\ waiting = "input" /\ ready /\ Prompts(buffer) # {}
    /\ inProgress' = FALSE /\ detected' = FALSE /\ code' = 0 /\ ready' = FALSE
    /\ Answer("completed", code, CleanOutput(buffer))
    /\ UNCHANGED <<shellVars, buffer, current, position, lines, keys, astray>>

\* _get_current_output, ten seconds later: what follows the last prompt.
InputGivesUp ==
    /\ waiting = "input"
    /\ ready' = FALSE
    /\ Answer("timeout", -1,
              IF Prompts(buffer) = {} THEN buffer
              ELSE SubSeq(buffer, LastPrompt(buffer) + 1, Len(buffer)))
    /\ UNCHANGED <<shellVars, buffer, inProgress, current, detected, code, position, lines, keys,
                   astray>>

InterruptCompletes ==
    /\ waiting = "interrupt" /\ ready /\ Prompts(buffer) # {}
    /\ inProgress' = FALSE /\ ready' = FALSE
    /\ Answer("completed", CodeOf(buffer), Extracted(buffer, 0))
    /\ UNCHANGED <<shellVars, buffer, current, detected, code, position, lines, keys, astray>>

\* "The interrupt signal was sent but command may still be running."
InterruptGivesUp ==
    /\ waiting = "interrupt"
    /\ inProgress' = FALSE /\ astray' = TRUE
    /\ Answer("given up", -1, buffer)
    /\ UNCHANGED <<shellVars, buffer, ready, current, detected, code, position, lines, keys>>

Shell == ShellRuns \/ ProcessReads \/ ProcessPrints \/ ProcessEnds

Execute ==
    \/ \E n \in 0..Len(tty) : Run(n)
    \/ RunKey \/ Reject \/ Poll \/ Input \/ Interrupt \/ Refuse

Return ==
    \/ Notice \/ Look
    \/ RunCompletes \/ RunTimesOut \/ PollCompletes \/ PollTimesOut
    \/ InputCompletes \/ InputGivesUp \/ InterruptCompletes \/ InterruptGivesUp

Next == Shell \/ Reader \/ Execute \/ Return

Spec == Init /\ [][Next]_bashVars

-----------------------------------------------------------------------------

\* State constraint: nothing is claimed once something has gone astray.
OnTrack == ~astray

TypeOK ==
    /\ fg \in 0..MaxLines /\ typed \in Seq(Line)
    /\ position \in 0..Len(buffer) /\ current \in 0..lines
    /\ code \in 0..MaxLines /\ (code # 0 => detected)
    /\ waiting \in {"none", "run", "poll", "input", "interrupt"}
    /\ lines \in 0..MaxLines /\ keys \in 0..MaxKeys

\* A reply that a command has completed carries the exit code of that command,
\* unless input or a key reached the shell, or the session gave up on a key.
CodeIsOwn == reply.kind = "completed" /\ waiting = "none" /\ ~astray => reply.code = current

\* When a command is reported as completed, the replies since its start have
\* shown all it printed that the terminal did not discard, whatever timeouts,
\* rejections and inputs came between.
OutputShown ==
    reply.kind = "completed" /\ waiting = "none" /\ ~astray =>
        shown = {Piece(current, k) : k \in 1..printed[current]} \ flushed

\* "You CANNOT send new commands until the previous command is completed."
NeverTwo == [][(waiting = "none" /\ waiting' = "run") => (fg = 0)]_bashVars

\* "Your command is NOT executed. The previous command is still running."
RejectedWhileRunning ==
    [][(reply' # reply /\ reply'.kind = "rejected") => (fg # 0 \/ ~detected)]_bashVars
=============================================================================
