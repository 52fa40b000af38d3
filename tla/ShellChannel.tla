---------------------------- MODULE ShellChannel ----------------------------
(***************************************************************************)
(* The OSC 133 command boundary protocol of session_manager.py on the one  *)
(* PTY channel of a persistent shell session: bootstrap_osc133,            *)
(* execute_in_session, _soft_cancel, _await_next_done and set_env.         *)
(*                                                                         *)
(* The shell reads the lines written to it one after the other and emits a *)
(* D marker before every prompt.  The lines are numbered in the order they *)
(* are written, and a marker carries the number of its line, so that the   *)
(* properties can tell whose marker a command was answered with; the code  *)
(* sees no number.  Output text is left out, except the readiness marker   *)
(* and interactive prompts.  A read returns any non-empty prefix of what   *)
(* the shell has sent: a chunk.                                            *)
(***************************************************************************)
EXTENDS Integers, FiniteSets, Sequences

CONSTANTS
    Callers,        \* remote_shell requests on this session
    ScriptLines,    \* lines of the integration script that end in a prompt
    SttyLine,       \* the one that runs "stty -echo"
    QuietIsIdle,    \* BOOT_QUIET without output means the script has run
    MaxLines,       \* bound: lines written, bootstrap included
    MaxCancels,     \* bound: requests cancelled by their client
    MaxEnvs         \* bound: calls of set_env

ASSUME ChannelAssumption ==
    /\ ScriptLines \in Nat /\ SttyLine \in 1 .. ScriptLines
    /\ QuietIsIdle \in BOOLEAN
    /\ MaxLines \in Nat /\ ScriptLines <= MaxLines /\ MaxCancels \in Nat /\ MaxEnvs \in Nat

VARIABLES
    stage,          \* bootstrap: drain, marker, ready; lost: session dropped
    seen,           \* the bootstrap has read the readiness marker
    written,        \* lines written so far
    input,          \* lines the shell has not started
    running,        \* line the shell executes, 0 at the prompt
    prompted,       \* the running command has asked for input
    interrupt,      \* a Ctrl-C is on its way, behind this many lines; 0: none
    echo,           \* the PTY echoes its input
    stream,         \* what the shell has sent and nobody has read
    exec,           \* where each caller is
    answer,         \* line whose marker answered each command
    strays,         \* markers the protocol has no reader for
    cancels, envs

bootVars == <<stage, seen, echo>>
shellVars == <<input, running, prompted, interrupt, stream>>
vars == <<bootVars, written, shellVars, exec, answer, strays, cancels, envs>>

Lines == 1 .. MaxLines
MarkerLine == ScriptLines + 1

D(line) == [mark |-> "D", of |-> line]
Ready == [mark |-> "ready", of |-> 0]
Prompt == [mark |-> "prompt", of |-> 0]
Items == {D(n) : n \in Lines \cup {0}} \cup {Ready, Prompt}

IsD(item) == item.mark = "D"
IdleExec == [at |-> "idle"]

\* waiting: for _read_lock.  reading: in _execute_locked, with prompt_deadline
\* set or not.  recovering: sent Ctrl-C, in _await_next_done.
Exec == [at : {"waiting"}] \cup [at : {"reading"}, line : Lines, wedged : BOOLEAN]
                           \cup [at : {"recovering"}, line : Lines]

OnChannel(c) == exec[c].at \in {"reading", "recovering"}

\* Types; and one caller at a time is on the channel.
ChannelTypeOK ==
    /\ stage \in {"drain", "marker", "ready", "lost"}
    /\ seen \in BOOLEAN /\ prompted \in BOOLEAN /\ echo \in BOOLEAN
    /\ written \in 0 .. MaxLines /\ interrupt \in 0 .. MaxLines
    /\ input \in Seq(Lines)
    /\ running \in Lines \cup {0}
    /\ stream \in Seq(Items)
    /\ exec \in [Callers -> {IdleExec} \cup Exec]
    /\ answer \in [Lines -> Lines \cup {0, MaxLines + 1}]
    /\ strays \in Nat /\ cancels \in 0 .. MaxCancels /\ envs \in 0 .. MaxEnvs
    /\ \A c, d \in Callers : OnChannel(c) /\ OnChannel(d) => c = d

Unanswered == MaxLines + 1

\* bootstrap_osc133 has written the integration script.
Init ==
    /\ stage = "drain" /\ seen = FALSE /\ echo = TRUE
    /\ written = ScriptLines
    /\ input = [i \in 1 .. ScriptLines |-> i]
    /\ running = 0 /\ prompted = FALSE /\ interrupt = 0
    /\ stream = <<>>
    /\ exec = [c \in Callers |-> IdleExec]
    /\ answer = [n \in Lines |-> Unanswered]
    /\ strays = 0 /\ cancels = 0 /\ envs = 0

\* stdin.write of one line.
Write ==
    /\ written < MaxLines
    /\ written' = written + 1
    /\ input' = Append(input, written + 1)

\* A chunk of n items is read; whether it has a D, and where its first one is.
Take(n) == stream' = SubSeq(stream, n + 1, Len(stream))
HasD(n) == \E i \in 1 .. n : IsD(stream[i])
FirstD(i) == IsD(stream[i]) /\ \A j \in 1 .. i - 1 : ~IsD(stream[j])

-----------------------------------------------------------------------------
(* The remote shell and its PTY.                                           *)

\* Input arrives in order: no line overtakes a Ctrl-C.
StartLine ==
    /\ running = 0
    /\ input # <<>>
    /\ interrupt # 0 => Head(input) <= interrupt
    /\ running' = Head(input)
    /\ input' = Tail(input)
    /\ UNCHANGED <<bootVars, written, prompted, interrupt, stream, exec, answer,
                   strays, cancels, envs>>

\* The line ends and the prompt hook prints D.
FinishLine ==
    /\ running # 0
    /\ stream' = Append(IF running = MarkerLine THEN Append(stream, Ready) ELSE stream,
                        D(running))
    /\ echo' = (echo /\ running # SttyLine)
    /\ running' = 0
    /\ prompted' = FALSE
    /\ UNCHANGED <<stage, seen, written, input, interrupt, exec, answer,
                   strays, cancels, envs>>

\* A command reads from the terminal (or merely prints such a text).
AskForInput ==
    /\ running > MarkerLine
    /\ ~prompted
    /\ prompted' = TRUE
    /\ stream' = Append(stream, Prompt)
    /\ UNCHANGED <<bootVars, written, input, running, interrupt, exec, answer,
                   strays, cancels, envs>>

\* Ctrl-C ends the foreground command, or is ignored by it.
InterruptCommand ==
    /\ interrupt # 0
    /\ running # 0
    /\ interrupt' = 0
    /\ \/ /\ running' = 0
          /\ prompted' = FALSE
          /\ stream' = Append(stream, D(running))
       \/ UNCHANGED <<running, prompted, stream>>
    /\ UNCHANGED <<bootVars, written, input, exec, answer, strays, cancels, envs>>

\* At the prompt, where the command has just ended by itself, it makes the
\* shell print a new prompt, with the hook and its D.
InterruptPrompt ==
    /\ interrupt # 0
    /\ running = 0
    /\ \A i \in 1 .. Len(input) : input[i] > interrupt
    /\ interrupt' = 0
    /\ stream' = Append(stream, D(0))
    /\ strays' = strays + 1
    /\ UNCHANGED <<bootVars, written, input, running, prompted, exec, answer,
                   cancels, envs>>

-----------------------------------------------------------------------------
(* bootstrap_osc133.                                                       *)

\* _drain_until_quiet discards what comes.
DrainScript ==
    /\ stage = "drain"
    /\ \E n \in 1 .. Len(stream) : Take(n)
    /\ UNCHANGED <<bootVars, written, input, running, prompted, interrupt, exec,
                   answer, strays, cancels, envs>>

\* Mutant: the marker is written with the script, without the quiet window.
MarkAtOnce ==
    /\ stage = "drain"
    /\ Write
    /\ stage' = "marker"
    /\ stream' = IF echo THEN Append(stream, Ready) ELSE stream
    /\ UNCHANGED <<seen, echo, running, prompted, interrupt, exec, answer,
                   strays, cancels, envs>>

\* A window of BOOT_QUIET without output; then the readiness marker is
\* written, which the PTY repeats if it still echoes.
MarkReady ==
    /\ stage = "drain"
    /\ stream = <<>>
    /\ QuietIsIdle => (input = <<>> /\ running = 0)
    /\ Write
    /\ stage' = "marker"
    /\ stream' = IF echo THEN Append(stream, Ready) ELSE stream
    /\ UNCHANGED <<seen, echo, running, prompted, interrupt, exec, answer,
                   strays, cancels, envs>>

\* Read until a D follows the marker text.
ReadReady ==
    /\ stage = "marker"
    /\ \E n \in 1 .. Len(stream) :
         LET Follows(i) == seen \/ \E j \in 1 .. i - 1 : stream[j] = Ready
         IN  /\ Take(n)
             /\ seen' = (seen \/ \E i \in 1 .. n : stream[i] = Ready)
             /\ stage' = IF \E i \in 1 .. n : IsD(stream[i]) /\ Follows(i)
                         THEN "ready" ELSE "marker"
    /\ UNCHANGED <<echo, written, input, running, prompted, interrupt, exec,
                   answer, strays, cancels, envs>>

-----------------------------------------------------------------------------
(* execute_in_session.                                                     *)

Execute(c) ==
    /\ stage = "ready"
    /\ exec[c] = IdleExec
    /\ exec' = [exec EXCEPT ![c] = [at |-> "waiting"]]
    /\ UNCHANGED <<bootVars, written, shellVars, answer, strays, cancels, envs>>

\* Mutant: the read lock is not taken.
Unserialized == stage # "lost"

ReadLockFree == \A c \in Callers : ~OnChannel(c)

\* The command is written under the lock.
WriteCommand(c) ==
    /\ stage = "ready"
    /\ exec[c].at = "waiting"
    /\ ReadLockFree
    /\ Write
    /\ exec' = [exec EXCEPT ![c] = [at |-> "reading", line |-> written + 1, wedged |-> FALSE]]
    /\ UNCHANGED <<bootVars, running, prompted, interrupt, stream, answer, strays,
                   cancels, envs>>

\* A chunk with a D: the first one is the command's answer, and what the
\* chunk holds behind it is gone with the buffer.
ReadAnswer(c) ==
    /\ stage = "ready"
    /\ exec[c].at = "reading"
    /\ \E n \in 1 .. Len(stream) : \E i \in 1 .. n :
         /\ FirstD(i)
         /\ Take(n)
         /\ answer' = [answer EXCEPT ![exec[c].line] = stream[i].of]
    /\ exec' = [exec EXCEPT ![c] = IdleExec]
    /\ UNCHANGED <<bootVars, written, input, running, prompted, interrupt,
                   strays, cancels, envs>>

\* One without: an interactive prompt in it starts the grace period.
ReadOutput(c) ==
    /\ stage = "ready"
    /\ exec[c].at = "reading"
    /\ \E n \in 1 .. Len(stream) :
         /\ ~HasD(n)
         /\ Take(n)
         /\ exec' = [exec EXCEPT ![c].wedged = @ \/ \E i \in 1 .. n : stream[i] = Prompt]
    /\ UNCHANGED <<bootVars, written, input, running, prompted, interrupt,
                   answer, strays, cancels, envs>>

\* Mutant: a timed-out command just returns.
ReturnAtTimeout(c) ==
    /\ exec' = [exec EXCEPT ![c] = IdleExec]
    /\ interrupt' = interrupt

\* Ctrl-C, then wait for the next D.
SendInterrupt(c) ==
    /\ exec' = [exec EXCEPT ![c] = [at |-> "recovering", line |-> exec[c].line]]
    /\ interrupt' = written

\* The deadline of the command passes.
TimeOut(c) ==
    /\ stage = "ready"
    /\ exec[c].at = "reading"
    /\ SendInterrupt(c)
    /\ UNCHANGED <<bootVars, written, input, running, prompted, stream, answer,
                   strays, cancels, envs>>

\* The grace period of an interactive prompt passes without a D.
SoftCancel(c) ==
    /\ stage = "ready"
    /\ exec[c].at = "reading"
    /\ exec[c].wedged
    /\ SendInterrupt(c)
    /\ UNCHANGED <<bootVars, written, input, running, prompted, stream, answer,
                   strays, cancels, envs>>

\* _await_next_done: any D proves that the shell is back at its prompt.
AwaitNextDone(c) ==
    /\ stage = "ready"
    /\ exec[c].at = "recovering"
    /\ \E n \in 1 .. Len(stream) :
         /\ Take(n)
         /\ exec' = IF HasD(n) THEN [exec EXCEPT ![c] = IdleExec] ELSE exec
    /\ UNCHANGED <<bootVars, written, input, running, prompted, interrupt,
                   answer, strays, cancels, envs>>

\* No D within SOFT_CANCEL_TIMEOUT: the session is invalidated.
NotRecovered(c) ==
    /\ stage = "ready"
    /\ exec[c].at = "recovering"
    /\ stage' = "lost"
    /\ exec' = [exec EXCEPT ![c] = IdleExec]
    /\ UNCHANGED <<seen, echo, written, shellVars, answer, strays, cancels, envs>>

\* The channel ends, or the bootstrap runs into its deadline.
Lost ==
    /\ stage # "lost"
    /\ stage' = "lost"
    /\ exec' = [c \in Callers |-> IdleExec]
    /\ UNCHANGED <<seen, echo, written, shellVars, answer, strays, cancels, envs>>

\* The client cancels the request: CancelledError leaves the read lock, and
\* the command goes on without a reader.
Cancel(c) ==
    /\ cancels < MaxCancels
    /\ cancels' = cancels + 1
    /\ exec[c] # IdleExec
    /\ strays' = IF OnChannel(c) THEN strays + 1 ELSE strays
    /\ exec' = [exec EXCEPT ![c] = IdleExec]
    /\ UNCHANGED <<bootVars, written, shellVars, answer, envs>>

\* set_env writes an export line without the read lock and reads nothing.
SetEnv ==
    /\ stage = "ready"
    /\ envs < MaxEnvs
    /\ envs' = envs + 1
    /\ Write
    /\ strays' = strays + 1
    /\ UNCHANGED <<bootVars, running, prompted, interrupt, stream, exec, answer, cancels>>

Next ==
    \/ StartLine \/ FinishLine \/ AskForInput \/ InterruptCommand \/ InterruptPrompt
    \/ DrainScript \/ MarkReady \/ ReadReady
    \/ \E c \in Callers :
         \/ Execute(c) \/ WriteCommand(c) \/ ReadAnswer(c) \/ ReadOutput(c)
         \/ TimeOut(c) \/ SoftCancel(c) \/ AwaitNextDone(c) \/ NotRecovered(c)
         \/ Cancel(c)
    \/ SetEnv
    \/ Lost

Spec == Init /\ [][Next]_vars

-----------------------------------------------------------------------------
(* Properties.                                                             *)

\* Markers sent and unread, or still to come from the lines written.
Unread == {i \in 1 .. Len(stream) : IsD(stream[i])}
Outstanding == Cardinality(Unread) + Len(input) + (IF running = 0 THEN 0 ELSE 1)
Readers == IF \E c \in Callers : OnChannel(c) THEN 1 ELSE 0

\* From the end of the bootstrap on the shell owes at most one marker to the
\* command on the channel and one to every stray; so without strays a command
\* that gets the lock finds a silent channel, also after a recovered timeout
\* ("the session is safe to reuse", _execute_locked).
OwesOnlyReaders == stage = "ready" => Outstanding <= Readers + strays

\* A command is answered by its own marker, or by one that is late by no more
\* lines than there were strays: each stray shifts the answers by one, and no
\* answer comes from a later command.
LagBounded ==
    \A n \in Lines :
        \/ answer[n] = Unanswered
        \/ answer[n] = 0 /\ strays > 0
        \/ answer[n] \in 1 .. n /\ n <= answer[n] + strays

\* Every command is answered by its own marker: no concurrent or later call
\* takes another's D ("its late output and OSC-133 D would bleed into the
\* NEXT command", _execute_locked).
Attributed == \A n \in Lines : answer[n] \in {n, Unanswered}
=============================================================================
