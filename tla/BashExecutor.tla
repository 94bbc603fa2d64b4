----------------------------- MODULE BashExecutor -----------------------------
(***************************************************************************)
(* The shell tool (internal/tools/bash.go): a command writes to two pipes  *)
(* of bounded size, each read by a goroutine that stops at a limit; the     *)
(* call waits for both readers and then for the command.                    *)
(***************************************************************************)
EXTENDS Integers, FiniteSets

CONSTANTS Shells,          \* goroutines that call Execute
          PipeSize,        \* lines a pipe holds
          MaxOutputSize,   \* lines a reader keeps before it stops
          MaxWritten       \* bound: lines a command writes to a stream

ASSUME BashAssumption == {PipeSize, MaxOutputSize, MaxWritten} \subseteq Nat

Streams == {"stdout", "stderr"}

VARIABLES shell,     \* the call each of them is in
          command,   \* its command: "none", "running" or "dead"; a descendant may
                     \* outlive it and hold the pipes
          pipe,      \* lines in each pipe of each command
          reader     \* streamReader of each pipe: lines kept, and whether it reads

bashVars == <<shell, command, pipe, reader>>

NoCommand == [state |-> "none", holder |-> FALSE, written |-> [s \in Streams |-> 0]]

BashInit ==
    /\ shell = [c \in Shells |-> "idle"]
    /\ command = [c \in Shells |-> NoCommand]
    /\ pipe = [c \in Shells |-> [s \in Streams |-> 0]]
    /\ reader = [c \in Shells |-> [s \in Streams |-> [pc |-> "none", kept |-> 0]]]

\* The command passes validateCommandSecurity and starts, with its readers; what is
\* refused or does not start leaves nothing behind.
ExecuteShell(c) ==
    /\ shell[c] \in {"idle", "returned"}
    /\ shell' = [shell EXCEPT ![c] = "reading"]
    /\ command' = [command EXCEPT ![c] = [NoCommand EXCEPT !.state = "running"]]
    /\ pipe' = [pipe EXCEPT ![c] = [s \in Streams |-> 0]]
    /\ reader' = [reader EXCEPT ![c] = [s \in Streams |-> [pc |-> "reading", kept |-> 0]]]

\* The command writes a line, and blocks while the pipe is full.
WriteLine(c) ==
    \E s \in Streams :
        /\ command[c].state = "running" /\ pipe[c][s] < PipeSize
        /\ command[c].written[s] < MaxWritten
        /\ command' = [command EXCEPT ![c].written[s] = @ + 1]
        /\ pipe' = [pipe EXCEPT ![c][s] = @ + 1]
        /\ UNCHANGED <<shell, reader>>

\* It exits, or is killed by its time limit or interrupted; a descendant that holds
\* the pipes may live on.
CommandEnds(c) ==
    \E holder \in BOOLEAN :
        /\ command[c].state = "running"
        /\ command' = [command EXCEPT ![c].state = "dead", ![c].holder = holder]
        /\ UNCHANGED <<shell, pipe, reader>>

HolderEnds(c) ==
    /\ command[c].holder
    /\ command' = [command EXCEPT ![c].holder = FALSE]
    /\ UNCHANGED <<shell, pipe, reader>>

Held(c) == command[c].state = "running" \/ command[c].holder

\* streamReader keeps a line, and stops above the limit.
StreamReader(c) ==
    \E s \in Streams :
        /\ reader[c][s].pc = "reading" /\ pipe[c][s] > 0
        /\ pipe' = [pipe EXCEPT ![c][s] = @ - 1]
        /\ reader' = [reader EXCEPT ![c][s] =
             [pc   |-> IF @.kept + 1 > MaxOutputSize THEN "truncated" ELSE "reading",
              kept |-> @.kept + 1]]
        /\ UNCHANGED <<shell, command>>

\* The scanner gives up on a line that is too long for its buffer.
ScannerFails(c) ==
    \E s \in Streams :
        /\ reader[c][s].pc = "reading" /\ pipe[c][s] > 0
        /\ reader' = [reader EXCEPT ![c][s].pc = "truncated"]
        /\ UNCHANGED <<shell, command, pipe>>

\* It meets the end of the output when nobody holds the pipe.
EndOfOutput(c) ==
    \E s \in Streams :
        /\ reader[c][s].pc = "reading" /\ pipe[c][s] = 0 /\ ~ Held(c)
        /\ reader' = [reader EXCEPT ![c][s].pc = "ended"]
        /\ UNCHANGED <<shell, command, pipe>>

\* Mutant: the call waits for the command and not for the readers.
WaitsForCommand(c) ==
    /\ shell[c] = "reading" /\ command[c].state = "dead"
    /\ shell' = [shell EXCEPT ![c] = "returned"]
    /\ UNCHANGED <<command, pipe, reader>>

\* wg.Wait, cmd.Wait, and the return.
ReturnOutput(c) ==
    /\ shell[c] = "reading" /\ command[c].state = "dead"
    /\ \A s \in Streams : reader[c][s].pc /= "reading"
    /\ shell' = [shell EXCEPT ![c] = "returned"]
    /\ UNCHANGED <<command, pipe, reader>>

BashNext ==
    \E c \in Shells :
        \/ ExecuteShell(c) \/ WriteLine(c) \/ CommandEnds(c) \/ HolderEnds(c)
        \/ StreamReader(c) \/ ScannerFails(c) \/ EndOfOutput(c) \/ ReturnOutput(c)

-----------------------------------------------------------------------------
\* A call that returns has kept every line its command wrote, unless the reader of
\* that stream stopped at a limit: the end of the command is not the end of its
\* output.
OutputIsComplete ==
    \A c \in Shells, s \in Streams :
        shell[c] = "returned" =>
            reader[c][s].kept = command[c].written[s] \/ reader[c][s].pc = "truncated"
=============================================================================
