----------------------------- MODULE Confirmation -----------------------------
(***************************************************************************)
(* Commands and file operations that the user confirms on the console      *)
(* (internal/security/confirmation.go, security.go): a request waits for a  *)
(* line of the terminal or for its time limit; its reader goroutine is not  *)
(* stopped by the limit and takes the next line whoever it is meant for.    *)
(***************************************************************************)
EXTENDS Integers, FiniteSets, SequencesExt

CONSTANTS Askers,        \* goroutines that execute commands and file operations
          Operations,    \* records [kind, risk, listed], see RequiresConfirmation
          Lines,         \* what the user may type
          MaxLines,      \* bound: lines typed
          MaxReaders     \* bound: readers started

Risks == {"low", "medium", "high", "critical"}

ASSUME OperationsAssumption ==
    /\ \A op \in Operations : op.kind \in {"command", "file"} /\ op.risk \in Risks
    /\ Lines \subseteq {"", "1", "2", "3", "n", "deny", "other"}
    /\ {MaxLines, MaxReaders} \subseteq Nat

VARIABLES asker,     \* the operation each of them is at
          readers,   \* readers waiting for a line: the request of each
          raced,     \* whether two readers have shared the buffer
          typed,     \* lines typed that no reader has taken yet
          given,     \* lines typed so far
          started    \* readers started so far

confirmVars == <<asker, readers, raced, typed, given, started>>

NoLine == [id |-> 0, text |-> ""]
Unasked == [pc |-> "idle", op |-> [kind |-> "none", risk |-> "low", listed |-> FALSE],
            request |-> 0, input |-> NoLine]

\* A command needs it if the policy lists it, a file operation by its risk.
RequiresConfirmation(op) ==
    IF op.kind = "command" THEN op.listed ELSE op.risk /= "low"

\* The options a request offers: those of a risky command have more to say than
\* "Allow", and a middling command may be reviewed.
Options(op) ==
    CASE op.kind = "command" /\ op.risk \in {"high", "critical"} -> <<"understand", "deny">>
      [] op.kind = "command" /\ op.risk = "medium" -> <<"allow", "deny", "review">>
      [] OTHER -> <<"allow", "deny">>

\* Mutant: the default of a file operation serves commands too.
DefaultOptForAll(op) == IF op.risk \in {"high", "critical"} THEN "deny" ELSE "allow"

DefaultOpt(op) ==
    IF op.kind = "command" \/ op.risk \in {"high", "critical"} THEN "deny" ELSE "allow"

\* The options with a text that contains the line.
Containing(line) ==
    CASE line = "n"    -> {"understand", "deny"}
      [] line = "deny" -> {"deny"}
      [] OTHER         -> {}

\* What the input selects: a number, else the first option that contains it;
\* "invalid" ends the request with an error.
Selected(op, line) ==
    LET options == Options(op)
        Number  == [n \in {"1", "2", "3"} |-> CASE n = "1" -> 1 [] n = "2" -> 2 [] OTHER -> 3]
        match   == SelectInSeq(options, LAMBDA o : o \in Containing(line))
    IN IF line = "" THEN DefaultOpt(op)
       ELSE IF line \in DOMAIN Number /\ Number[line] <= Len(options)
       THEN options[Number[line]]
       ELSE IF match > 0 THEN options[match] ELSE "invalid"

\* Whatever is not a denial is an approval.
Approved(op, line) == Selected(op, line) \notin {"deny", "invalid"}

ConfirmationInit ==
    /\ asker = [a \in Askers |-> Unasked]
    /\ readers = {}
    /\ raced = FALSE
    /\ typed = <<>>
    /\ given = 0
    /\ started = 0

\* The operation is validated; if it needs no confirmation it runs.
ExecuteCommand(a) ==
    \E op \in Operations :
        /\ asker[a].pc = "idle"
        /\ asker' = [asker EXCEPT ![a] =
             [Unasked EXCEPT !.pc = IF RequiresConfirmation(op) THEN "ask" ELSE "running",
                             !.op = op]]
        /\ UNCHANGED <<readers, raced, typed, given, started>>

\* The request is shown and its reader started, beside that of a request that
\* still waits or timed out.
RequestConfirmation(a) ==
    /\ asker[a].pc = "ask" /\ started < MaxReaders
    /\ started' = started + 1
    /\ asker' = [asker EXCEPT ![a].pc = "waiting", ![a].request = started + 1]
    /\ readers' = readers \cup {started + 1}
    /\ raced' = (raced \/ readers /= {})
    /\ UNCHANGED <<typed, given>>

\* The user types a line, at any time.
Type ==
    \E text \in Lines :
        /\ given < MaxLines
        /\ given' = given + 1
        /\ typed' = Append(typed, [id |-> given + 1, text |-> text])
        /\ UNCHANGED <<asker, readers, raced, started>>

\* Readers return the line to their requests, as far as these still wait.
Return(served, line) ==
    /\ readers' = readers \ served
    /\ asker' = [a \in Askers |->
         IF asker[a].pc = "waiting" /\ asker[a].request \in served
         THEN [asker[a] EXCEPT !.pc = "parse", !.input = line] ELSE asker[a]]

\* A reader that has the buffer to itself takes the next line.
ReadLine ==
    /\ ~ raced /\ typed /= <<>>
    /\ \E r \in readers : Return({r}, Head(typed))
    /\ typed' = Tail(typed)
    /\ UNCHANGED <<raced, given, started>>

\* Two that have shared it without a lock leave its positions and its contents
\* undefined: a line reaches none of the readers, one or several of them, whole
\* or as a mixture with the rest of earlier ones, and may be read again.
TornRead ==
    /\ raced /\ given > 0
    /\ \E served \in SUBSET readers, id \in 1..given, text \in Lines :
         Return(served, [id |-> id, text |-> text])
    /\ \/ typed' = typed
       \/ typed /= <<>> /\ typed' = Tail(typed)
    /\ UNCHANGED <<raced, given, started>>

\* The time limit: the default option, and the reader stays.
Timeout(a) ==
    /\ asker[a].pc = "waiting"
    /\ asker' = [asker EXCEPT ![a].pc = "parse", ![a].input = NoLine]
    /\ UNCHANGED <<readers, raced, typed, given, started>>

ParseInput(a) ==
    /\ asker[a].pc = "parse"
    /\ asker' = [asker EXCEPT ![a] = IF Approved(asker[a].op, asker[a].input.text)
                                     THEN [asker[a] EXCEPT !.pc = "running"] ELSE Unasked]
    /\ UNCHANGED <<readers, raced, typed, given, started>>

\* The operation ends, or the resource monitor refuses it.
Finish(a) ==
    /\ asker[a].pc = "running"
    /\ asker' = [asker EXCEPT ![a] = Unasked]
    /\ UNCHANGED <<readers, raced, typed, given, started>>

ConfirmationNext ==
    \/ \E a \in Askers :
         \/ ExecuteCommand(a) \/ RequestConfirmation(a) \/ Timeout(a)
         \/ ParseInput(a) \/ Finish(a)
    \/ Type \/ ReadLine \/ TornRead

-----------------------------------------------------------------------------
\* A command that needs confirmation, or a file operation of high risk, runs only
\* on something read that does not leave it at the default, so that no time limit
\* approves it; and, until two readers have shared the buffer, on a whole line
\* that no other operation runs on.
RunsOnItsOwnLine ==
    \A a \in Askers :
        asker[a].pc = "running" /\ RequiresConfirmation(asker[a].op)
        /\ (asker[a].op.kind = "command" \/ asker[a].op.risk \in {"high", "critical"})
        => /\ asker[a].input.id > 0 /\ asker[a].input.text \notin {"", "deny"}
           /\ ~ raced => \A b \in Askers \ {a} :
                asker[b].pc = "running" => asker[b].input.id /= asker[a].input.id
=============================================================================
