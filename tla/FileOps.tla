------------------------------- MODULE FileOps -------------------------------
(***************************************************************************)
(* Reading, writing and editing a file (internal/tools/file_ops.go): an     *)
(* overwriting call copies the file to a backup named after the second,     *)
(* truncates it and writes, and copies the backup back if that fails.       *)
(* A text is a sequence of characters.                                      *)
(***************************************************************************)
EXTENDS Integers, SequencesExt

CONSTANTS Texts,      \* what is written, and what the file may hold at first
          Edits,      \* records, see EditRecord
          NoFile,     \* the file does not exist
          MaxSecond,  \* bound: seconds
          MaxCalls,   \* bound: calls
          MaxFaults   \* bound: failed system calls and crashes

LineBreak == "\n"
Characters == {"a", "A", "b", " ", LineBreak}

\* An edit of the tool, its parameters checked.
EditRecord ==
    {e \in [operation : {"replace", "insert_line", "delete_line", "prepend", "append"},
            find : Seq(Characters), replace : Seq(Characters), sensitive : BOOLEAN, whole : BOOLEAN,
            max : Int, text : Seq(Characters), line : Nat] :
        /\ e.operation = "replace" => e.find /= <<>>
        /\ e.operation \in {"insert_line", "delete_line"} => e.line >= 1}

ASSUME TextsAssumption ==
    /\ MaxSecond \in Nat \ {0}
    /\ Texts \subseteq Seq(Characters) /\ Edits \subseteq EditRecord

VARIABLES text,     \* the file
          bak,      \* its backups, by second
          second,   \* the clock
          call,     \* the call in progress, or the last one
          faults    \* failures so far

fileVars == <<text, bak, second, call, faults>>

Idle == [pc |-> "idle", number |-> 0, operation |-> "none", before |-> NoFile, new |-> NoFile, stamp |-> 0,
         changes |-> 0, edit |-> [operation |-> "none"], outcome |-> "ok"]

(***************************************************************************)
(* Texts.                                                                  *)
(***************************************************************************)
IsAlphaNumeric(c) == c \in {"a", "A", "b"}

\* strings.Split: a line break begins a line, what else there is goes on with the last.
Extended(lines, c) ==
    IF c = LineBreak THEN Append(lines, <<>>) ELSE [lines EXCEPT ![Len(lines)] = Append(@, c)]

Lines(t) ==
    LET Split[p \in 0..Len(t)] == IF p = 0 THEN <<<<>>>> ELSE Extended(Split[p - 1], t[p])
    IN Split[Len(t)]

\* strings.Join.
Joined(lines) ==
    LET UpTo[k \in 0..Len(lines)] ==
            IF k = 0 THEN <<>>
            ELSE IF k = 1 THEN lines[1] ELSE UpTo[k - 1] \o <<LineBreak>> \o lines[k]
    IN UpTo[Len(lines)]

\* Where find next occurs from position p on, 0 if nowhere.
Index(t, find, p) ==
    LET at == {i \in p..Len(t) - Len(find) + 1 : SubSeq(t, i, i + Len(find) - 1) = find}
    IN IF at = {} THEN 0 ELSE CHOOSE i \in at : \A j \in at : i <= j

IsWord(t, i, n) ==
    /\ i = 1 \/ ~ IsAlphaNumeric(t[i - 1])
    /\ i + n > Len(t) \/ ~ IsAlphaNumeric(t[i + n])

\* strings.ToLower, of characters whose other case is as long in bytes.
ToLower(t) == [i \in 1..Len(t) |-> IF t[i] = "A" THEN "a" ELSE t[i]]

Searched(t, e) == IF e.sensitive THEN t ELSE ToLower(t)

\* How far performReplace is: its position, the changes, the text written.
Scan(at, changes, new, ended) == [at |-> at, changes |-> changes, text |-> new, ended |-> ended]

\* The next occurrence is replaced, until there is none or there are enough changes.  An
\* occurrence that is no whole word moves the position behind its first character; what
\* is skipped is not written to the result.
ReplaceNext(t, e, s) ==
    LET i == Index(Searched(t, e), Searched(e.find, e), s.at)
        n == Len(e.find)
    IN IF s.ended THEN s
       ELSE IF (e.max > 0 /\ s.changes >= e.max) \/ i = 0
       THEN Scan(s.at, s.changes, s.text \o SubSeq(t, s.at, Len(t)), TRUE)
       ELSE IF e.whole /\ ~ IsWord(t, i, n) THEN Scan(i + 1, s.changes, s.text, FALSE)
       ELSE Scan(i + n, s.changes + 1, s.text \o SubSeq(t, s.at, i - 1) \o e.replace, FALSE)

PerformReplace(t, e) ==
    LET After[k \in 0..Len(t) + 1] ==
            IF k = 0 THEN Scan(1, 0, <<>>, FALSE) ELSE ReplaceNext(t, e, After[k - 1])
    IN After[Len(t) + 1]

InsertLine(t, n, line) ==
    LET lines == Lines(t) IN Joined(SubSeq(lines, 1, n - 1) \o <<line>> \o SubSeq(lines, n, Len(lines)))

DeleteLine(t, n) == Joined(RemoveAt(Lines(t), n))

\* The edit is refused if its line is not there.
Applies(t, e) ==
    CASE e.operation = "insert_line" -> e.line <= Len(Lines(t)) + 1
      [] e.operation = "delete_line" -> e.line <= Len(Lines(t))
      [] OTHER -> TRUE

ApplyEdit(t, e) ==
    LET One(new) == [text |-> new, changes |-> 1]
    IN CASE e.operation = "replace"     -> PerformReplace(t, e)
         [] e.operation = "insert_line" -> One(InsertLine(t, e.line, e.text))
         [] e.operation = "delete_line" -> One(DeleteLine(t, e.line))
         [] e.operation = "prepend"     -> One(e.text \o <<LineBreak>> \o t)
         [] e.operation = "append"      ->
              One(t \o (IF t = <<>> \/ Last(t) = LineBreak THEN <<>> ELSE <<LineBreak>>)
                    \o e.text \o <<LineBreak>>)

(***************************************************************************)
(* Calls.                                                                  *)
(***************************************************************************)
FileInit ==
    /\ text \in Texts \cup {NoFile}
    /\ bak = [s \in 1..MaxSecond |-> NoFile]
    /\ second = 1
    /\ call = Idle
    /\ faults = 0

\* write_file, overwriting or appending.
WriteFile ==
    \E new \in Texts, createBackup \in BOOLEAN, append \in BOOLEAN :
        /\ call.pc = "idle" /\ call.number < MaxCalls
        /\ call' = [Idle EXCEPT
             !.number = call.number + 1,
             !.pc = IF createBackup /\ text /= NoFile /\ ~ append THEN "backup" ELSE "open",
             !.operation = IF append THEN "append" ELSE "write",
             !.before = text,
             !.new = IF append /\ text /= NoFile THEN text \o new ELSE new]
        /\ UNCHANGED <<text, bak, second, faults>>

\* edit_file: a preview, and an edit that does not apply, change nothing.
EditFile ==
    \E e \in Edits, createBackup \in BOOLEAN :
        /\ call.pc = "idle" /\ call.number < MaxCalls
        /\ text /= NoFile /\ Applies(text, e)
        /\ LET result == ApplyEdit(text, e)
           IN call' = [Idle EXCEPT !.number = call.number + 1,
                                   !.pc = IF createBackup THEN "backup" ELSE "open",
                                   !.operation = "edit", !.before = text, !.edit = e,
                                   !.new = result.text, !.changes = result.changes]
        /\ UNCHANGED <<text, bak, second, faults>>

Fault == faults < MaxFaults /\ faults' = faults + 1

Return(outcome) == [call EXCEPT !.pc = "idle", !.outcome = outcome]

CopyToBackup ==
    /\ call.pc = "backup"
    /\ bak' = [bak EXCEPT ![second] = text]
    /\ call' = [call EXCEPT !.pc = "open", !.stamp = second]
    /\ UNCHANGED <<text, second, faults>>

\* The backup is created before it is filled.
BackupFails ==
    /\ call.pc = "backup" /\ Fault
    /\ bak' \in {bak, [bak EXCEPT ![second] = <<>>]}
    /\ call' = Return("failed")
    /\ UNCHANGED <<text, second>>

\* Opening truncates, unless the call appends.
OpenFile ==
    /\ call.pc = "open"
    /\ text' = IF call.operation = "append" /\ text /= NoFile THEN text ELSE <<>>
    /\ call' = [call EXCEPT !.pc = "write"]
    /\ UNCHANGED <<bak, second, faults>>

\* Mutant: a failure returns at once.
RestoreNothing == call' = Return("failed")

\* After a failure: the backup, if there is one, is copied back.
RestoreOrReturn == call' = IF call.stamp > 0 THEN [call EXCEPT !.pc = "restore"] ELSE Return("failed")

OpenFails ==
    /\ call.pc = "open" /\ Fault
    /\ RestoreOrReturn
    /\ UNCHANGED <<text, bak, second>>

WriteContent ==
    /\ call.pc = "write"
    /\ text' = call.new
    /\ call' = IF call.operation = "edit" THEN Return("ok") ELSE [call EXCEPT !.pc = "sync"]
    /\ UNCHANGED <<bak, second, faults>>

\* A prefix of the content is on disk.
WriteFails ==
    /\ call.pc = "write" /\ Fault
    /\ text' \in {text, SubSeq(call.new, 1, Min({Len(text) + 1, Len(call.new)}))}
    /\ RestoreOrReturn
    /\ UNCHANGED <<bak, second>>

Restore ==
    /\ call.pc = "restore"
    /\ text' = bak[call.stamp]
    /\ call' = Return("failed")
    /\ UNCHANGED <<bak, second, faults>>

RestoreFails ==
    /\ call.pc = "restore" /\ Fault
    /\ text' = <<>>
    /\ call' = Return("unrecoverable")
    /\ UNCHANGED <<bak, second>>

Sync ==
    /\ call.pc = "sync"
    /\ call' = Return("ok")
    /\ UNCHANGED <<text, bak, second, faults>>

SyncFails ==
    /\ call.pc = "sync" /\ Fault
    /\ call' = Return("unsynced")
    /\ UNCHANGED <<text, bak, second>>

\* The program ends in the middle of a call.
Crash ==
    /\ call.pc \in {"open", "write", "restore", "sync"} /\ Fault
    /\ call' = Return("crashed")
    /\ UNCHANGED <<text, bak, second>>

FileTick ==
    /\ second < MaxSecond
    /\ second' = second + 1
    /\ UNCHANGED <<text, bak, call, faults>>

FileNext ==
    \/ WriteFile \/ EditFile \/ CopyToBackup \/ BackupFails \/ OpenFile \/ OpenFails
    \/ WriteContent \/ WriteFails \/ Restore \/ RestoreFails \/ Sync \/ SyncFails
    \/ Crash \/ FileTick

-----------------------------------------------------------------------------
\* When a call that made a backup has ended, the text before it is somewhere: in
\* the file if the call reports a failure to recover from, else in the backup,
\* whichever of its steps failed or was the last one before a crash.
NothingIsLost ==
    call.pc = "idle" /\ call.stamp > 0 =>
        IF call.outcome = "failed" THEN text = call.before ELSE bak[call.stamp] = call.before

\* What an edit does not name it keeps: a replacement changes the length by its
\* occurrences, the lines inserted are those of the text given and without them the text
\* is the one before, and a line deleted can be inserted again, unless it was the only
\* one.  (With whole_words a replacement forgets the text before an occurrence that is no
\* word.)
KeepsTheRest(e, before, new, changes) ==
    LET old   == Lines(before)
        lines == Lines(new)
        after == e.line + Len(Lines(e.text))
    IN CASE e.operation = "replace" /\ ~ e.whole ->
              Len(new) = Len(before) + changes * (Len(e.replace) - Len(e.find))
         [] e.operation = "insert_line" ->
              /\ SubSeq(lines, e.line, after - 1) = Lines(e.text)
              /\ Joined(SubSeq(lines, 1, e.line - 1) \o SubSeq(lines, after, Len(lines))) = before
         [] e.operation = "delete_line" /\ Len(old) > 1 ->
              InsertLine(new, e.line, old[e.line]) = before
         [] OTHER -> TRUE

EditsKeepTheRest ==
    call.operation = "edit" => KeepsTheRest(call.edit, call.before, call.new, call.changes)

\* Neither a failure nor an edit loses text.
TextIsKept == NothingIsLost /\ EditsKeepTheRest
=============================================================================
