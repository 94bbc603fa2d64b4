------------------------------- MODULE Transfer -------------------------------
(***************************************************************************)
(* Export, import and backups of conversations (internal/ui/export.go,       *)
(* import.go, backup.go).  A text is a sequence of lines and a line a pair   *)
(* <<kind, value>>: plain text, also with blanks before or after it or with *)
(* a CR at its end, or what the Markdown parser takes for a heading, a      *)
(* field, a rule or a fence.                                               *)
(***************************************************************************)
EXTENDS Integers, Sequences, FiniteSets, SequencesExt

CONSTANTS Histories,     \* sequences of conversations there may be
          Selections,    \* filters of an export: statuses, first and last timestamp
          MaxArchives,   \* maxBackups
          MaxBackupTime, \* bound on the seconds in the names of backups
          None

\* A conversation, and a line of its texts.
TextLine == {"text", "indented", "trailing", "return", "blank", "escaped", "heading", "id", "timestamp", "model", "status",
             "user", "assistant", "rule", "fence"} \X STRING
Conversations == [id : STRING, timestamp : Int, model : STRING, status : STRING,
                  user : Seq(TextLine), response : Seq(TextLine), tools : BOOLEAN]

ASSUME TransferAssumption ==
    /\ MaxArchives \in Nat \ {0} /\ MaxBackupTime \in Nat
    /\ None \notin Histories /\ Histories \subseteq Seq(Conversations)

VARIABLES history,      \* the conversations of the program
          exported,     \* the file written last: format, extension, contents, what was selected,
                        \* and whether all of it was written
          imported,     \* result of the last import of that file
          archives,     \* backup directory, by second: conversations and metadata
          backup,       \* the backup being made
          returned,     \* a backup was once complete
          lostBy,       \* what took a complete one away, other than the limit
          clock

exportVars == <<exported, imported>>
archiveVars == <<archives, backup, returned, lostBy, clock>>
transferVars == <<history, exportVars, archiveVars>>

Formats == {"json", "markdown", "csv", "html"}
Now == "now"
NewId == "new"
NoValue == ""

-----------------------------------------------------------------------------
\* The conversations at some places, in their order.
Only(places, h) ==
    LET kept[n \in 0..Len(h)] == IF n = 0 THEN <<>>
                                 ELSE IF n \in places THEN Append(kept[n - 1], h[n]) ELSE kept[n - 1]
    IN kept[Len(h)]

\* Export.
FilterConversations(h, s) ==
    Only({i \in DOMAIN h : /\ s.statuses = {} \/ h[i].status \in s.statuses
                           /\ h[i].timestamp >= s.start /\ h[i].timestamp <= s.end}, h)

BlankLine == <<"blank", NoValue>>
Fence == <<"fence", NoValue>>
Lines(text) == IF text = <<>> THEN <<BlankLine>> ELSE text

\* A conversation in Markdown; the tools follow the response without a section of their own.
MarkdownOf(c, withTools) ==
    <<<<"heading", NoValue>>, BlankLine, <<"id", c.id>>, <<"timestamp", c.timestamp>>, <<"model", c.model>>,
      <<"status", c.status>>, BlankLine, <<"user", NoValue>>, BlankLine, Fence>> \o Lines(c.user)
    \o <<Fence, BlankLine, <<"assistant", NoValue>>, BlankLine>> \o Lines(c.response) \o <<BlankLine>>
    \o (IF withTools /\ c.tools THEN <<<<"text", "tools">>, BlankLine>> ELSE <<>>)
    \o <<<<"rule", NoValue>>, BlankLine>>

ExportToMarkdown(h, withTools) == FlattenSeq([i \in DOMAIN h |-> MarkdownOf(h[i], withTools)])

\* A row of a table: the timestamp in seconds, the texts with their line ends written as \n.
RowOf(c) == [c EXCEPT !.tools = FALSE]

\* The file of an export.
FileOf(selected, f, ext, withTools, metadataOnly) ==
    [format |-> f, extension |-> ext, selected |-> selected, withTools |-> withTools, whole |-> TRUE,
     contents |-> CASE f = "json" -> IF metadataOnly THEN None ELSE selected
                    [] f = "markdown" -> ExportToMarkdown(selected, withTools)
                    [] f = "csv" -> [i \in DOMAIN selected |-> RowOf(selected[i])]
                    [] OTHER -> None]

\* The errors of the writes to a Markdown file, and of the last flush of a table, are
\* dropped: a file that ends after some of its lines or rows is a success as well.  (That
\* lines between others are missing is left out.)
WrittenUpTo(n, file) == [file EXCEPT !.contents = SubSeq(@, 1, n), !.whole = FALSE]

FilesOf(file) ==
    {file} \cup IF file.format \in {"markdown", "csv"}
                THEN {WrittenUpTo(n, file) : n \in 0..(Len(file.contents) - 1)} ELSE {}

\* One export of a behaviour is looked at.
ExportConversations ==
    \E s \in Selections, f \in Formats, ext \in Formats, withTools, metadataOnly \in BOOLEAN :
        LET selected == FilterConversations(history, s)
        IN /\ selected /= <<>> /\ exported = None
           /\ f /= "json" => ~ metadataOnly
           /\ exported' \in FilesOf(FileOf(selected, f, ext, withTools, metadataOnly))
           /\ imported' = None
           /\ UNCHANGED <<history, archiveVars>>

-----------------------------------------------------------------------------
\* Import.
\* strings.TrimSpace takes the blank lines around a text, the blanks before its first line
\* and those after its last one.
WithoutBlankLines(text) ==
    LET inner == {i \in DOMAIN text : text[i] /= BlankLine}
    IN IF inner = {} THEN <<>>
       ELSE SubSeq(text, CHOOSE i \in inner : \A j \in inner : i <= j, CHOOSE i \in inner : \A j \in inner : i >= j)

Bare(kind, line) == IF line[1] = kind THEN <<"text", line[2]>> ELSE line

Trimmed(text) ==
    LET t == WithoutBlankLines(text)
        Start(i) == IF i = 1 THEN Bare("indented", t[i]) ELSE t[i]
    IN [i \in DOMAIN t |-> IF i = Len(t) THEN Bare("trailing", Start(i)) ELSE Start(i)]

\* finalizeMarkdownConversation: an empty text leaves what there was.
Finalize(p) ==
    LET text == Trimmed(p.content)
    IN IF text = <<>> \/ p.section = NoValue THEN p.current
       ELSE IF p.section = "user" THEN [p.current EXCEPT !.user = text] ELSE [p.current EXCEPT !.response = text]

NewConversation == [id |-> NewId, timestamp |-> Now, model |-> NoValue, status |-> "completed",
                    user |-> <<>>, response |-> <<>>, tools |-> FALSE]

\* Mutant: the section that was being read is not taken.
SavedUnfinalized(p) == IF p.started THEN Append(p.conversations, p.current) ELSE p.conversations

Saved(p) == IF p.started THEN Append(p.conversations, Finalize(p)) ELSE p.conversations

\* An empty identifier is not read, and the new one stays.
KeptId(id) == IF id = NoValue THEN NewId ELSE id

NoId(line) == line[1] = "id" /\ line[2] = NoValue

\* The lines of a text that nothing is taken for.
PlainKinds == {"text", "blank", "escaped", "indented", "trailing"}

\* One line.  The two blanks at its end keep an exported timestamp from being parsed; the
\* scanner takes the CR from the end of a line.
MarkdownLine(p, line) ==
    CASE line[1] = "heading" -> [conversations |-> Saved(p), started |-> TRUE, current |-> NewConversation,
                                 section |-> NoValue, content |-> <<>>]
      [] line[1] /= "heading" /\ ~ p.started -> p
      [] p.started /\ line[1] \in {"id", "model", "status"} /\ ~ NoId(line) ->
            [p EXCEPT !.current[line[1]] = line[2]]
      [] p.started /\ line[1] = "timestamp" -> p
      [] p.started /\ line[1] \in {"user", "assistant"} ->
            [p EXCEPT !.current = Finalize(p), !.section = line[1], !.content = <<>>]
      [] p.started /\ (NoId(line) \/ line[1] \in PlainKinds \cup {"rule", "fence", "return"}) ->
            IF \/ line[1] = "rule" \/ p.section = NoValue
               \/ line = BlankLine /\ p.content = <<>>
               \/ line = Fence /\ p.section = "user"
            THEN p ELSE [p EXCEPT !.content = Append(@, Bare("return", line))]

\* The loop of the scanner.
Parsed(p, lines) ==
    LET after[n \in 0..Len(lines)] == IF n = 0 THEN p ELSE MarkdownLine(after[n - 1], lines[n])
    IN after[Len(lines)]

ImportFromMarkdown(lines) ==
    Saved(Parsed([conversations |-> <<>>, started |-> FALSE, current |-> NewConversation,
                  section |-> NoValue, content |-> <<>>], lines))

\* A \n that was in a text becomes the end of a line.
Unescaped(text) == FlattenSeq([i \in DOMAIN text |->
    IF text[i][1] = "escaped" THEN <<<<"text", text[i][2]>>, <<"text", text[i][2]>>>> ELSE <<text[i]>>])

\* A table without rows, or a row without any text, fails the whole import.
ImportFromCSV(rows) ==
    IF rows = <<>> \/ \E i \in DOMAIN rows : rows[i].user = <<>> /\ rows[i].response = <<>> THEN None
    ELSE [i \in DOMAIN rows |->
            [rows[i] EXCEPT !.id = KeptId(@), !.user = Unescaped(@), !.response = Unescaped(@)]]

\* The format JSON is the zero value, for which the extension decides.
FormatRead(file, asked) == IF asked = "json" THEN file.extension ELSE asked

\* Contents in another format do not decode, except that Markdown finds no conversation in
\* them.  (What it finds in HTML is not modelled.)
Decoded(file, asked) ==
    LET f == FormatRead(file, asked)
    IN IF f = "html" THEN None
       ELSE IF f /= file.format THEN IF f = "markdown" /\ file.format /= "html" THEN <<>> ELSE None
       ELSE IF file.contents = None THEN None
       ELSE CASE f = "json" -> file.contents
              [] f = "markdown" -> ImportFromMarkdown(file.contents)
              [] f = "csv" -> ImportFromCSV(file.contents)

ValidateConversation(c) == c.id /= NoValue /\ c.user /= <<>> /\ c.response /= <<>>

ProcessConversation(c, o) ==
    [c EXCEPT !.id = IF o.updateIDs THEN NewId ELSE @, !.timestamp = IF o.preserve THEN @ ELSE Now]

\* Whether to overwrite or to skip duplicates is not looked at.
ImportConversations ==
    \E asked \in Formats, validate, updateIDs, preserve \in BOOLEAN :
        LET o == [asked |-> asked, validate |-> validate, updateIDs |-> updateIDs, preserve |-> preserve]
            read == Decoded(exported, asked)
            accepted == Only({i \in DOMAIN read : validate => ValidateConversation(read[i])}, read)
        IN /\ exported /= None /\ imported = None
           /\ read /= None
           /\ imported' = [options |-> o, total |-> Len(read), errors |-> Len(read) - Len(accepted),
                           conversations |-> [i \in DOMAIN accepted |-> ProcessConversation(accepted[i], o)]]
           /\ UNCHANGED <<history, exported, archiveVars>>

-----------------------------------------------------------------------------
\* Backups.
TransferInit ==
    /\ history \in Histories
    /\ exported = None /\ imported = None
    /\ archives = [s \in {} |-> None]
    /\ backup = [step |-> "none"]
    /\ returned = FALSE /\ lostBy = {}
    /\ clock = 0

Complete(s) == archives[s].contents /= None /\ archives[s].metadata /= None

\* os.Create empties the archive of the same second.
BeginBackup ==
    /\ backup.step = "none" /\ history /= <<>>
    /\ archives' = [s \in DOMAIN archives \cup {clock} |->
                      IF s = clock THEN [contents |-> None, metadata |-> None] ELSE archives[s]]
    /\ lostBy' = IF clock \in DOMAIN archives THEN lostBy \cup {"overwritten"} ELSE lostBy
    /\ backup' = [step |-> "fill", name |-> clock, of |-> history]
    /\ UNCHANGED <<history, exportVars, returned, clock>>

\* Both files are added; nothing of them need be on disk before the archive is closed.
FillArchive ==
    /\ backup.step = "fill"
    /\ backup' = [backup EXCEPT !.step = "cleanup"]
    /\ UNCHANGED <<history, exportVars, archives, returned, lostBy, clock>>

\* Mutant: the newest archives go.
CleanupNewest ==
    /\ backup.step = "cleanup"
    /\ \E kept \in SUBSET DOMAIN archives :
          /\ Cardinality(kept) = IF Cardinality(DOMAIN archives) > MaxArchives THEN MaxArchives ELSE Cardinality(DOMAIN archives)
          /\ \A s \in kept, t \in DOMAIN archives \ kept : s < t
          /\ archives' = [s \in kept |-> archives[s]]
    /\ backup' = [backup EXCEPT !.step = "close"]
    /\ UNCHANGED <<history, exportVars, returned, lostBy, clock>>

\* The oldest archives above the limit go, failed ones counted, before this one is closed.
\* A file that cannot be removed ends the cleanup.
CleanupOldBackups ==
    /\ backup.step = "cleanup"
    /\ \E kept \in SUBSET DOMAIN archives :
          /\ Cardinality(kept) >= IF Cardinality(DOMAIN archives) > MaxArchives THEN MaxArchives ELSE Cardinality(DOMAIN archives)
          /\ \A s \in kept, t \in DOMAIN archives \ kept : s > t
          /\ archives' = [s \in kept |-> archives[s]]
    /\ backup' = [backup EXCEPT !.step = "close"]
    /\ UNCHANGED <<history, exportVars, returned, lostBy, clock>>

\* The errors of the closes are dropped: an archive that is not all on disk is a success as
\* well.
CloseArchive ==
    /\ backup.step = "close"
    /\ \E whole \in BOOLEAN, contents \in {None, backup.of} :
          /\ archives' = [s \in DOMAIN archives |-> IF s = backup.name
                            THEN [contents |-> IF whole THEN backup.of ELSE contents,
                                  metadata |-> IF whole THEN backup.of ELSE None] ELSE archives[s]]
          /\ lostBy' = IF whole THEN lostBy ELSE lostBy \cup {"unclosed"}
          /\ returned' = (returned \/ whole)
    /\ backup' = [step |-> "none"]
    /\ UNCHANGED <<history, exportVars, clock>>

\* A step fails, and what there is of the archive stays, or the program ends.
BackupFails ==
    /\ backup.step /= "none"
    /\ \E flushed \in BOOLEAN :
          archives' = [s \in DOMAIN archives |-> IF s = backup.name /\ flushed
                         THEN [archives[s] EXCEPT !.contents = backup.of] ELSE archives[s]]
    /\ lostBy' = IF backup.step = "close" THEN lostBy \cup {"interrupted"} ELSE lostBy
    /\ backup' = [step |-> "none"]
    /\ UNCHANGED <<history, exportVars, returned, clock>>

DeleteBackup ==
    /\ backup.step = "none"
    /\ \E s \in DOMAIN archives : archives' = [t \in DOMAIN archives \ {s} |-> archives[t]]
    /\ lostBy' = lostBy \cup {"deleted"}
    /\ UNCHANGED <<history, exportVars, backup, returned, clock>>

\* RestoreBackup: without metadata, or with a checksum that differs, nothing is restored.
RestoreBackup ==
    /\ backup.step = "none"
    /\ \E s \in DOMAIN archives :
          /\ Complete(s) /\ archives[s].contents = archives[s].metadata
          /\ history' = archives[s].contents
    /\ history' /= history
    /\ UNCHANGED <<exportVars, archiveVars>>

PassTime ==
    /\ clock < MaxBackupTime /\ clock' = clock + 1
    /\ UNCHANGED <<history, exportVars, archives, backup, returned, lostBy>>

ExportNext == ExportConversations \/ ImportConversations

BackupNext ==
    \/ BeginBackup \/ FillArchive \/ CleanupOldBackups \/ CloseArchive \/ BackupFails
    \/ DeleteBackup \/ RestoreBackup \/ PassTime

-----------------------------------------------------------------------------
\* The texts that a format can carry.
Plain(text, f) ==
    \/ f = "json"
    \/ f = "csv" /\ \A i \in DOMAIN text : text[i][1] /= "escaped"
    \/ f = "markdown" /\ Trimmed(text) = text /\ \A i \in DOMAIN text : text[i][1] \in PlainKinds

\* An import of an exported file in its own format, without validation and with its
\* identifiers, gives back every conversation that was selected, in its order, with its
\* status, texts and the identifier if it had one, when the file was written to its end and
\* no line of a text looks like one of the format; in Markdown a text must neither begin nor
\* end with blanks nor have a CR, and the tools that were exported with a response are taken
\* for a part of it.
RoundTripKeepsConversations ==
    LET was == exported.selected
        back == imported.conversations
    IN /\ imported /= None /\ ~ imported.options.validate /\ ~ imported.options.updateIDs
       /\ FormatRead(exported, imported.options.asked) = exported.format /\ exported.whole
       /\ \A i \in DOMAIN was : Plain(was[i].user, exported.format) /\ Plain(was[i].response, exported.format)
       => /\ Len(back) = Len(was)
          /\ \A i \in DOMAIN back :
                /\ back[i].id = was[i].id \/ was[i].id = NoValue
                /\ back[i].status = was[i].status /\ back[i].user = was[i].user
                /\ \/ back[i].response = was[i].response
                   \/ exported.format = "markdown" /\ exported.withTools /\ was[i].tools

\* Once a backup was complete there is always a complete one when none is being made,
\* whatever fails, unless the user deleted one, one was begun in the second of another, or
\* after the old ones were removed a backup was ended before it was closed, or was reported
\* as made although closing it failed.
BackupSurvives ==
    returned /\ backup.step = "none" /\ lostBy = {} => \E s \in DOMAIN archives : Complete(s)
=============================================================================
