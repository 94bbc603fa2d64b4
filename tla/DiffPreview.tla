----------------------------- MODULE DiffPreview -----------------------------
(***************************************************************************)
(* The diff shown before a file is changed (internal/tools/file_diff.go):   *)
(* the lines are compared with a short look-ahead, and the operations that  *)
(* result are grouped into hunks.  Indices count from 0 as in the code.     *)
(***************************************************************************)
EXTENDS Integers, SequencesExt

CONSTANTS FileLines,      \* lines
          MaxLines,       \* bound: lines of a text
          LookAhead,      \* the look-ahead, 5 in the code
          ContextLines    \* lines of context, 3 by default

ASSUME DiffAssumption == MaxLines \in Nat /\ {LookAhead, ContextLines} \subseteq Nat \ {0}

VARIABLES oldLines, newLines,  \* the two texts
          oldIdx, newIdx,      \* lines compared
          operations,          \* of computeDiff
          opIdx,               \* operations grouped
          hunk,                \* the open hunk
          hunks                \* the closed ones

diffVars == <<oldLines, newLines, oldIdx, newIdx, operations, opIdx, hunk, hunks>>

NoHunk == [open |-> FALSE, oldStart |-> 0, newStart |-> 0, lines |-> <<>>]

DiffInit ==
    /\ oldLines \in BoundedSeq(FileLines, MaxLines) /\ newLines \in BoundedSeq(FileLines, MaxLines)
    /\ oldIdx = 0 /\ newIdx = 0
    /\ operations = <<>>
    /\ opIdx = 0
    /\ hunk = NoHunk
    /\ hunks = <<>>

Op(type, old, new, text) == [type |-> type, old |-> old, new |-> new, text |-> text]
Inserts(old, from, to) == [k \in 1..to - from |-> Op("insert", old, from + k - 1, newLines[from + k])]
Deletes(new, from, to) == [k \in 1..to - from |-> Op("delete", from + k - 1, new, oldLines[from + k])]

MoreLines == oldIdx < Len(oldLines) \/ newIdx < Len(newLines)
Both == oldIdx < Len(oldLines) /\ newIdx < Len(newLines)
OldLine == oldLines[oldIdx + 1]
NewLine == newLines[newIdx + 1]

\* The lines within reach that equal the line that is compared.
OldAhead == {i \in newIdx + 1..Min({newIdx + LookAhead, Len(newLines)}) - 1 : newLines[i + 1] = OldLine}
NewAhead == {i \in oldIdx + 1..Min({oldIdx + LookAhead, Len(oldLines)}) - 1 : oldLines[i + 1] = NewLine}

Compare(ops, old, new) ==
    /\ operations' = operations \o ops
    /\ oldIdx' = old /\ newIdx' = new
    /\ UNCHANGED <<oldLines, newLines, opIdx, hunk, hunks>>

RestIsInserted ==
    /\ MoreLines /\ oldIdx = Len(oldLines)
    /\ Compare(Inserts(oldIdx, newIdx, newIdx + 1), oldIdx, newIdx + 1)

RestIsDeleted ==
    /\ MoreLines /\ newIdx = Len(newLines)
    /\ Compare(Deletes(newIdx, oldIdx, oldIdx + 1), oldIdx + 1, newIdx)

LinesEqual ==
    /\ Both /\ OldLine = NewLine
    /\ Compare(<<Op("equal", oldIdx, newIdx, OldLine)>>, oldIdx + 1, newIdx + 1)

\* Mutant: the line that ends the search is inserted as well.
InsertThroughMatch ==
    /\ Both /\ OldLine /= NewLine /\ OldAhead /= {}
    /\ Compare(Inserts(oldIdx, newIdx, Min(OldAhead) + 1), oldIdx, Min(OldAhead))

\* The old line comes later in the new text: what is before it is inserted.
OldLineIsAhead ==
    /\ Both /\ OldLine /= NewLine /\ OldAhead /= {}
    /\ Compare(Inserts(oldIdx, newIdx, Min(OldAhead)), oldIdx, Min(OldAhead))

NewLineIsAhead ==
    /\ Both /\ OldLine /= NewLine /\ OldAhead = {} /\ NewAhead /= {}
    /\ Compare(Deletes(newIdx, oldIdx, Min(NewAhead)), Min(NewAhead), newIdx)

LineModified ==
    /\ Both /\ OldLine /= NewLine /\ OldAhead = {} /\ NewAhead = {}
    /\ Compare(Deletes(newIdx, oldIdx, oldIdx + 1) \o Inserts(oldIdx + 1, newIdx, newIdx + 1),
               oldIdx + 1, newIdx + 1)

(***************************************************************************)
(* groupIntoHunks.                                                         *)
(***************************************************************************)
Grouping == ~ MoreLines /\ opIdx < Len(operations)
IsEqual(i) == operations[i].type = "equal"
Marked(mark, i) == [mark |-> mark, text |-> operations[i].text, op |-> i]

SkipEqual ==
    /\ Grouping /\ IsEqual(opIdx + 1)
    /\ opIdx' = opIdx + 1
    /\ UNCHANGED <<oldLines, newLines, oldIdx, newIdx, operations, hunk, hunks>>

\* The context before a change: the line of the old text is taken for the place of the
\* operation, so that after an earlier insertion it is another one.
OpenedAt(op) ==
    LET from == Max({0, op.old - ContextLines})
        to   == Min({op.old, Len(operations)})
        equal == {i \in from + 1..to : IsEqual(i)}
        at == [k \in 1..Cardinality(equal) |->
                 CHOOSE i \in equal : Cardinality({j \in equal : j <= i}) = k]
    IN [open |-> TRUE, oldStart |-> Max({1, op.old - ContextLines + 1}),
        newStart |-> Max({1, op.new - ContextLines + 1}),
        lines |-> [k \in DOMAIN at |-> Marked("context", at[k])]]

\* The equal operations that follow, up to the lines of context.
ContextAfter ==
    LET stop == {j \in opIdx + 2..Len(operations) : ~ IsEqual(j)}
        last == Min({opIdx + 1 + ContextLines, Len(operations)} \cup {j - 1 : j \in stop})
    IN [k \in 1..last - (opIdx + 1) |-> Marked("context", opIdx + 1 + k)]

FarFromChanges ==
    \A j \in opIdx + 2..Min({opIdx + 1 + 2 * ContextLines, Len(operations)}) : IsEqual(j)

\* No change within twice the context, or no operation left.
ClosesHunk == FarFromChanges \/ opIdx + 1 = Len(operations)

AddChange ==
    LET op      == operations[opIdx + 1]
        mark    == IF op.type = "delete" THEN "deleted" ELSE "inserted"
        current == IF hunk.open THEN hunk ELSE OpenedAt(op)
        grown   == [current EXCEPT !.lines = @ \o <<Marked(mark, opIdx + 1)>> \o ContextAfter]
    IN /\ Grouping /\ ~ IsEqual(opIdx + 1)
       /\ opIdx' = opIdx + 1
       /\ IF ClosesHunk THEN hunks' = Append(hunks, grown) /\ hunk' = NoHunk
          ELSE hunk' = grown /\ UNCHANGED hunks
       /\ UNCHANGED <<oldLines, newLines, oldIdx, newIdx, operations>>

DiffNext ==
    \/ RestIsInserted \/ RestIsDeleted \/ LinesEqual \/ OldLineIsAhead \/ NewLineIsAhead
    \/ LineModified \/ SkipEqual \/ AddChange

-----------------------------------------------------------------------------
\* How many of the first i operations are of these types.
NumberOf(ops, types, i) == Cardinality({j \in 1..i : ops[j].type \in types})

\* The operations of these types spell the first n lines: there are n, and the k-th of
\* them has the k-th line.
Spells(ops, types, lines, n) ==
    /\ NumberOf(ops, types, Len(ops)) = n
    /\ \A i \in DOMAIN ops : ops[i].type \in types => ops[i].text = lines[NumberOf(ops, types, i)]

\* The operations say how the new text comes from the old one: those that delete or
\* keep spell the old lines compared so far, those that insert or keep the new ones.
DiffIsExact ==
    /\ Spells(operations, {"delete", "equal"}, oldLines, oldIdx)
    /\ Spells(operations, {"insert", "equal"}, newLines, newIdx)

\* The lines of a hunk, the open one being the last, and those of them that are changes.
HunkNumbers == 1..Len(hunks) + 1
Shown(k) == IF k \in DOMAIN hunks THEN hunks[k].lines ELSE hunk.lines
ChangesIn(k) == {n \in DOMAIN Shown(k) : Shown(k)[n].mark /= "context"}

\* The hunks show every change, each once and in order, and none stays in a hunk that
\* is still open when the operations are used up.
HunksShowEveryChange ==
    /\ \A i \in 1..opIdx : ~ IsEqual(i) => \E k \in HunkNumbers : \E n \in ChangesIn(k) : Shown(k)[n].op = i
    /\ \A k \in HunkNumbers : \A n \in ChangesIn(k) : Shown(k)[n].op \in 1..opIdx /\ ~ IsEqual(Shown(k)[n].op)
    /\ \A k, l \in HunkNumbers : \A n \in ChangesIn(k), m \in ChangesIn(l) :
          k < l \/ (k = l /\ n < m) => Shown(k)[n].op < Shown(l)[m].op
    /\ opIdx = Len(operations) => ~ hunk.open

\* The operations turn the old text into the new one, and the hunks show all that change.
PreviewIsExact == DiffIsExact /\ HunksShowEveryChange
=============================================================================
