--------------------------- MODULE FilePermissions ---------------------------
(***************************************************************************)
(* The permissions tool (internal/tools/file_ops.go): permissions are set,  *)
(* added or removed on one path or, in the order of a walk, on everything   *)
(* below it.  A mode is the set of its bits.                                *)
(***************************************************************************)
EXTENDS Integers, FiniteSets, Sequences

CONSTANTS Entries,     \* the entries of a directory tree, by their place in a walk
          ParentOf,    \* the directory an entry is in, 0 for the first
          IsDir,       \* the directories among them
          Modes,       \* modes asked for
          FirstModes,  \* modes of the tree at first
          MaxChanged   \* bound: calls

Bits == {"owner", "group", "other"} \X {"r", "w", "x"}

ASSUME PermissionsAssumption ==
    /\ IsFiniteSet(Entries) /\ Entries = 1..Cardinality(Entries) /\ IsDir \subseteq Entries
    /\ ParentOf \in [Entries -> {0} \cup IsDir] /\ \A e \in Entries : ParentOf[e] < e
    /\ Modes \subseteq SUBSET Bits /\ FirstModes \subseteq [Entries -> SUBSET Bits]

VARIABLES mode,    \* of every entry
          change,  \* the call in progress, or the last one
          calls    \* calls so far

permissionVars == <<mode, change, calls>>

NoChangeYet == [pc |-> "idle", operation |-> "get", bits |-> {}, root |-> 1, at |-> 0,
                recursive |-> FALSE, changed |-> {}, errors |-> {}, cancelled |-> FALSE]

PermissionsInit ==
    /\ mode \in FirstModes
    /\ change = NoChangeYet
    /\ calls = 0

Ancestors[e \in {0} \cup Entries] ==
    IF e = 0 THEN {} ELSE Ancestors[ParentOf[e]] \cup (IF ParentOf[e] = 0 THEN {} ELSE {ParentOf[e]})

Below(root) == {e \in Entries : e = root \/ root \in Ancestors[e]}

\* The owner gets at an entry through directories that it may search.
Reachable(e) == \A d \in Ancestors[e] : <<"owner", "x">> \in mode[d]
Readable(d) == Reachable(d) /\ <<"owner", "r">> \in mode[d]

IsDangerousPermission(bits, isDir) ==
    \/ <<"other", "w">> \in bits
    \/ ~ isDir /\ {<<"owner", "x">>, <<"group", "x">>, <<"other", "x">>} \subseteq bits
    \/ bits = Bits

\* Only the path of the call is tested for dangerous permissions, and only by set.
Execute ==
    \E root \in Entries, operation \in {"set", "add", "remove"}, bits \in Modes,
       recursive \in BOOLEAN, force \in BOOLEAN :
        /\ change.pc = "idle" /\ calls < MaxChanged
        /\ Reachable(root)
        /\ operation = "set" /\ IsDangerousPermission(bits, root \in IsDir) => force
        /\ operation /= "set" => ~ force
        /\ recursive => root \in IsDir
        /\ calls' = calls + 1
        /\ change' = [NoChangeYet EXCEPT !.pc = "walk", !.operation = operation, !.bits = bits,
                                         !.root = root, !.at = root, !.recursive = recursive]
        /\ UNCHANGED mode

NewMode(old) ==
    CASE change.operation = "set"    -> change.bits
      [] change.operation = "add"    -> old \cup change.bits
      [] change.operation = "remove" -> old \ change.bits

\* The next entry of the walk: behind the last one of the subtree the walk ends.
NextEntry(e) ==
    LET later == {x \in Below(change.root) : x > e}
    IN IF later = {} THEN 0 ELSE CHOOSE x \in later : \A y \in later : x <= y

\* The entries of a directory that cannot be read are not visited.
Visited(e) == \A d \in Ancestors[e] \cap Below(change.root) : Readable(d)

Advance(changed, errors) ==
    LET next == IF change.recursive THEN NextEntry(change.at) ELSE 0
    IN change' = [change EXCEPT !.changed = @ \cup changed, !.errors = @ \cup errors,
                                !.at = next, !.pc = IF next = 0 THEN "idle" ELSE @]

\* An entry that is reached gets its new mode; one that is listed but cannot be reached
\* is reported.
ChangeMode ==
    /\ change.pc = "walk" /\ Visited(change.at) /\ Reachable(change.at)
    /\ mode' = [mode EXCEPT ![change.at] = NewMode(@)]
    /\ Advance({change.at}, {})
    /\ UNCHANGED calls

\* Mutant: the walk goes on without a report.
SkipsUnreachable ==
    /\ change.pc = "walk" /\ ~ (Visited(change.at) /\ Reachable(change.at))
    /\ Advance({}, {})
    /\ UNCHANGED <<mode, calls>>

\* A directory that cannot be read, or an entry that cannot be reached, is reported.
ReportError ==
    /\ change.pc = "walk" /\ ~ (Visited(change.at) /\ Reachable(change.at))
    /\ Advance({}, IF Visited(change.at) THEN {change.at}
                   ELSE {d \in Ancestors[change.at] \cap Below(change.root) : ~ Readable(d)})
    /\ UNCHANGED <<mode, calls>>

\* The caller gives up between two entries.
CancelWalk ==
    /\ change.pc = "walk" /\ change.recursive
    /\ change' = [change EXCEPT !.pc = "idle", !.cancelled = TRUE]
    /\ UNCHANGED <<mode, calls>>

PermissionsNext == Execute \/ ChangeMode \/ ReportError \/ CancelWalk

-----------------------------------------------------------------------------
\* A call that was not cancelled has changed everything below its path, or names what
\* it could not change or a directory above it, although its own changes may close the
\* directories it still has to enter.
UnchangedIsReported ==
    change.pc = "idle" /\ ~ change.cancelled /\ change.recursive =>
        \A e \in Below(change.root) :
            e \in change.changed \/ ({e} \cup Ancestors[e]) \cap change.errors /= {}

=============================================================================
