----------------------------- MODULE MCFileTools -----------------------------
(* Texts and edits of a few characters, two files, a tree of six entries to   *)
(* search with a hidden, large or other one among them, and one of four to   *)
(* change the permissions of.                                                *)
EXTENDS FileTools, TLC

CONSTANTS f1, f2, x, y

Replacement(find, replace, sensitive, whole, max) ==
    [operation |-> "replace", find |-> find, replace |-> replace, sensitive |-> sensitive,
     whole |-> whole, max |-> max, text |-> <<>>, line |-> 0]
OnLine(operation, line, n) ==
    [operation |-> operation, find |-> <<>>, replace |-> <<>>, sensitive |-> TRUE, whole |-> FALSE, max |-> 0,
     text |-> line, line |-> n]

MCTexts == {<<"A", "b", "a">>, <<"a", "\n", "b">>, <<"b">>}
MCEdits == {Replacement(<<"a">>, <<"b", "b">>, FALSE, FALSE, 0), Replacement(<<"a">>, <<>>, TRUE, FALSE, 1),
            Replacement(<<"b">>, <<"a">>, TRUE, TRUE, 0),
            OnLine("insert_line", <<"a", "\n", "b">>, 2), OnLine("delete_line", <<>>, 1),
            OnLine("prepend", <<"a">>, 0), OnLine("append", <<"b">>, 0)}

MCRenamedTo == f1 :> f2 @@ f2 :> f2
MCStoredAs == f1 :> f1 @@ f2 :> f2
MCBatchFiles == {<<f1, f2>>, <<f1, f1>>}
MCMaxEntries == [t \in Trails |-> 2]
MCSymmetry == Permutations({x, y})

File(parent, name, tags, readable, lines, bonus) ==
    [parent |-> parent, isDir |-> FALSE, name |-> name, tags |-> tags, readable |-> readable,
     lines |-> lines, bonus |-> bonus]
Directory(parent, name, tags) == [File(parent, name, tags, TRUE, <<>>, 0) EXCEPT !.isDir = TRUE]

AB == <<"a", "b">>
MCWorkspaces ==
    {<<Directory(0, <<"a">>, {}),
       File(1, name, tags, TRUE, lines, 0),
       Directory(1, <<"b">>, {"hidden"}),
       File(3, <<"a", "_", "b">>, {}, TRUE, <<<<"a", "a", "a">>, <<"b">>>>, 100),
       File(0, <<"b", "a">>, {}, FALSE, <<>>, 0),
       File(0, <<"a", "x", "b", "a">>, {}, TRUE, <<<<"b">>, <<"a", "a">>>>, -50)>> :
        name \in {AB, <<"b", "a", "b">>},
        tags \in {{}, {"hidden"}, {"othertype"}, {"large"}},
        lines \in {<<<<"a", "a", "a">>>>, <<<<"b">>, <<"b">>>>}}
MCQueries == {<<"a">>, <<"a", "a">>, AB}

Mode(owner, group, other) ==
    {<<"owner", b>> : b \in owner} \cup {<<"group", b>> : b \in group} \cup {<<"other", b>> : b \in other}
M644 == Mode({"r", "w"}, {"r"}, {"r"})
M755 == Mode({"r", "w", "x"}, {"r", "x"}, {"r", "x"})
MCModes == {M644, M755, Mode({"w"}, {"w"}, {"w"}), Mode({"x"}, {}, {}), Mode({"r"}, {}, {})}
MCParentOf == <<0, 1, 1, 3>>
MCFirstModes == {[e \in Entries |-> IF e \in IsDir THEN M755 ELSE M644]}
=============================================================================
