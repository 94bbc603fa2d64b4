----------------------------- MODULE MCServices -----------------------------
(* Four keys for a cache of three, three conversations of which a reload     *)
(* shows two, and texts that look like the formats they are exported to.     *)
EXTENDS Services

CONSTANTS k1, k2, k3, k4, r1, i1, i2, i3, req1, req2, req3, c1, c2, u1, mine, v1, v2

MCFields == {<<"ui", "show_timestamps", FALSE>>}
MCFiles == {[ui |-> [auto_scroll |-> TRUE], llm |-> [timeout |-> 400]], [storage |-> [cache_size |-> 10]]}
MCInitialFiles == {[global |-> [storage |-> [cache_size |-> 10]], local |-> [storage |-> [cache_size |-> 10]]]}
MCEnv == [llm |-> [model |-> "env"]]

\* Texts: none, several lines, what looks like a fence, a heading or an escape, blanks
\* before the first line or another one, a CR.
A == <<"text", "a">>
Indented == <<"indented", "c">>
MCTexts == {<<>>, <<A, BlankLine, A>>, <<A, <<"fence", "">>>>, <<<<"escaped", "b">>>>, <<A, <<"heading", "">>>>,
            <<Indented, A>>, <<A, Indented, <<"return", "d">>>>}

Conversation(id, time, status, user, response, tools) ==
    [id |-> id, timestamp |-> time, model |-> "m", status |-> status, user |-> user, response |-> response, tools |-> tools]

MCHistories == {<<Conversation("a", 1, "completed", t, <<A>>, FALSE),
                  Conversation(IF t = <<>> THEN "" ELSE "b", 2, "error", <<A>>, t, TRUE)>> : t \in MCTexts}

MCSelections == {[statuses |-> {}, start |-> 0, end |-> 9], [statuses |-> {"error"}, start |-> 0, end |-> 9]}
=============================================================================
