------------------------------ MODULE Searching ------------------------------
(***************************************************************************)
(* The search tools (internal/tools/grep.go, findinfiles.go, search.go,     *)
(* fuzzy.go, tree.go, file_ops.go): each walks the workspace in order, filters what it   *)
(* visits and collects results and statistics.  Scores are in thousandths.  *)
(***************************************************************************)
EXTENDS Integers, SequencesExt

CONSTANTS Workspaces,  \* sequences of entries in the order of a walk
          Queries,     \* patterns, sequences of characters
          Limits,      \* max_results
          MaxDepth     \* max_depth of the tree

\* An entry: its parent (0: the root), isDir, name, tags (why a tool may skip it),
\* readable, lines, bonus (of a fuzzy match, penalty included).
Tags == {"hidden", "excluded", "othertype", "ignored", "binary", "large"}
WalkedEntry == [parent : Nat, isDir : BOOLEAN, name : Seq(STRING), tags : SUBSET Tags,
                readable : BOOLEAN, lines : Seq(Seq(STRING)), bonus : Int]

ASSUME SearchAssumption ==
    /\ Limits \subseteq Nat \ {0}
    /\ Workspaces \subseteq Seq(WalkedEntry)
    /\ \A w \in Workspaces : \A i \in DOMAIN w : w[i].parent < i
    /\ Queries \subseteq Seq(STRING) \ {<<>>}

VARIABLES workspace,   \* the entries
          request,     \* tool, query and options
          position,    \* the next entry of the walk
          results,
          statistics

searchVars == <<workspace, request, position, results, statistics>>

SearchTools == {"grep", "findinfiles", "search_files", "fuzzy", "tree", "list_directory"}
NoStatistics == [searched |-> 0, matched |-> 0, skipped |-> 0, total |-> 0]

Requests ==
    {r \in [tool : SearchTools, query : Queries, hidden : BOOLEAN, invert : BOOLEAN,
            regex : BOOLEAN, context : 0..1, max : Limits, threshold : {0, 500}] :
        /\ r.invert => r.tool = "grep"
        /\ r.context > 0 => r.tool \in {"grep", "findinfiles"}
        /\ r.tool /= "fuzzy" => r.threshold = 0
        /\ r.regex => r.tool = "findinfiles"}

SearchInit ==
    /\ workspace \in Workspaces
    /\ request \in Requests
    /\ position = 1
    /\ results = <<>>
    /\ statistics = NoStatistics

(***************************************************************************)
(* Filters.                                                                *)
(***************************************************************************)
SkippedFor(tool) ==
    CASE tool \in {"grep", "findinfiles"} -> Tags \ {"hidden"}
      [] tool \in {"search_files", "fuzzy", "tree"} -> {"excluded", "othertype", "ignored"}
      [] tool = "list_directory" -> {"excluded"}

ShouldProcessFile(e) ==
    /\ e.tags \cap SkippedFor(request.tool) = {}
    /\ request.hidden \/ "hidden" \notin e.tags

(***************************************************************************)
(* Matches within a file.                                                  *)
(***************************************************************************)
Around(lines, i, n) ==
    [before |-> SubSeq(lines, Max({1, i - n}), i - 1),
     after  |-> SubSeq(lines, i + 1, Min({Len(lines), i + n}))]

Occurrences(line) ==
    {p \in 1..Len(line) - Len(request.query) + 1 :
        SubSeq(line, p, p + Len(request.query) - 1) = request.query}

\* A regular expression goes on behind a match, the plain search behind its first
\* character.
LineMatches(line) ==
    LET Taken[p \in 0..Len(line)] ==
            IF p = 0 THEN {}
            ELSE IF /\ p \in Occurrences(line)
                    /\ request.regex => \A q \in Taken[p - 1] : q + Len(request.query) <= p
            THEN Taken[p - 1] \cup {p}
            ELSE Taken[p - 1]
    IN Taken[Len(line)]

\* The numbers of a set, the least first.
InOrder(S) == [k \in 1..Cardinality(S) |-> CHOOSE i \in S : Cardinality({j \in S : j <= i}) = k]

GrepFile(e) ==
    LET at == InOrder({i \in DOMAIN e.lines : (Occurrences(e.lines[i]) /= {}) /= request.invert})
    IN [k \in DOMAIN at |-> [line |-> at[k], around |-> Around(e.lines, at[k], request.context)]]

FindInLine(e, i) ==
    LET at == InOrder(LineMatches(e.lines[i]))
    IN [k \in DOMAIN at |-> [line |-> i, start |-> at[k],
                             around |-> Around(e.lines, i, request.context)]]

FindInFile(e) ==
    LET UpTo[i \in 0..Len(e.lines)] == IF i = 0 THEN <<>> ELSE UpTo[i - 1] \o FindInLine(e, i)
    IN UpTo[Len(e.lines)]

(***************************************************************************)
(* Names.                                                                  *)
(***************************************************************************)
HasSubstring(name, q) ==
    \E p \in 1..Len(name) - Len(q) + 1 : SubSeq(name, p, p + Len(q) - 1) = q

\* matchesPattern without wildcards; 0 for no match.
NameScore(name, q) ==
    IF name = q THEN 1000
    ELSE IF request.regex THEN (IF HasSubstring(name, q) THEN 900 ELSE 0)
    ELSE IF ~ HasSubstring(name, q) THEN 0
    ELSE 700 + (IF SubSeq(name, 1, Len(q)) = q THEN 200 ELSE 0) + (100 * Len(q)) \div Len(name)

\* Mutant: a character that does not match starts the query again.
StartsAgain(q, name) ==
    LET Found[p \in 0..Len(name)] ==
            IF p = 0 THEN <<>>
            ELSE IF Len(Found[p - 1]) = Len(q) THEN Found[p - 1]
            ELSE IF q[Len(Found[p - 1]) + 1] = name[p] THEN Append(Found[p - 1], p)
            ELSE <<>>
    IN Found[Len(name)]

\* fuzzyMatchAlgorithm: every character of the query is matched as early as it can be.
FuzzyPositions(q, name) ==
    LET Found[p \in 0..Len(name)] ==
            IF p = 0 THEN <<>>
            ELSE IF Len(Found[p - 1]) < Len(q) /\ q[Len(Found[p - 1]) + 1] = name[p]
            THEN Append(Found[p - 1], p)
            ELSE Found[p - 1]
    IN Found[Len(name)]

FuzzyMatches(q, name) == Len(FuzzyPositions(q, name)) = Len(q)

Clamped(score) == Max({0, Min({1000, score})})

CalculateFuzzyScore(q, name) ==
    LET at == FuzzyPositions(q, name)
        consecutive == Cardinality({i \in 2..Len(at) : at[i] = at[i - 1] + 1})
        boundaries  == Cardinality({i \in DOMAIN at : at[i] = 1 \/ name[Max({1, at[i] - 1})] = "_"})
        gap         == at[Len(at)] - at[1] - Len(at) + 1
    IN Clamped((1000 * Len(at)) \div Len(name) + 100 * consecutive + 100 * boundaries - 10 * gap)

FuzzyMatchScore(q, name) ==
    IF HasSubstring(name, q) THEN 1000 ELSE IF FuzzyMatches(q, name) THEN CalculateFuzzyScore(q, name) ELSE 0

EnhancedScore(e) ==
    Clamped(FuzzyMatchScore(request.query, e.name) + e.bonus
            + (IF HasSubstring(e.name, request.query) THEN 200 ELSE 0))

(***************************************************************************)
(* The walks.                                                              *)
(***************************************************************************)
Walking(tools) == request.tool \in tools /\ position \in DOMAIN workspace
Entry == workspace[position]
Continue == position' = position + 1
Stop == position' = Len(workspace) + 1
Counted(field) == [statistics EXCEPT ![field] = @ + 1]

FileCounted(matches) ==
    IF matches = <<>> THEN Counted("searched")
    ELSE [Counted("searched") EXCEPT !.matched = @ + 1, !.total = @ + Len(matches)]

\* grep and findinfiles: a file that matches is collected whole, and the walk ends once
\* the limit is reached.
SearchFile ==
    /\ Walking({"grep", "findinfiles"}) /\ ~ Entry.isDir
    /\ UNCHANGED <<workspace, request>>
    /\ IF ~ ShouldProcessFile(Entry) \/ ~ Entry.readable
       THEN statistics' = Counted("skipped") /\ Continue /\ UNCHANGED results
       ELSE LET matches == IF request.tool = "grep" THEN GrepFile(Entry) ELSE FindInFile(Entry)
            IN /\ statistics' = FileCounted(matches)
               /\ results' = IF matches = <<>> THEN results
                             ELSE Append(results, [entry |-> position, score |-> 0, matches |-> matches])
               /\ IF matches /= <<>> /\ statistics'.total >= request.max THEN Stop ELSE Continue

\* search_files: the walk ends at the limit, before the results are sorted.
SearchName ==
    /\ Walking({"search_files"}) /\ ~ Entry.isDir
    /\ UNCHANGED <<workspace, request, statistics>>
    /\ LET score == NameScore(Entry.name, request.query)
       IN IF ShouldProcessFile(Entry) /\ score > 0
          THEN /\ results' = Append(results, [entry |-> position, score |-> score, matches |-> <<>>])
               /\ IF Len(results') >= request.max THEN Stop ELSE Continue
          ELSE UNCHANGED results /\ Continue

FuzzyName ==
    /\ Walking({"fuzzy"}) /\ ~ Entry.isDir
    /\ UNCHANGED <<workspace, request>>
    /\ LET score == FuzzyMatchScore(request.query, Entry.name)
       IN IF ~ ShouldProcessFile(Entry)
          THEN statistics' = [Counted("searched") EXCEPT !.skipped = @ + 1] /\ UNCHANGED results
          ELSE IF score > 0 /\ score >= request.threshold
          THEN /\ results' = Append(results, [entry |-> position, score |-> EnhancedScore(Entry),
                                              matches |-> <<>>])
               /\ statistics' = [Counted("searched") EXCEPT !.matched = @ + 1]
          ELSE statistics' = Counted("searched") /\ UNCHANGED results
    /\ Continue

\* The three tools that search files go on below a directory whatever its name is.
EnterDirectory ==
    /\ Walking({"grep", "findinfiles", "search_files", "fuzzy"}) /\ Entry.isDir
    /\ Continue
    /\ UNCHANGED <<workspace, request, results, statistics>>

Depth[i \in Nat] == IF i = 0 THEN 0 ELSE 1 + Depth[workspace[i].parent]

\* tree shows an entry below a directory it shows, down to the depth; a filter for types
\* is one for files.
TreeEntry ==
    /\ Walking({"tree"})
    /\ LET filtered == [Entry EXCEPT !.tags = IF Entry.isDir THEN @ \ {"othertype"} ELSE @]
           shown == /\ ShouldProcessFile(filtered)
                    /\ Depth[position] <= MaxDepth
                    /\ (Entry.parent = 0 \/ \E r \in ToSet(results) : r.entry = Entry.parent)
       IN IF shown
          THEN /\ results' = Append(results, [entry |-> position, score |-> 0, matches |-> <<>>])
               /\ statistics' = [statistics EXCEPT !.total = @ + 1,
                                                   !.matched = @ + IF Entry.isDir THEN 0 ELSE 1,
                                                   !.searched = Max({@, Depth[position]})]
          ELSE UNCHANGED <<results, statistics>>
    /\ Continue
    /\ UNCHANGED <<workspace, request>>

\* list_directory lists below every directory that is not hidden, one that does not match
\* the filter included, until the limit.
Listed[i \in Nat] ==
    i = 0 \/ (Listed[workspace[i].parent] /\ (request.hidden \/ "hidden" \notin workspace[i].tags))

ListEntry ==
    /\ Walking({"list_directory"})
    /\ LET shown == /\ Listed[Entry.parent] /\ ShouldProcessFile(Entry)
                    /\ Depth[position] <= MaxDepth + 1 /\ Len(results) < request.max
       IN results' = IF shown THEN Append(results, [entry |-> position, score |-> 0, matches |-> <<>>])
                     ELSE results
    /\ statistics' = [statistics EXCEPT !.total = Len(results')]
    /\ Continue
    /\ UNCHANGED <<workspace, request>>

SortResults(rs) ==
    SortSeq(rs, LAMBDA a, b : a.score > b.score \/ (a.score = b.score /\ a.entry < b.entry))

\* Results with scores are sorted, and those of fuzzy then cut.
Finish ==
    /\ position = Len(workspace) + 1
    /\ position' = position + 1
    /\ results' = CASE request.tool = "fuzzy" ->
                           SubSeq(SortResults(results), 1, Min({request.max, Len(results)}))
                    [] request.tool = "search_files" -> SortResults(results)
                    [] OTHER -> results
    /\ UNCHANGED <<workspace, request, statistics>>

SearchNext == SearchFile \/ SearchName \/ FuzzyName \/ EnterDirectory \/ TreeEntry \/ ListEntry \/ Finish

-----------------------------------------------------------------------------
\* Places in a name at which the characters of a query are, in their order.
Fits(q, name, at) == \A k \in DOMAIN q : name[at[k]] = q[k] /\ (k > 1 => at[k - 1] < at[k])

\* The greedy walk along a name finds the query in it whenever its characters occur in
\* the order of the query at all, and at places that do.
GreedyFindsSubsequences ==
    \A i \in DOMAIN workspace :
        LET q == request.query
            name == workspace[i].name
        IN IF FuzzyMatches(q, name) THEN Fits(q, name, FuzzyPositions(q, name))
           ELSE \A at \in [DOMAIN q -> DOMAIN name] : ~ Fits(q, name, at)

\* The matches of all the results.
MatchesIn(rs) ==
    LET UpTo[n \in 0..Len(rs)] == IF n = 0 THEN 0 ELSE UpTo[n - 1] + Len(rs[n].matches)
    IN UpTo[Len(rs)]

\* The matches grep and findinfiles report in numbers are those they return, of which only
\* the last file's go over the limit.
ResultsAreCounted ==
    request.tool \in {"grep", "findinfiles"} =>
        /\ statistics.total = MatchesIn(results)
        /\ statistics.matched = Len(results)
        /\ Len(results) > 1 => MatchesIn(Front(results)) < request.max

\* Of the files they have walked past, to the last one returned once the limit is reached,
\* grep and findinfiles return those that were not skipped and have a line with the query
\* (or without it), and every one counts as searched or as skipped.
FilesAreFound ==
    request.tool \in {"grep", "findinfiles"} =>
        LET last == IF statistics.total >= request.max THEN results[Len(results)].entry
                    ELSE position - 1
            walked == {i \in DOMAIN workspace : i <= last /\ ~ workspace[i].isDir}
            searched == {i \in walked : ShouldProcessFile(workspace[i]) /\ workspace[i].readable}
            Wanted(line) == HasSubstring(line, request.query) /= request.invert
        IN /\ statistics.searched = Cardinality(searched)
           /\ statistics.skipped = Cardinality(walked \ searched)
           /\ {r.entry : r \in ToSet(results)}
                = {i \in searched : \E k \in DOMAIN workspace[i].lines : Wanted(workspace[i].lines[k])}

\* Greedy matching finds what there is, and the files, matches and numbers reported are
\* those of the files walked past.
SearchesAreRight == GreedyFindsSubsequences /\ ResultsAreCounted /\ FilesAreFound
=============================================================================
