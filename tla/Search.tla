------------------------------- MODULE Search -------------------------------
(***************************************************************************)
(* Progressive discovery: the index of tool summaries that clients search  *)
(* and browse, the metadata the platform lays over it, and the engines     *)
(* behind it (internal/proxy discovery.go, internal/search bm25.go,        *)
(* vector.go, hybrid.go and synonyms.go, internal/admin tools_browser.go). *)
(*                                                                         *)
(* Every operation holds the lock of the index throughout, its engine's    *)
(* part included, so an operation is one step.  A tool is the number of    *)
(* its name in alphabetical order; a text is its tokens, the separators    *)
(* left out.                                                               *)
(* A BM25 score is positive exactly for a document with one of the terms,  *)
(* for every inverse document frequency is positive; its size is reduced   *)
(* to the weights of the fields that have them.  Reciprocal ranks are      *)
(* exact, in fractions of Unit, a common multiple of their denominators.   *)
(***************************************************************************)
EXTENDS Integers, Sequences, FiniteSets, FiniteSetsExt, Functions

CONSTANTS
    Catalog,        \* what can be listed: name, title, desc, summary, category
    Overlays,       \* the metadata lists that the platform may send
    Engines,        \* the configured engines; "off" without progressive discovery
    Queries,        \* what is asked for
    Synonyms,       \* the groups of synonyms
    Related,        \* the pairs of words that the model embeds near each other
    DefaultLimit, MaxLimit,             \* defaultSearchLimit, maxSearchLimit
    DefaultPerPage, MaxPerPage,         \* defaultBrowsePerPage, maxBrowsePerPage
    Unit            \* the score of one

VARIABLES
    engine,     \* the engine in use
    entries,    \* DiscoveryIndex.entries
    overlay,    \* DiscoveryIndex.metadata, which Index applies again
    lexical,    \* the documents of the BM25 engine
    vectors     \* the documents of the vector engine

svars == <<engine, entries, overlay, lexical, vectors>>

Listable == DOMAIN Catalog
Anything == ""
NoText == <<>>
rrfK == 60

Text == Seq(STRING)
ToolDefinition == [name : Text, title : Text, desc : Text, summary : Text, category : STRING]
ToolMetadata == [tool : Nat, category : STRING, summary : Text, tags : Text, priority : Int]

\* A page holds something, and reciprocal ranks are whole.
ASSUME SearchAssumption ==
    /\ Catalog \in Seq(ToolDefinition) /\ Overlays \subseteq Seq(ToolMetadata) /\ Queries \subseteq Text
    /\ MaxLimit \in Nat /\ MaxPerPage \in Nat \ {0}
    /\ Unit \in Nat /\ \A r \in Listable : Unit % (rrfK + r) = 0

-----------------------------------------------------------------------------
(* Engines: documents in, scores out.                                      *)

\* ExpandQueryWith: the tokens and the members of their groups.
ExpandQuery(q) == Range(q) \cup UNION {g \in Synonyms : g \cap Range(q) # {}}

\* accumulateFieldPartitioned with the weight of the field.
accumulateField(text, terms, weight) == weight * Cardinality(Range(text) \cap terms)

\* BM25Engine.Search without a limit.
bm25Search(q) ==
    LET terms == ExpandQuery(q)
        Score(d) == accumulateField(d.name, terms, 3) + accumulateField(d.title, terms, 2)
                    + accumulateField(d.desc, terms, 1) + accumulateField(d.tags, terms, 2)
    IN [t \in {k \in DOMAIN lexical : Score(lexical[k]) > 0} |-> Unit * Score(lexical[t])]

buildEmbedText(d) == d.name \o d.title \o d.desc \o d.tags

\* A document is similar by the words it has in common with the query, or
\* that are near one of its.
cosineSimilarity(q, text) ==
    Cardinality({p \in Range(q) \X Range(text) : p[1] = p[2] \/ p \in Related})

\* VectorEngine.Search when the query can be embedded.
vectorSearch(q) ==
    LET Sim(t) == cosineSimilarity(q, buildEmbedText(vectors[t]))
    IN [t \in {k \in DOMAIN vectors : Sim(k) > 0} |-> Unit * Sim(t)]

\* Highest score first, then by name.
Before(scores, t) == {u \in DOMAIN scores : scores[u] > scores[t] \/ (scores[u] = scores[t] /\ u < t)}
Ranked(scores) ==
    [i \in 1..Cardinality(DOMAIN scores) |->
        CHOOSE t \in DOMAIN scores : Cardinality(Before(scores, t)) = i - 1]

\* The score of both ranks; a list a tool is missing from adds nothing.
fuseRRF(a, b) ==
    LET Part(rs, t) == IF t \in Range(rs) THEN Unit \div (rrfK + CHOOSE i \in DOMAIN rs : rs[i] = t) ELSE 0
    IN [t \in Range(a) \cup Range(b) |-> Part(a, t) + Part(b, t)]

\* HybridEngine.Search: the lexical results alone if the query cannot be
\* embedded; an engine without vectors does not try.
hybridSearch(q, embeds) ==
    IF DOMAIN vectors # {} /\ ~embeds THEN bm25Search(q)
    ELSE fuseRRF(Ranked(bm25Search(q)), Ranked(vectorSearch(q)))

-----------------------------------------------------------------------------
(* Queries of the index.                                                   *)

InCategory(t, cat) == cat = Anything \/ entries[t].category = cat

\* strings.Contains of the whole query.
HasPhrase(text, q) ==
    \E i \in 1..(Len(text) - Len(q) + 1) : SubSeq(text, i, i + Len(q) - 1) = q

scoreEntry(e, q) ==
    LET Hit(text, points) == IF HasPhrase(text, q) THEN points ELSE 0
    IN (IF e.def.name = q THEN 10 ELSE Hit(e.def.name, 5))
       + Hit(e.def.title, 3) + Hit(e.desc, 1)
       + 2 * Cardinality({i \in DOMAIN e.tags : HasPhrase(<<e.tags[i]>>, q)})

\* What remains of scores in a category, with the priorities added.
Prioritised(scores, cat) ==
    [t \in {k \in DOMAIN scores \cap DOMAIN entries : InCategory(k, cat)}
        |-> scores[t] + Unit * entries[t].priority]

collectScoredEntriesSubstring(q, cat) ==
    Prioritised([t \in {k \in DOMAIN entries : scoreEntry(entries[k], q) > 0}
                    |-> Unit * scoreEntry(entries[t], q)], cat)

\* collectScoredEntries: an engine that fails is replaced by the substring
\* search, and only the vector engine can fail.
collectScoredEntries(q, cat, embeds) ==
    CASE engine = "bm25" -> Prioritised(bm25Search(q), cat)
      [] engine = "hybrid" -> Prioritised(hybridSearch(q, embeds), cat)
      [] engine = "vector" /\ (embeds \/ DOMAIN vectors = {}) -> Prioritised(vectorSearch(q), cat)
      [] OTHER -> collectScoredEntriesSubstring(q, cat)

clampLimit(limit) == IF limit <= 0 THEN DefaultLimit ELSE Min({limit, MaxLimit})

\* Mutation: an offset counts from one.
paginateFromOne(scored, offset, limit) ==
    SubSeq(scored, Max({offset, 1}), Min({Max({offset, 1}) + limit - 1, Len(scored)}))

paginateScored(scored, offset, limit) ==
    SubSeq(scored, Max({offset, 0}) + 1, Min({Max({offset, 0}) + limit, Len(scored)}))

\* DiscoveryIndex.Search: a page, and the number of all matches.
SearchIndex(q, cat, offset, limit, embeds) ==
    LET scored == Ranked(collectScoredEntries(q, cat, embeds))
    IN [page |-> paginateScored(scored, offset, clampLimit(limit)), total |-> Len(scored)]

\* By name alone.
Browse(cat, offset, limit) ==
    LET matching == Ranked([t \in {k \in DOMAIN entries : InCategory(k, cat)} |-> 0])
    IN [page |-> paginateScored(matching, offset, clampLimit(limit)), total |-> Len(matching)]

HandleToolBrowse(q, cat, page, perPage, embeds) ==
    LET per == IF perPage <= 0 THEN DefaultPerPage ELSE Min({perPage, MaxPerPage})
        offset == (Max({page, 1}) - 1) * per
    IN IF q # NoText THEN SearchIndex(q, cat, offset, per, embeds) ELSE Browse(cat, offset, per)

-----------------------------------------------------------------------------
(* Changes of the index.                                                   *)

\* What Index makes of a definition; extractSummary gives its first sentence.
NewEntry(t) ==
    [def |-> Catalog[t], desc |-> Catalog[t].desc, summary |-> Catalog[t].summary,
     category |-> Catalog[t].category, tags |-> NoText, priority |-> 0]

\* A field that the platform leaves empty is kept.
Enriched(e, m) ==
    [e EXCEPT !.category = IF m.category # Anything THEN m.category ELSE @,
              !.summary = IF m.summary # NoText THEN m.summary ELSE @,
              !.desc = IF m.summary # NoText THEN m.summary ELSE @,
              !.tags = IF m.tags # NoText THEN m.tags ELSE @,
              !.priority = IF m.priority # 0 THEN m.priority ELSE @]

\* The metadata of a tool in the order of the list; that of a tool that is
\* not listed is passed over.
applyMetadataLocked(es, ms) ==
    LET Upto(t) == LET e[i \in 0..Len(ms)] ==
                        IF i = 0 THEN es[t]
                        ELSE IF ms[i].tool = t THEN Enriched(e[i - 1], ms[i]) ELSE e[i - 1]
                   IN e
    IN [t \in DOMAIN es |-> Upto(t)[Len(ms)]]

\* The effective description has the summary behind it unless they are equal.
Document(e) ==
    [name |-> e.def.name, title |-> e.def.title, tags |-> e.tags,
     desc |-> IF e.summary \in {NoText, e.def.desc} THEN e.def.desc ELSE e.def.desc \o e.summary]

\* VectorEngine.Index: nothing is stored if the documents cannot be embedded.
vectorIndex(docs, embeds) == vectors' = IF docs = <<>> \/ embeds THEN docs ELSE vectors

\* HybridEngine.Index goes on if the vectors fail.
hybridIndex(docs, embeds) == lexical' = docs /\ vectorIndex(docs, embeds)

\* Mutation: the engine is left as it is.
reindexNothing(es, embeds) == UNCHANGED <<lexical, vectors>>

\* reindexEngineLocked: an error is only logged.
reindexEngineLocked(es, embeds) ==
    LET docs == [t \in DOMAIN es |-> Document(es[t])]
    IN CASE engine = "bm25" -> lexical' = docs /\ UNCHANGED vectors
         [] engine = "vector" -> vectorIndex(docs, embeds) /\ UNCHANGED lexical
         [] engine = "hybrid" -> hybridIndex(docs, embeds)
         [] OTHER -> UNCHANGED <<lexical, vectors>>

\* DiscoveryIndex.Index with the tools of a registry sync.
IndexTools(listed, embeds) ==
    /\ engine # "off"
    /\ entries' = applyMetadataLocked([t \in listed |-> NewEntry(t)], overlay)
    /\ reindexEngineLocked(entries', embeds)
    /\ UNCHANGED <<engine, overlay>>

\* DiscoveryIndex.ApplyMetadata: over what earlier lists left.
ApplyOverlay(ms, embeds) ==
    /\ engine # "off"
    /\ overlay' = ms
    /\ entries' = applyMetadataLocked(entries, ms)
    /\ reindexEngineLocked(entries', embeds)
    /\ UNCHANGED engine

\* buildSearchEngine: without the model, BM25.
buildSearchEngine(configured, onnx) ==
    IF configured \in {"vector", "hybrid"} /\ ~onnx THEN "bm25" ELSE configured

SInit ==
    /\ engine \in {buildSearchEngine(c, onnx) : c \in Engines, onnx \in BOOLEAN}
    /\ entries = <<>> /\ overlay = <<>> /\ lexical = <<>> /\ vectors = <<>>

SNext == \E embeds \in BOOLEAN :
    \/ \E listed \in SUBSET Listable : IndexTools(listed, embeds)
    \/ \E ms \in Overlays : ApplyOverlay(ms, embeds)

SSpec == SInit /\ [][SNext]_svars

-----------------------------------------------------------------------------
(* Properties.                                                             *)

\* The current tools that a client asking for q has to be shown, by their
\* definitions and the metadata laid over them: every one without a query,
\* those with the phrase for the substring search, those with one of the words
\* or a synonym for the lexical engines; the vector engine owes nothing.
Owed(q, cat) ==
    LET Texts(e) == {e.def.name, e.def.title} \cup {<<w>> : w \in Range(e.tags)}
        Phrase(e) == \E x \in Texts(e) \cup {e.desc} : HasPhrase(x, q)
        Word(e) == \E x \in Texts(e) \cup {e.def.desc, e.summary} : Range(x) \cap ExpandQuery(q) # {}
        Matches(e) == CASE q = NoText -> TRUE
                        [] engine = "substring" -> Phrase(e)
                        [] engine \in {"bm25", "hybrid"} -> Word(e)
                        [] OTHER -> FALSE
    IN {t \in DOMAIN entries : InCategory(t, cat) /\ Matches(entries[t])}

\* What the pages of a query show, page by page until there can be no more.
PagesAreComplete(q, cat, per, embeds) ==
    LET pages == [p \in 1..(Cardinality(Listable) + 1) |-> HandleToolBrowse(q, cat, p, per, embeds).page]
        places == UNION {{<<p, i>> : i \in DOMAIN pages[p]} : p \in DOMAIN pages}
        shown == [x \in places |-> pages[x[1]][x[2]]]
    IN /\ IsInjective(shown) /\ Cardinality(places) = HandleToolBrowse(q, cat, 1, per, embeds).total
       /\ Owed(q, cat) \subseteq Range(shown) /\ Range(shown) \subseteq DOMAIN entries

\* Paging through HandleToolBrowse shows every tool that is owed, none twice
\* and none that is no longer listed, and as many as the total says, whatever
\* the embedding model failed to index before and whether or not it answers
\* now, for every page size that the index does not clamp.
PagesShowEveryMatch == engine # "off" =>
    \A q \in Queries \cup {NoText}, cat \in {Anything} \cup {Catalog[t].category : t \in Listable},
       per \in 1..MaxLimit, embeds \in BOOLEAN : PagesAreComplete(q, cat, per, embeds)
=============================================================================
