------------------------------- MODULE Documents -------------------------------
(***************************************************************************)
(* The articles of the law: the folder that is loaded in one transaction,  *)
(* the three ways a law is cut into chunks, and the search from the page   *)
(* of the ui through the agent to the api, which may fall back twice.  A   *)
(* text is a sequence of lines, a line [line, mark]: the mark is the       *)
(* number of a list item, 0 for an item without one, None for other lines. *)
(***************************************************************************)
EXTENDS Integers, Sequences, FiniteSets, SequencesExt, RankFusion, Absent

CONSTANTS
    Folders,     \* bound: what is loaded: sequences of texts of laws
    Law,         \* the names of the laws, in the order of their ids
    FixedSize,   \* FIXED_SIZE, in lines
    SplitOver,   \* SPLIT_OVER, in lines
    AgentK,      \* DOC_TOP_K
    UiK,         \* _K of the ui's gateway
    Pool,        \* FUSION_POOL
    MaxLoads     \* bound: the loads

VARIABLES
    library,   \* law -> its row with the rows of its chunks, or None
    embedded,  \* the texts that have a vector
    search,    \* the search that is open, or None
    loads      \* the number of loads so far

document_vars == <<library, embedded, search, loads>>

Strategy == {"fixed_500", "paragraph", "paragraph_item"}
SearchMode == {"keyword", "vector", "hybrid"}

(***************************************************************************)
(* law_chunking: a law is [law, headed, articles], an article [label,      *)
(* paragraphs], a paragraph [kind, number, lines]                          *)
(***************************************************************************)

Bare(name) == [line |-> name, mark |-> None]
Concat(seqs) == FlattenSeq(seqs)

\* The lines of a list as items, each with what is under it.
Items(lines) ==
    LET Add(items, l) ==
            IF l.mark # None \/ items = <<>> THEN Append(items, <<l>>)
            ELSE [items EXCEPT ![Len(items)] = Append(@, l)] IN
    FoldLeft(Add, <<>>, lines)

\* (mistake) A list that comes before any clause belongs to none.
Clauses_DropLoose(paragraphs) ==
    LET Add(found, p) ==
            IF p.kind = "tags" \/ (p.kind = "list" /\ found = <<>>) THEN found
            ELSE IF p.kind = "list"
            THEN [found EXCEPT ![Len(found)].items = @ \o Items(p.lines)]
            ELSE Append(found, [number |-> p.number, head |-> p.lines, items |-> <<>>]) IN
    FoldLeft(Add, <<>>, paragraphs)

\* A list belongs to the clause before it; a paragraph of tags to none.
Clauses(paragraphs) ==
    LET Add(found, p) ==
            IF p.kind = "tags" THEN found
            ELSE IF p.kind = "list"
            THEN LET there == IF found # <<>> THEN found
                              ELSE <<[number |-> None, head |-> <<>>, items |-> <<>>]>> IN
                 [there EXCEPT ![Len(there)].items = @ \o Items(p.lines)]
            ELSE Append(found, [number |-> p.number, head |-> p.lines, items |-> <<>>]) IN
    FoldLeft(Add, <<>>, paragraphs)

Piece(path, body, text) == [path |-> path, body |-> body, text |-> text]

Split(path, label, c) ==
    <<Piece(path, c.head, <<label>> \o c.head)>> \o
    [n \in DOMAIN c.items |->
        LET first == c.items[n][1] IN
        Piece(Append(path, IF first.mark = None THEN 0 ELSE first.mark), c.items[n],
              <<label>> \o c.head \o c.items[n])]

Structured(t, split) ==
    LET OfClause(label, c) ==
            LET path == <<t.law, label>> \o (IF c.number = None THEN <<>> ELSE <<c.number>>)
                block == c.head \o Concat(c.items) IN
            IF ~split THEN <<Piece(path, block, block)>>
            ELSE IF Len(block) <= SplitOver \/ c.items = <<>>
            THEN <<Piece(path, block, <<Bare(label)>> \o block)>>
            ELSE Split(path, Bare(label), c)
        OfArticle(a) ==
            LET clauses == Clauses(a.paragraphs) IN
            Concat([n \in DOMAIN clauses |-> OfClause(a.label, clauses[n])]) IN
    Concat([n \in DOMAIN t.articles |-> OfArticle(t.articles[n])])

BodyOf(t) ==
    Concat([n \in DOMAIN t.articles |->
        <<Bare(t.articles[n].label)>> \o
        Concat([m \in DOMAIN t.articles[n].paragraphs |-> t.articles[n].paragraphs[m].lines])])

FixedPieces(t) ==
    LET body == BodyOf(t)
        upTo(n) == IF n * FixedSize > Len(body) THEN Len(body) ELSE n * FixedSize
        cut(n) == SubSeq(body, (n - 1) * FixedSize + 1, upTo(n)) IN
    [n \in 1..((Len(body) + FixedSize - 1) \div FixedSize) |-> Piece(<<t.law, n>>, cut(n), cut(n))]

\* The chunks of a law under one strategy, in the order of their positions.
ChunkLaw(t, strategy) ==
    CASE strategy = "fixed_500" -> FixedPieces(t)
      [] strategy = "paragraph" -> Structured(t, FALSE)
      [] strategy = "paragraph_item" -> Structured(t, TRUE)

(***************************************************************************)
(* LoadDocuments                                                           *)
(***************************************************************************)

\* The id of a chunk is its strategy and its path; a law without a source, number or date of
\* effect is not read.
Unreadable(t) ==
    \/ ~t.headed
    \/ \E s \in Strategy : ~IsInjective([n \in DOMAIN ChunkLaw(t, s) |-> ChunkLaw(t, s)[n].path])

\* Each law replaces what was there of it; one transaction for the folder.
LoadDocuments(folder) ==
    /\ loads < MaxLoads /\ loads' = loads + 1
    /\ library' =
        IF \E n \in DOMAIN folder : Unreadable(folder[n]) THEN library
        ELSE FoldLeft(LAMBDA l, t : [l EXCEPT ![t.law] =
                                        [text |-> t, chunks |-> [s \in Strategy |-> ChunkLaw(t, s)]]],
                      library, folder)
    /\ UNCHANGED <<embedded, search>>

(***************************************************************************)
(* SearchDocuments and SqlDocumentRepository                               *)
(***************************************************************************)

\* The chunks of a strategy, by law and position.
Stored(strategy) ==
    Concat([n \in DOMAIN Law |-> IF library[Law[n]] = None THEN <<>> ELSE library[Law[n]].chunks[strategy]])

\* Bound: two of the orders that scores may give.
Rankings(chunks) == {chunks, Reverse(chunks)}

Smallest(a, b) == IF a < b THEN a ELSE b
Top(k, ranking) == SubSeq(ranking, 1, Smallest(k, Len(ranking)))
Paths(ranking) == [n \in DOMAIN ranking |-> ranking[n].path]

\* A chunk that both searches found is told as the second read it.
Merged(words, close, k) ==
    LET pool == IF k > Pool THEN k ELSE Pool
        a == Paths(Top(pool, words))
        b == Paths(Top(pool, close))
        Hit(path) == IF Position(b, path) # 0 THEN close[Position(b, path)]
                     ELSE words[Position(a, path)]
        ids == a \o SelectSeq(b, LAMBDA path : Position(a, path) = 0)
        by(x, y) == Ahead(a, b, x, y) \/ (Even(a, b, x, y) /\ Position(ids, x) < Position(ids, y))
        order == SortSeq(ids, by) IN
    Top(k, [n \in DOMAIN order |-> Hit(order[n])])

(***************************************************************************)
(* The page, the agent's Retrieve and AskDocuments                         *)
(***************************************************************************)

DocumentsInit ==
    /\ library = [l \in ToSet(Law) |-> None] /\ embedded = {}
    /\ search = None /\ loads = 0

\* What the search sees of a strategy is kept with it, for what is said of it below.
Opened(by, for, mode, strategy, k) ==
    [by |-> by, for |-> for, wanted |-> mode, mode |-> mode, fell |-> FALSE, strategy |-> strategy,
     k |-> k, at |-> IF by = "agent" /\ mode # "keyword" THEN "sync" ELSE "words",
     words |-> <<>>, close |-> <<>>, hits |-> <<>>, why |-> None]

\* Without an agent the page searches by words; to ask is left to the agent's own settings.
OpenSearch(by, for, mode, strategy) ==
    /\ search = None
    /\ by = "api" => mode = "keyword" /\ for = "search"
    /\ for = "ask" => mode = "hybrid" /\ strategy = "paragraph_item"
    /\ search' = Opened(by, for, mode, strategy, IF by = "agent" THEN AgentK ELSE UiK)
    /\ UNCHANGED <<library, embedded, loads>>

ByWords(r) == [r EXCEPT !.mode = "keyword", !.fell = TRUE, !.at = "words"]

\* Without a model for embedding there is nothing to sync; a sync may stop anywhere
\* and is left for later then (bound: after all texts of some strategies).
SyncTexts(strategies) ==
    /\ search # None /\ search.at = "sync"
    /\ embedded' = embedded \cup UNION {{c.text : c \in ToSet(Stored(s))} : s \in strategies}
    /\ search' = [search EXCEPT !.at = "embed"]
    /\ UNCHANGED <<library, loads>>
NoEmbedder ==
    /\ search # None /\ search.at = "sync" /\ search' = ByWords(search)
    /\ UNCHANGED <<library, embedded, loads>>

EmbedQuestion(ok) ==
    /\ search # None /\ search.at = "embed"
    /\ search' = IF ~ok THEN ByWords(search)
                 ELSE [search EXCEPT !.at = IF search.mode = "hybrid" THEN "words" ELSE "close"]
    /\ UNCHANGED <<library, embedded, loads>>

\* The two searches of a hybrid are two statements; what commits between them is seen by the
\* second only.
SearchWords ==
    /\ search # None /\ search.at = "words"
    /\ \E words \in Rankings(Stored(search.strategy)) :
          search' = IF search.mode = "hybrid" THEN [search EXCEPT !.words = words, !.at = "close"]
                    ELSE [search EXCEPT !.words = words, !.at = "found", !.hits = Top(search.k, words)]
    /\ UNCHANGED <<library, embedded, loads>>

Nearest ==
    /\ search # None /\ search.at = "close"
    /\ \E close \in Rankings(SelectSeq(Stored(search.strategy), LAMBDA c : c.text \in embedded)) :
          search' = [search EXCEPT !.close = close, !.at = "found", !.hits =
              IF search.mode = "hybrid" THEN Merged(search.words, close, search.k) ELSE Top(search.k, close)]
    /\ UNCHANGED <<library, embedded, loads>>

\* An answer that cannot be had begins again as a search by words, of the agent first; a search
\* goes to the api by words and says so when it was to be another.
AskFallsBack ==
    [Opened("agent", "fallback", "keyword", "paragraph_item", AgentK) EXCEPT !.why = "no_ai"]
SearchFallsBack ==
    [Opened("api", search.for, "keyword", search.strategy, UiK)
        EXCEPT !.wanted = search.wanted, !.why = search.why, !.fell = search.wanted # "keyword"]

\* The ui gives up on the agent: it died, took too long, or says what is not understood.
AgentFails ==
    /\ search # None /\ search.by = "agent" /\ search.at \notin {"shown", "error"}
    /\ search' = IF search.for = "ask" THEN AskFallsBack ELSE SearchFallsBack
    /\ UNCHANGED <<library, embedded, loads>>

\* The ledger fails: an answer says so and shows nothing, a search of the agent fails as a whole,
\* and after it there is nothing to fall back to.
LedgerFails ==
    /\ search # None /\ search.at \in {"sync", "words", "close"}
    /\ IF search.by = "agent" /\ search.for # "ask" THEN AgentFails
       ELSE /\ search' = IF search.for = "ask"
                         THEN [search EXCEPT !.at = "shown", !.why = "no_documents", !.hits = <<>>]
                         ELSE [search EXCEPT !.at = "error"]
            /\ UNCHANGED <<library, embedded, loads>>

ShowHits ==
    /\ search # None /\ search.at = "found"
    /\ search' = [search EXCEPT !.at = "shown"]
    /\ UNCHANGED <<library, embedded, loads>>

DocumentsNext ==
    \/ \E folder \in Folders : LoadDocuments(folder)
    \/ \E by \in {"agent", "api"}, for \in {"search", "ask"}, mode \in SearchMode,
          strategy \in Strategy : OpenSearch(by, for, mode, strategy)
    \/ \E strategies \in SUBSET Strategy : SyncTexts(strategies)
    \/ NoEmbedder
    \/ \E ok \in BOOLEAN : EmbedQuestion(ok)
    \/ SearchWords \/ Nearest \/ AgentFails \/ LedgerFails \/ ShowHits

-----------------------------------------------------------------------------

LinesIn(t) ==
    Concat([n \in DOMAIN t.articles |->
        Concat([m \in DOMAIN t.articles[n].paragraphs |->
            IF t.articles[n].paragraphs[m].kind = "tags" THEN <<>> ELSE t.articles[n].paragraphs[m].lines])])
Bodies(chunks) == Concat([n \in DOMAIN chunks |-> chunks[n].body])

\* Of every law that is there, each structured strategy holds every line of every paragraph but
\* those of tags, once and in order, and the windows hold the whole body (law_chunking.chunk_law,
\* LoadDocuments).  A search tells each chunk once; the first few of a hybrid search are what a
\* search for fewer would tell (SearchDocuments, FUSION_POOL); and whoever sees the result of
\* another mode than the one that was chosen is told so (Retrieve, AgentDocumentGateway).
DocumentsAreWhole ==
    /\ \A l \in ToSet(Law) : library[l] # None =>
          /\ \A s \in {"paragraph", "paragraph_item"} :
                Bodies(library[l].chunks[s]) = LinesIn(library[l].text)
          /\ Bodies(library[l].chunks["fixed_500"]) = BodyOf(library[l].text)
    /\ search # None /\ search.at \in {"found", "shown"} =>
          /\ IsInjective(Paths(search.hits)) /\ Len(search.hits) <= search.k
          /\ search.mode = "hybrid" /\ search.why = None =>
                \A k \in 1..search.k : Merged(search.words, search.close, k) = Top(k, search.hits)
          /\ search.at = "shown" /\ search.for = "search" => (search.fell <=> search.mode # search.wanted)
          /\ search.for # "ask" => (search.for = "fallback" <=> search.why = "no_ai")
=============================================================================
