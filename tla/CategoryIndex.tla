---------------------------- MODULE CategoryIndex ----------------------------
(***************************************************************************)
(* The index of texts and the two searches over it: a request for a        *)
(* category or for articles of the law first has the missing texts         *)
(* embedded (SyncIndex, one lock for each kind of request), then searches, *)
(* and a doubtful category goes to the model.  A vector is the number of   *)
(* the embedding it came from: the provider may answer the same text with  *)
(* another vector.  Scores and similarities are left out: whatever order   *)
(* and confidence they may give.                                           *)
(***************************************************************************)
EXTENDS Integers, Sequences, FiniteSets, SequencesExt, RankFusion, Absent

CONSTANTS
    Text,           \* the texts entries are indexed by
    Article,        \* the texts of the articles, in the order of their hashes
    Entry,          \* bound: the ids of the entries, in the order of occurred_at
    Ledgers,        \* bound: the entries there are at first
    Choosable,      \* the categories of the direction that is asked for
    RuleFor,        \* the category the rules give a text, or None
    Request,        \* the requests to the agent, [kind, text] each
    Batch,          \* _BATCH
    MaxPending,     \* MAX_PENDING
    Rounds,         \* _ROUNDS
    HistoryWindow,  \* _HISTORY_WINDOW
    HistoryAgree,   \* _HISTORY_AGREE
    VectorId,       \* bound: the vectors a provider may answer with
    MaxSaves,       \* bound: the writes of entries
    Meetings        \* bound: which requests come together

VARIABLES
    entries,   \* id -> [text, category, ours: it has the direction that is asked for], or None
    vectors,   \* text -> its vector, or None (text_embeddings, and the key emb:model:hash)
    holder,    \* kind of request -> who holds the lock of its SyncIndex, or None
    ask,       \* request -> how far it is; since: the entries unchanged since it came
    answer,    \* request -> what it was answered
    saves      \* the number of writes so far

index_vars == <<entries, vectors, holder, ask, answer, saves>>

All == Text \cup {Article[i] : i \in DOMAIN Article}
Kind == {"category", "documents"}
Begun == {e \in Entry : entries[e] # None}
Smaller(a, b) == IF a < b THEN a ELSE b

(***************************************************************************)
(* ListPendingTexts: what has no vector yet                                *)
(***************************************************************************)

EntriesPending == {t \in Text : vectors[t] = None /\ \E e \in Begun : entries[e].text = t}
ArticlesPending == {i \in DOMAIN Article : vectors[Article[i]] = None}
FirstArticles(n) ==
    {Article[i] : i \in {j \in ArticlesPending : Cardinality({k \in ArticlesPending : k < j}) < n}}

\* (mistake) The articles come first.
Pending_ArticlesFirst(limit) ==
    LET cap == Smaller(limit, MaxPending)
        articles == FirstArticles(cap) IN
    {articles \cup more : more \in {T \in SUBSET EntriesPending :
        Cardinality(T) = Smaller(cap - Cardinality(articles), Cardinality(EntriesPending))}}

\* The texts of entries first, in no order; articles fill the places that are left, except the
\* ones that are the text of an entry as well.
Pending(limit) ==
    LET cap == Smaller(limit, MaxPending) IN
    {T \cup FirstArticles(cap - Cardinality(T)) :
        T \in {S \in SUBSET EntriesPending :
                   Cardinality(S) = Smaller(cap, Cardinality(EntriesPending))}}

(***************************************************************************)
(* SuggestCategory and SearchDocuments                                     *)
(***************************************************************************)

\* The entries of a text in this direction, the newest ones of them.
OfText(t) == {e \in Begun : entries[e].text = t /\ entries[e].ours}
Recent(t) == {e \in OfText(t) : Cardinality({f \in OfText(t) : f > e}) < HistoryWindow}
Agreeing(t) ==
    {c \in Choosable :
        /\ Cardinality({e \in Recent(t) : entries[e].category = c}) >= HistoryAgree
        /\ \A d \in Choosable : Cardinality({e \in Recent(t) : entries[e].category = d})
                                    <= Cardinality({e \in Recent(t) : entries[e].category = c})}
Neighbours ==
    {e \in Begun : vectors[entries[e].text] # None /\ entries[e].ours /\ entries[e].category \in Choosable}

\* The longest pattern that fits names a category of this direction, or no rule holds.
ByRule(t) == {RuleFor[t]} \cap Choosable

\* The votes weigh what the similarities are, which may be anything: any neighbour may win.
Vote(neighbours) == {entries[e].category : e \in neighbours}

Hits(strategy, tops, given) == {[by |-> strategy, top |-> c, given |-> given] : c \in tops}

\* Rule, then history, then neighbours of the text's own vector or of the one that was sent.
Suggested(t, sent) ==
    IF ByRule(t) # {} THEN Hits("rule", ByRule(t), {})
    ELSE IF Agreeing(t) # {} THEN Hits("history", Agreeing(t), Recent(t))
    ELSE IF vectors[t] = None /\ ~sent THEN Hits("needs_vector", {None}, {})
    ELSE IF Neighbours = {} THEN Hits("none", {None}, {})
    ELSE Hits("vector", Vote(Neighbours), Neighbours)

Orders(S) == Bijection(1..Cardinality(S), S)

\* Articles that are even in score and rank come in any order.
Fused(a, b) ==
    {o \in Orders(ToSet(a) \cup ToSet(b)) :
        \A i, j \in DOMAIN o : i < j => ~Ahead(a, b, o[j], o[i])}

(***************************************************************************)
(* SyncIndex.run                                                           *)
(***************************************************************************)

Phase(what) == [at |-> what, since |-> {}, whole |-> FALSE, pulled |-> {}, left |-> {},
                vector |-> None, round |-> 0, found |-> None]

IndexInit ==
    /\ entries \in Ledgers /\ vectors = [t \in All |-> None] /\ saves = 0
    /\ holder = [k \in Kind |-> None]
    /\ \E S \in Meetings : ask = [r \in Request |-> Phase(IF r \in S THEN "idle" ELSE "done")]
    /\ answer = [r \in Request |-> None]

\* Another part of the system records an entry, changes it or takes it away.
SaveEntry(e, row) ==
    /\ saves < MaxSaves /\ saves' = saves + 1
    /\ entries' = [entries EXCEPT ![e] = row]
    /\ ask' = [r \in Request |-> [ask[r] EXCEPT !.since = @ \ {e}]]
    /\ UNCHANGED <<vectors, holder, answer>>

Release(r) == holder' = [holder EXCEPT ![r.kind] = None]
Search(r, whole) ==
    ask' = [ask EXCEPT ![r] = [Phase("searching") EXCEPT !.since = ask[r].since, !.whole = whole]]
Done(r) == ask' = [ask EXCEPT ![r] = Phase("done")]
Says(r, what) == answer' = [answer EXCEPT ![r] = what]

BeginAsk(r) ==
    /\ ask[r].at = "idle"
    /\ ask' = [ask EXCEPT ![r].at = "waiting", ![r].since = Begun]
    /\ UNCHANGED <<entries, vectors, holder, answer, saves>>

TakeLock(r) ==
    /\ ask[r].at = "waiting" /\ holder[r.kind] = None
    /\ holder' = [holder EXCEPT ![r.kind] = r]
    /\ ask' = [ask EXCEPT ![r].at = "pulling", ![r].round = 1]
    /\ UNCHANGED <<entries, vectors, answer, saves>>

Pull(r) ==
    /\ ask[r].at = "pulling"
    /\ \E found \in Pending(Batch) :
          \/ /\ found = {}
             /\ Search(r, TRUE) /\ Release(r)
          \/ /\ found # {}
             /\ ask' = [ask EXCEPT ![r].at = "embedding", ![r].pulled = found]
             /\ UNCHANGED holder
    /\ UNCHANGED <<entries, vectors, answer, saves>>

\* A provider that is out of reach is no error: the search goes on with the vectors there are.
EmbedTexts(r, v) ==
    /\ ask[r].at = "embedding"
    /\ \/ /\ v # None /\ UNCHANGED holder
          /\ ask' = [ask EXCEPT ![r].at = "putting", ![r].left = ask[r].pulled, ![r].vector = v]
       \/ v = None /\ Search(r, FALSE) /\ Release(r)
    /\ UNCHANGED <<entries, vectors, answer, saves>>

\* The last text of a batch that was not full, or of the last round, ends the run.
PutVector(r, t) ==
    /\ ask[r].at = "putting" /\ t \in ask[r].left
    /\ vectors[t] \in {None, ask[r].vector}
    /\ vectors' = [vectors EXCEPT ![t] = ask[r].vector]
    /\ LET short == Cardinality(ask[r].pulled) < Batch IN
       \/ /\ ask[r].left # {t} /\ UNCHANGED holder
          /\ ask' = [ask EXCEPT ![r].left = @ \ {t}]
       \/ /\ ask[r].left = {t} /\ ~short /\ ask[r].round < Rounds /\ UNCHANGED holder
          /\ ask' = [ask EXCEPT ![r].at = "pulling", ![r].round = @ + 1, ![r].left = {}]
       \/ /\ ask[r].left = {t} /\ (short \/ ask[r].round = Rounds) /\ Release(r)
          /\ Search(r, short)
    /\ UNCHANGED <<entries, answer, saves>>

\* The api is out of reach, or has another vector of the text under the same key: the put is refused.
SyncFails(r) ==
    /\ ask[r].at \in {"pulling", "putting"}
    /\ Done(r) /\ Release(r) /\ Says(r, [by |-> "failed"])
    /\ UNCHANGED <<entries, vectors, saves>>

(***************************************************************************)
(* ClassifyCategory and Retrieve                                           *)
(***************************************************************************)

Abstain == [by |-> "abstain"]
Chosen(by, c, given, found) == [by |-> by, category |-> c, given |-> given, found |-> found]

\* What a search shows of an entry it was given.
Shown(given) == {[id |-> e, category |-> entries[e].category] : e \in given}

\* Of the neighbours' categories one leads, and how clearly is their similarity's to say.
SearchCategory(r) ==
    /\ r.kind = "category" /\ ask[r].at \in {"searching", "again"}
    /\ \E found \in Suggested(r.text, ask[r].at = "again") :
       LET choose(by) == Done(r) /\ Says(r, Chosen(by, found.top, {}, Shown(found.given)))
           doubt == [found EXCEPT !.given = Shown(found.given)] IN
       \/ found.by = "needs_vector" /\ ask' = [ask EXCEPT ![r].at = "again"] /\ UNCHANGED answer
       \/ found.by \in {"needs_vector", "none"} /\ Done(r) /\ Says(r, Abstain)
       \/ found.by \in {"rule", "history"} /\ choose(found.by)
       \/ found.by = "vector" /\ choose("vector")
       \/ found.by = "vector" /\ Done(r) /\ Says(r, Abstain)
       \/ found.by = "vector" /\ UNCHANGED answer
              /\ ask' = [ask EXCEPT ![r].at = "choosing", ![r].found = doubt]
    /\ UNCHANGED <<entries, vectors, holder, saves>>

\* A category there is, and evidence that was shown.
Checked(pick, found) ==
    /\ pick.category \in Choosable
    /\ pick.evidence # {} /\ pick.evidence \subseteq {e.id : e \in found.given}

\* The model picks, or twice answers in no shape.
PickCategory(r, pick) ==
    /\ ask[r].at = "choosing" /\ Done(r)
    /\ Says(r, IF pick # None /\ Checked(pick, ask[r].found)
               THEN Chosen("llm", pick.category, pick.evidence, ask[r].found.given) ELSE Abstain)
    /\ UNCHANGED <<entries, vectors, holder, saves>>

\* Without a vector of the question the words alone are searched, and that is said.
SearchArticles(r, embedded) ==
    /\ r.kind = "documents" /\ ask[r].at = "searching" /\ Done(r)
    /\ LET near == {Article[i] : i \in {j \in DOMAIN Article : vectors[Article[j]] # None}} IN
       \E words \in Orders(ToSet(Article)) :
          \/ ~embedded /\ Says(r, [by |-> "words", hits |-> words, fell |-> TRUE])
          \/ /\ embedded
             /\ \E close \in Orders(near) : \E hits \in Fused(words, close) :
                    Says(r, [by |-> "both", hits |-> hits, fell |-> FALSE,
                             words |-> words, close |-> close])
    /\ UNCHANGED <<entries, vectors, holder, saves>>

SearchFails(r) ==
    /\ ask[r].at \in {"searching", "again", "choosing"}
    /\ Done(r) /\ Says(r, [by |-> "failed"])
    /\ UNCHANGED <<entries, vectors, holder, saves>>

Pick == [category : Choosable \cup {None}, evidence : SUBSET (Entry \cup {0})]

IndexNext ==
    \/ \E e \in Entry, row \in [text : Text, category : Choosable, ours : BOOLEAN] \cup {None} :
          SaveEntry(e, row)
    \/ \E r \in Request :
          \/ BeginAsk(r) \/ TakeLock(r) \/ Pull(r) \/ SyncFails(r) \/ SearchFails(r)
          \/ \E v \in VectorId \cup {None} : EmbedTexts(r, v)
          \/ \E t \in All : PutVector(r, t)
          \/ SearchCategory(r)
          \/ \E pick \in Pick \cup {None} : PickCategory(r, pick)
          \/ \E embedded \in BOOLEAN : SearchArticles(r, embedded)

IndexSpec == IndexInit /\ [][IndexNext]_index_vars

IndexCategory == Choosable \cup UNION {CategoriesOf[d] : d \in DOMAIN CategoriesOf}
IndexRow == [text : Text, category : IndexCategory, ours : BOOLEAN]

ASSUME IndexAssumption ==
    /\ Batch \in Nat \ {0} /\ MaxPending \in Nat /\ Batch <= MaxPending
    /\ IsFiniteSet(Text) /\ IsFiniteSet(Entry) /\ Entry \subseteq Int
    /\ Article \in Seq(ToSet(Article))
    /\ \A i, j \in DOMAIN Article : Article[i] = Article[j] => i = j
    /\ \A r \in Request : r.kind \in Kind
    /\ Ledgers \subseteq [Entry -> IndexRow \cup {None}]
    /\ None \notin Request /\ None \notin VectorId /\ None \notin IndexRow

-----------------------------------------------------------------------------

Doubt == [by : {"vector"}, top : Choosable, given : SUBSET [id : Entry, category : Choosable]]
AskState == [at : {"idle", "waiting", "pulling", "embedding", "putting", "searching", "again",
                   "choosing", "done"},
             since : SUBSET Entry, whole : BOOLEAN, pulled : SUBSET All, left : SUBSET All,
             vector : VectorId \cup {None}, round : Nat, found : Doubt \cup {None}]

IndexTypeOK ==
    /\ entries \in [Entry -> IndexRow \cup {None}]
    /\ vectors \in [All -> VectorId \cup {None}]
    /\ holder \in [Kind -> Request \cup {None}]
    /\ ask \in [Request -> AskState]
    /\ DOMAIN answer = Request

\* Who pulls, embeds or puts holds the lock, and puts a vector there is.
LocksHold ==
    \A r \in Request :
        /\ ask[r].at \in {"pulling", "embedding", "putting"} => holder[r.kind] = r
        /\ ask[r].at = "putting" => ask[r].vector # None

\* What was there before a request has a vector, or is in a batch that was not full.
PulledAreAll ==
    \A r \in Request :
        /\ ask[r].since \subseteq Begun
        /\ ask[r].at \in {"embedding", "putting"} /\ Cardinality(ask[r].pulled) < Batch =>
               \A e \in ask[r].since :
                   \/ vectors[entries[e].text] # None
                   \/ entries[e].text \in IF ask[r].at = "putting" THEN ask[r].left ELSE ask[r].pulled
        /\ ask[r].whole => ask[r].at # "idle" /\ \A e \in ask[r].since : vectors[entries[e].text] # None

-----------------------------------------------------------------------------

\* Every entry that was there before a request came, and is as it was, is in the index when its
\* search begins, if the sync found less than a batch in its last round; and no two requests of a
\* kind are in their sync at one time (SyncIndex, ListPendingTexts).
SyncFindsEntries ==
    \A r \in Request :
        /\ ask[r].whole => \A e \in ask[r].since : vectors[entries[e].text] # None
        /\ ask[r].at \in {"pulling", "embedding", "putting"} => holder[r.kind] = r

\* A category that was chosen is one of the direction, and rests on entries that were there at
\* the search: by history on enough of them with that very category, by neighbours on one, by
\* the model on ones it was shown (ClassifyCategory._decide, _checked).
ChoiceIsGrounded ==
    \A r \in Request :
        answer[r] # None /\ answer[r].by \in {"history", "vector", "llm"} =>
            LET same == {e \in answer[r].found : e.category = answer[r].category} IN
            /\ answer[r].category \in Choosable
            /\ answer[r].by = "history" => Cardinality(same) >= HistoryAgree
            /\ answer[r].by = "vector" => same # {}
            /\ answer[r].by = "llm" => /\ answer[r].given # {}
                                       /\ answer[r].given \subseteq {e.id : e \in answer[r].found}

\* No article is lost or told twice where two orders become one, and of two articles the one
\* that is ahead in both stays ahead (rank_fusion.reciprocal_rank_fusion).
FusionKeepsOrder ==
    \A r \in Request :
        answer[r] # None /\ answer[r].by = "both" =>
            /\ ToSet(answer[r].hits) = ToSet(Article) /\ Len(answer[r].hits) = Len(Article)
            /\ \A x, y \in ToSet(answer[r].close) :
                   /\ Position(answer[r].words, x) < Position(answer[r].words, y)
                   /\ Position(answer[r].close, x) < Position(answer[r].close, y)
                   => Position(answer[r].hits, x) < Position(answer[r].hits, y)

\* What the two searches over the index may be relied on for.
IndexServes == SyncFindsEntries /\ ChoiceIsGrounded /\ FusionKeepsOrder

IndexInductive == IndexTypeOK /\ LocksHold /\ PulledAreAll /\ ChoiceIsGrounded /\ FusionKeepsOrder
=============================================================================
