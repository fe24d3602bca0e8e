------------------------------ MODULE ModelOutput ------------------------------
(***************************************************************************)
(* What the agent lets through of a model's words: the steps of a plan,    *)
(* the charts and sentences of a report, the sentence of a chat's answer   *)
(* and the answer out of articles.  A text is the numbers, the refs of     *)
(* articles and the scolding in it; arguments are their numbers, None when *)
(* they are no object and Wrong when the tool does not take them.          *)
(***************************************************************************)
EXTENDS Integers, Sequences, FiniteSets, SequencesExt, Places, Absent

CONSTANTS
    Sums,           \* the tools that tell sums
    Arg,            \* the arguments a tool takes
    NumbersOf,      \* the numbers in arguments, and of the days they mean
    Chunk,          \* the articles' refs
    NumbersIn,      \* the numbers in an article
    TodayNumbers,   \* the numbers of today's date
    Numbers,        \* bound: the numbers there are
    Answers,        \* bound: the rows a sum may answer with, None where a field is missing
    Fixed,          \* the calls that come before any plan
    PerPlan,        \* the steps a plan may have
    MaxCharts, MaxHighlights,  \* MAX_CHARTS, MAX_HIGHLIGHTS
    MaxSteps,       \* bound: the calls of one run
    Plans, Layouts, Sentences  \* bound: what the model says

Documents == "search_documents"

VARIABLES
    flow,   \* the run: "report", "chat" or "ask"
    steps,  \* the calls that were made and their results
    plans,  \* how often it was planned, 2 when it is not planned again
    shown   \* what the user is shown, or None

output_vars == <<flow, steps, plans, shown>>

\* A result: the rows, each a number or None where a field is missing, or the articles found.
Failed == [ok |-> FALSE, rows |-> <<>>, chunks |-> {}]
Result(tool) ==
    {Failed} \cup
    IF tool = Documents THEN [ok : {TRUE}, rows : {<<>>}, chunks : SUBSET Chunk]
    ELSE [ok : {TRUE}, rows : Answers, chunks : {{}}]
Step(id, tool, arg, result) == [id |-> id, tool |-> tool, arg |-> arg, result |-> result]

(***************************************************************************)
(* number_check                                                            *)
(***************************************************************************)

Seen == ToSet(steps)

\* (mistake) The numbers of every article that was found may be told.
NumbersFromTools_Found ==
    TodayNumbers \cup UNION {(ToSet(s.result.rows) \ {None}) \cup NumbersOf[s.arg]
                             \cup UNION {NumbersIn[c] : c \in s.result.chunks} :
                             s \in {t \in Seen : t.result.ok}}

\* Of a step that failed nothing may be told, and of articles only what is cited.
NumbersFromTools ==
    TodayNumbers \cup UNION {(ToSet(s.result.rows) \ {None}) \cup NumbersOf[s.arg] :
                             s \in {t \in Seen : t.result.ok /\ t.tool # Documents}}

Supported(text, allowed) == text.numbers \subseteq allowed

(***************************************************************************)
(* plan_check, chart_fill, highlight_check                                 *)
(***************************************************************************)

Call(step) == [tool |-> step.tool, arg |-> step.arg]

\* The first PerPlan steps that a tool takes and that were not called before.
CheckedPlan(plan) ==
    LET called == {Call(s) : s \in Seen}
        fresh == {i \in DOMAIN plan :
                     /\ plan[i].tool \in Sums /\ plan[i].arg \in Arg
                     /\ Call(plan[i]) \notin called
                     /\ \A j \in 1..(i - 1) : Call(plan[j]) # Call(plan[i])}
        kept == FirstOf(Those(plan, fresh), PerPlan) IN
    [i \in DOMAIN kept |-> [id |-> Len(steps) + i, tool |-> kept[i].tool, arg |-> kept[i].arg]]

\* The values are those of the source: the first call of that name.
SourceOf(spec) ==
    LET named == {i \in DOMAIN steps : steps[i].id = spec.source} IN
    IF named = {} THEN Failed ELSE steps[CHOOSE i \in named : \A j \in named : i <= j].result

FillChart(spec) ==
    LET rows == SourceOf(spec).rows IN
    IF ~spec.well \/ ~SourceOf(spec).ok \/ rows = <<>> \/ None \in ToSet(rows) THEN None
    ELSE [title |-> spec.title, values |-> rows, note |-> IF spec.note = {} THEN spec.note ELSE None,
          source |-> spec.source]

Charts(specs) ==
    LET drawn == [i \in DOMAIN specs |-> FillChart(specs[i])] IN
    FirstOf(Those(drawn, {i \in DOMAIN drawn : drawn[i] # None}), MaxCharts)

Highlights(texts) ==
    FirstOf(Those(texts, {i \in DOMAIN texts : ~texts[i].scolds /\ Supported(texts[i], NumbersFromTools)}),
            MaxHighlights)

(***************************************************************************)
(* document_sources, citation_check, answer_text                           *)
(***************************************************************************)

DocumentsIn == UNION {s.result.chunks : s \in {t \in Seen : t.tool = Documents /\ t.result.ok}}

CheckCitations(numbers, cited, sources, allowed) ==
    IF ~(cited \subseteq sources) THEN "unknown"
    ELSE IF cited = {} THEN "missing"
    ELSE IF ~(numbers \subseteq allowed \cup UNION {NumbersIn[c] : c \in cited}) THEN "numbers"
    ELSE "ok"

Verified(text) ==
    LET verdict == CheckCitations(text.numbers, text.refs, DocumentsIn, NumbersFromTools) IN
    IF verdict = "missing" THEN Supported(text, NumbersFromTools) ELSE verdict = "ok"

Tables == {s.id : s \in {t \in Seen : t.result.ok /\ t.tool # Documents}}

\* stop: how the loop ended.  A sentence that is not verified is left out, the tables stay; own:
\* what is said without the model.
AnswerText(stop, text) ==
    LET said == IF text # None /\ Verified(text) THEN text ELSE None
        refs == IF said = None THEN {} ELSE said.refs
        found == IF refs # {} THEN {} ELSE DocumentsIn IN
    IF stop = "unavailable"
    THEN [text |-> None, own |-> "unavailable", tables |-> {}, sources |-> {}]
    ELSE IF stop # "answered"
    THEN [text |-> None, own |-> "partial", tables |-> Tables, sources |-> DocumentsIn]
    ELSE [text |-> said,
          own |-> IF said # None \/ Tables # {} THEN "none"
                  ELSE IF found # {} THEN "uncited" ELSE "unverified",
          tables |-> Tables, sources |-> IF refs # {} THEN refs ELSE found]

(***************************************************************************)
(* AskDocuments                                                            *)
(***************************************************************************)

\* chunks: what Retrieve found, None when the ledger was out of reach.
AskedDocuments(chunks, draft) ==
    LET end(status, cited) == [status |-> status, answer |-> IF status = "answered" THEN draft ELSE None,
                               cited |-> cited, chunks |-> IF chunks = None THEN {} ELSE chunks] IN
    IF chunks = None THEN end("search_only", {})
    ELSE IF chunks = {} THEN end("abstained", {})
    ELSE IF draft = None THEN end("search_only", {})
    ELSE IF draft = Wrong THEN end("abstained", {})
    ELSE LET verdict == CheckCitations(draft.numbers, draft.refs, chunks, {}) IN
         CASE verdict \in {"unknown", "numbers"} -> end("search_only", {})
           [] verdict = "missing" -> end("abstained", {})
           [] verdict = "ok" -> end("answered", draft.refs)

(***************************************************************************)
(* The runs                                                                *)
(***************************************************************************)

OutputInit ==
    /\ flow \in {"report", "chat", "ask"} /\ plans = 0 /\ shown = None
    /\ IF flow # "report" THEN steps = <<>>
       ELSE \E results \in [DOMAIN Fixed -> Result("sums") \ {Failed}] :
                steps = [i \in DOMAIN Fixed |-> Step(i, Fixed[i].tool, Fixed[i].arg, results[i])]

\* BuildInsights: a step that is not done in time is left out of the steps; only when nothing
\* came of a plan there is another.
RunPlan(plan, results) ==
    /\ flow = "report" /\ shown = None /\ plans < 2
    /\ LET kept == CheckedPlan(plan)
           ran == [i \in DOMAIN kept |->
                      IF results[i] = None THEN None
                      ELSE Step(kept[i].id, kept[i].tool, kept[i].arg, results[i])] IN
       /\ steps' = steps \o Those(ran, {i \in DOMAIN ran : ran[i] # None})
       /\ plans' = IF kept # <<>> /\ \A i \in DOMAIN ran : ran[i] = None \/ ran[i].result.rows = <<>>
                   THEN plans + 1 ELSE 2
    /\ UNCHANGED <<flow, shown>>

Assemble(draft) ==
    /\ flow = "report" /\ shown = None
    /\ shown' = [charts |-> Charts(draft.charts), highlights |-> Highlights(draft.highlights)]
    /\ UNCHANGED <<flow, steps, plans>>

\* AnswerQuestion: the model calls a tool, or says its last word.
CallOne(tool, arg, result) ==
    /\ flow = "chat" /\ shown = None /\ Len(steps) < MaxSteps
    /\ steps' = Append(steps, Step(Len(steps) + 1, tool, arg, IF arg \in Arg THEN result ELSE Failed))
    /\ UNCHANGED <<flow, plans, shown>>

AnswerChat(stop, text) ==
    /\ flow = "chat" /\ shown = None /\ shown' = AnswerText(stop, text)
    /\ UNCHANGED <<flow, steps, plans>>

AnswerDocuments(chunks, draft) ==
    /\ flow = "ask" /\ shown = None /\ shown' = AskedDocuments(chunks, draft)
    /\ UNCHANGED <<flow, steps, plans>>

OutputNext ==
    \/ /\ flow = "report" /\ shown = None
       /\ \/ \E plan \in Plans : \E results \in [1..PerPlan -> Result("sums") \cup {None}] :
                 RunPlan(plan, results)
          \/ \E draft \in Layouts : Assemble(draft)
    \/ /\ flow = "chat" /\ shown = None
       /\ \/ \E tool \in {"summarize_spending", Documents}, arg \in Arg \cup {Wrong} :
                 \E result \in Result(tool) : CallOne(tool, arg, result)
          \/ \E stop \in {"unavailable", "stopped", "answered"}, text \in Sentences \cup {None} :
                 AnswerChat(stop, text)
    \/ /\ flow = "ask" /\ shown = None
       /\ \E chunks \in SUBSET Chunk \cup {None}, draft \in Sentences \cup {None, Wrong} :
              AnswerDocuments(chunks, draft)

OutputSpec == OutputInit /\ [][OutputNext]_output_vars

IsSequence(s) == Len(s) \in Nat /\ DOMAIN s = 1..Len(s)

ASSUME OutputAssumption ==
    /\ PerPlan \in Nat /\ MaxSteps \in Nat /\ MaxCharts \in Nat /\ MaxHighlights \in Nat
    /\ Answers \subseteq Seq(Numbers \cup {None})
    /\ Fixed \in Seq([tool : Sums, arg : Arg])
    /\ \A i, j \in DOMAIN Fixed : i # j => Call(Fixed[i]) # Call(Fixed[j])
    /\ \A plan \in Plans : IsSequence(plan)
    /\ \A draft \in Layouts : IsSequence(draft.charts) /\ IsSequence(draft.highlights)

-----------------------------------------------------------------------------

Good == {s \in Seen : s.result.ok}
OfSums ==
    TodayNumbers \cup UNION {{s.result.rows[i] : i \in DOMAIN s.result.rows} \cup NumbersOf[s.arg] :
                             s \in {t \in Good : t.tool # Documents}}

\* A sentence that a user is shown has no number in it that no query told: in the report and in
\* the chat it is one of a call that succeeded, of its days, of today or of an article that is
\* cited and was found, and an answer out of articles cites some it was given; a chart has the
\* rows of a call that succeeded, and the line under it no number.  The title of a chart is
\* left out: it stands as the model wrote it, numbers and all (chart_fill.py:47).  No plan has a
\* call made twice, or more of them than it may
\* (number_check, chart_fill, highlight_check, citation_check, answer_text, plan_check).
ShownIsGrounded ==
    /\ \A i, j \in DOMAIN steps :
           flow = "report" /\ i # j => [steps[i] EXCEPT !.id = 0, !.result = Failed]
                                         # [steps[j] EXCEPT !.id = 0, !.result = Failed]
    /\ Len(steps) <= IF flow = "report" THEN Len(Fixed) + 2 * PerPlan ELSE MaxSteps
    /\ flow = "report" /\ shown # None =>
           /\ \A i \in DOMAIN shown.highlights :
                  shown.highlights[i].numbers \subseteq OfSums /\ ~shown.highlights[i].scolds
           /\ \A i \in DOMAIN shown.charts :
                  /\ ToSet(shown.charts[i].values) \subseteq Numbers /\ shown.charts[i].note \in {{}, None}
                  /\ \E s \in Good : s.id = shown.charts[i].source
                                     /\ s.result.rows = shown.charts[i].values
    /\ flow = "chat" /\ shown # None /\ shown.text # None =>
           /\ shown.text.refs \subseteq DocumentsIn
           /\ shown.text.numbers \subseteq OfSums \cup UNION {NumbersIn[c] : c \in shown.text.refs}
    /\ flow = "ask" /\ shown # None /\ shown.status = "answered" =>
           /\ shown.cited # {} /\ shown.cited \subseteq shown.chunks
           /\ shown.answer.numbers \subseteq UNION {NumbersIn[c] : c \in shown.cited}

OutputResult == {Failed} \cup [ok : {TRUE}, rows : Answers \cup {<<>>}, chunks : SUBSET Chunk]
OutputStep == [id : Nat, tool : Sums \cup {"summarize_spending", Documents}, arg : Arg \cup {Wrong},
               result : OutputResult]

OutputTypeOK ==
    /\ flow \in {"report", "chat", "ask"} /\ plans \in 0..2
    /\ steps \in Seq(OutputStep)

\* A report has no call twice, and no more of them than its plans may have had.
PlansAreKept ==
    IF flow # "report" THEN Len(steps) <= MaxSteps
    ELSE /\ Len(steps) <= Len(Fixed) + plans * PerPlan
         /\ \A i \in DOMAIN steps : steps[i].result \in Result("sums")
         /\ \A i, j \in DOMAIN steps : i # j => Call(steps[i]) # Call(steps[j])

OutputInductive == OutputTypeOK /\ PlansAreKept /\ ShownIsGrounded
=============================================================================
