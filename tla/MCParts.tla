-------------------------------- MODULE MCParts --------------------------------
(***************************************************************************)
(* The parts that stand for themselves, in one instance: which of them is  *)
(* looked at is chosen at the start, the others stay as they begin.        *)
(***************************************************************************)
EXTENDS LedgerStats, Pages, CallLimit, CategoryIndex, ToolArguments, Reading, Forms, ModelOutput,
        RunLog, Schema, Documents, StandIns

VARIABLE part  \* the part that is looked at

Part == {"stats", "pages", "calls", "index", "periods", "arguments", "reading", "forms", "output",
         "runs", "schema", "documents", "standins"}

MCCategories == [expense |-> {"food"}, income |-> {"salary"}]

\* LedgerStats
E(m, d, c, a) == [month |-> m, day |-> d, category |-> c, amount |-> a]
MCDrafts == {E(1, 1, "food", 2), E(1, 3, "food", 2), E(2, 1, "food", 4), E(2, 3, "food", 7),
             E(2, 2, "etc", 9), E(2, 1, "salary", 5)}

\* CategoryIndex
Ask(kind, text) == [kind |-> kind, text |-> text]
MCRequest == {Ask("category", "a"), Ask("category", "b"), Ask("documents", "q")}
MCMeetings == {{Ask("category", "a"), Ask("category", "b")}, {Ask("category", "b"), Ask("documents", "q")}}
NoEntry == [e \in {1, 2} |-> None]
Food(text) == [text |-> text, category |-> "food", ours |-> TRUE]
MCLedgers == {[NoEntry EXCEPT ![1] = Food("a")], [NoEntry EXCEPT ![1] = Food("b"), ![2] = Food("b")]}
MCRules == [t \in {"a", "b"} |-> None]
MCArticle == <<"x", "b">>

\* ToolArguments and Reading
\* The days of a sentence and of a tool's call lie behind those of PeriodsSpec, but for one.
MCDays == {Date(2028, 2, 29), Date(2028, 3, 6), Date(2027, 12, 31)}
MCAskedDays == {Date(2028, 2, 29), Date(2028, 3, 6)}
On(day, m, d, at) == [on |-> day, month |-> m, date |-> d, minute |-> at]
MCWhens == {On("unspecified", 0, 0, None), On("unspecified", 0, 0, 1200), On("yesterday", 0, 0, 1200),
            On("date", 2, 29, None), On("date", 12, 31, 540)}
MCExtractions ==
    {Wrong}
    \cup [kind : {"transaction"}, amount : {-1, 0, 3, 4}, direction : {"income", None},
          payment : {"cash", None}, merchant : {"cafe", None}, when : MCWhens]
    \cup [kind : {"question"}, amount : {0}, direction : {None}, payment : {None}, merchant : {None},
          when : {On("unspecified", 0, 0, None)}]

\* Forms
F(d, a, c) == [direction |-> d, amount |-> a, category |-> c]
MCTypeable == {F("expense", 1, "food"), F("income", Zero, "salary")}
MCReadings == {F("income", 1, "salary"), F(None, 1, None), F(None, None, None)}

\* ModelOutput
MCNumbersOf == [a \in {"p", "q"} |-> IF a = "p" THEN {2} ELSE {}]
MCNumbersIn == [c \in {"x", "y"} |-> IF c = "x" THEN {3} ELSE {1}]
P(t, a) == [tool |-> t, arg |-> a]
MCFixed == <<P("sum", "p")>>
MCPlans == {<<>>, <<P("sum", "p"), P("sum", "p"), P("sum", None)>>,
            <<P("sum", "q"), P("cmp", "p"), P("cmp", "q")>>,
            <<P("write", "p"), P("sum", "p"), P("cmp", Wrong), P("cmp", "q")>>}
MCAnswers == {<<>>, <<1>>, <<None>>}
T(n, s) == [numbers |-> n, scolds |-> s]
C(s, w, n) == [source |-> s, well |-> w, title |-> {4}, note |-> n]
MCLayouts ==
    [charts : {<<>>, <<C(1, TRUE, {1}), C(2, TRUE, {}), C(4, FALSE, {})>>},
     highlights : {<<>>, <<T({1}, FALSE), T({2}, FALSE), T({3}, FALSE), T({}, TRUE)>>,
                   <<T({}, FALSE), T({4}, FALSE), T({1, 2}, FALSE)>>}]
MCSentences == [numbers : SUBSET {1, 2, 3, 4}, refs : SUBSET {"x", "y"}]

\* RunLog
ToolStep(id, tool) == [id |-> id, tool |-> tool]
MCChats == {<<ToolStep(<<"a", <<>>>>, "sum"), ToolStep(<<"a", <<>>>>, "sum")>>,
            <<ToolStep(<<"a", <<3>>>>, "sum"), ToolStep(<<"a", <<>>>>, "sum"), ToolStep(<<"a", <<>>>>, "sum")>>,
            <<ToolStep(<<"b", <<>>>>, "long")>>, <<ToolStep(<<None, <<>>>>, "sum")>>,
            [n \in 1..6 |-> ToolStep(<<"a", <<>>>>, "sum")]}
MCFilters == {[seat |-> None, status |-> None], [seat |-> "capture", status |-> "awaiting"]}

\* Schema
MCNames == {[shop |-> "cafe", tail |-> TRUE], [shop |-> "", tail |-> FALSE]}
Kept(s, t) == [seat |-> s, status |-> t]
MCKinds == {Kept("chat", "done"), Kept("insight", "done"), Kept("capture", "awaiting_confirmation"),
            Kept("mcp", "failed")}

\* Documents
Ln(name, mark) == [line |-> name, mark |-> mark]
Clause(n, name) == [kind |-> "clause", number |-> n, lines |-> <<Ln(name, None)>>]
List(lines) == [kind |-> "list", number |-> None, lines |-> lines]
TagLine == [kind |-> "tags", number |-> None, lines |-> <<Ln("tag", None)>>]
Labelled(label, paragraphs) == [label |-> label, paragraphs |-> paragraphs]
LawText(law, headed, articles) == [law |-> law, headed |-> headed, articles |-> articles]
Short == LawText("l", TRUE, <<Labelled("a", <<TagLine, Clause(1, "x"), Clause(2, "y")>>)>>)
Long == LawText("l", TRUE, <<Labelled("a", <<List(<<Ln("i", 1), Ln("j", None), Ln("k", 0)>>), TagLine>>),
                             Labelled("b", <<Clause(1, "y"), List(<<Ln("m", 1)>>), List(<<Ln("n", 2)>>)>>)>>)
Other == LawText("m", TRUE, <<Labelled("a", <<Clause(None, "x")>>)>>)
Twice == LawText("m", TRUE, <<Labelled("a", <<Clause(None, "x"), Clause(None, "z")>>)>>)
Headless == LawText("l", FALSE, <<>>)
MCFolders == {<<Short>>, <<Long, Other>>, <<Short, Twice>>, <<Other, Headless>>}
MCLaw == <<"l", "m">>

\* StandIns
FormSends(d, m, day, c, a) == [direction |-> d, month |-> m, day |-> day, category |-> c, amount |-> a]
MCTyped == {FormSends("expense", 2, 3, "food", 2), FormSends("income", 1, 2, "food", 3)}
Nonsense == [ask |-> FALSE, units |-> <<>>, bare |-> None, days |-> {}, clock |-> None, meal |-> None,
             other |-> FALSE, previous |-> FALSE, income |-> FALSE, named |-> None, keyword |-> None]
MCSayings ==
    {[Nonsense EXCEPT !.ask = TRUE],
     [Nonsense EXCEPT !.ask = TRUE, !.previous = TRUE, !.named = "food"],
     [Nonsense EXCEPT !.ask = TRUE, !.days = {0}],
     [Nonsense EXCEPT !.bare = 0],
     [Nonsense EXCEPT !.units = <<0, 4>>, !.days = {-1, -2}, !.keyword = "food"],
     [Nonsense EXCEPT !.units = <<3>>, !.clock = [half |-> None, hour |-> 3], !.meal = 720, !.income = TRUE],
     [Nonsense EXCEPT !.bare = 12, !.clock = [half |-> "pm", hour |-> 30], !.meal = 720, !.days = {0}]}
Won(n, running) == [won |-> n, running |-> running]
CardSays(cancelled, amounts, card, deposit, spent) ==
    [cancelled |-> cancelled, when |-> None, amounts |-> amounts, card |-> card, deposit |-> deposit,
     spent |-> spent]
MCMessages == {CardSays(FALSE, <<Won(9, TRUE), Won(4, FALSE)>>, TRUE, FALSE, TRUE),
               CardSays(FALSE, <<Won(9, TRUE)>>, FALSE, TRUE, FALSE),
               CardSays(FALSE, <<Won(5, FALSE), Won(7, FALSE)>>, FALSE, TRUE, TRUE),
               CardSays(TRUE, <<Won(4, FALSE)>>, TRUE, FALSE, TRUE)}
DemoEntry(c, a, late) == [category |-> c, amount |-> a, late |-> late]
MCDemo == <<{DemoEntry("food", 3, FALSE), DemoEntry("salary", 5, TRUE)}, {}, {}>>
MCDemoLimits == [food |-> 4, etc |-> None]

Alone ==
    /\ part # "index" => /\ entries = (CHOOSE l \in Ledgers : TRUE)
                         /\ \A r \in CHOOSE S \in Meetings : TRUE : ask[r] = Phase("idle")
    /\ part # "output" => flow = "chat"
Init ==
    /\ part \in Part
    /\ StatsInit /\ PagesInit /\ LimitInit /\ IndexInit /\ FormsInit /\ OutputInit
    /\ RunsInit /\ SchemaInit /\ DocumentsInit /\ StandInsInit
    /\ NothingAsked /\ NothingSent
    /\ CASE part = "arguments" -> ArgInit
         [] part = "reading" -> ReadingInit
         [] part = "periods" -> PeriodsInit
         [] OTHER -> today = Date(LastYear, 1, 1) /\ minute = Min(Minutes)
    /\ Alone

Next ==
    /\ UNCHANGED part
    /\ \/ /\ part = "stats" /\ StatsNext
          /\ UNCHANGED <<page_vars, limit_vars, index_vars, reading_vars, call_vars,
                         form_vars, output_vars, run_vars, schema_vars, document_vars, standin_vars>>
       \/ /\ part = "pages" /\ PagesNext
          /\ UNCHANGED <<stats_vars, limit_vars, index_vars, reading_vars, call_vars,
                         form_vars, output_vars, run_vars, schema_vars, document_vars, standin_vars>>
       \/ /\ part = "calls" /\ LimitNext
          /\ UNCHANGED <<stats_vars, page_vars, index_vars, reading_vars, call_vars,
                         form_vars, output_vars, run_vars, schema_vars, document_vars, standin_vars>>
       \/ /\ part = "index" /\ IndexNext
          /\ UNCHANGED <<stats_vars, page_vars, limit_vars, reading_vars, call_vars,
                         form_vars, output_vars, run_vars, schema_vars, document_vars, standin_vars>>
       \/ /\ part = "periods" /\ PeriodsNext
          /\ UNCHANGED <<stats_vars, page_vars, limit_vars, index_vars, capture_vars, call_vars,
                         form_vars, output_vars, run_vars, schema_vars, document_vars, standin_vars>>
       \/ /\ part = "arguments" /\ ArgNext
          /\ UNCHANGED <<stats_vars, page_vars, limit_vars, index_vars, capture_vars,
                         form_vars, output_vars, run_vars, schema_vars, document_vars, standin_vars>>
       \/ /\ part = "reading" /\ ReadingNext
          /\ UNCHANGED <<stats_vars, page_vars, limit_vars, index_vars, call_vars,
                         form_vars, output_vars, run_vars, schema_vars, document_vars, standin_vars>>
       \/ /\ part = "forms" /\ FormsNext
          /\ UNCHANGED <<stats_vars, page_vars, limit_vars, index_vars, reading_vars,
                         call_vars, output_vars, run_vars, schema_vars, document_vars, standin_vars>>
       \/ /\ part = "output" /\ OutputNext
          /\ UNCHANGED <<stats_vars, page_vars, limit_vars, index_vars, reading_vars,
                         call_vars, form_vars, run_vars, schema_vars, document_vars, standin_vars>>
       \/ /\ part = "runs" /\ RunsNext
          /\ UNCHANGED <<stats_vars, page_vars, limit_vars, index_vars, reading_vars,
                         call_vars, form_vars, output_vars, schema_vars, document_vars, standin_vars>>
       \/ /\ part = "schema" /\ SchemaNext
          /\ UNCHANGED <<stats_vars, page_vars, limit_vars, index_vars, reading_vars,
                         call_vars, form_vars, output_vars, run_vars, document_vars, standin_vars>>
       \/ /\ part = "documents" /\ DocumentsNext
          /\ UNCHANGED <<stats_vars, page_vars, limit_vars, index_vars, reading_vars,
                         call_vars, form_vars, output_vars, run_vars, schema_vars, standin_vars>>
       \/ /\ part = "standins" /\ StandInsNext
          /\ UNCHANGED <<page_vars, limit_vars, index_vars, reading_vars,
                         call_vars, form_vars, output_vars, run_vars, schema_vars, document_vars>>

vars == <<part, stats_vars, page_vars, limit_vars, index_vars, reading_vars, call_vars, form_vars, output_vars,
          run_vars, schema_vars, document_vars, standin_vars>>
Spec == Init /\ [][Next]_vars

-----------------------------------------------------------------------------

\* The stand-ins tell what the api would (StandIns.StandsInForApi), looked at where they are, and
\* what they read of a message is past (StandIns.CardDaysArePast), on every day of the calendar.
StandInsAgree ==
    /\ part = "standins" => StandsInForApi
    /\ part = "periods" => CardDaysArePast
=============================================================================
