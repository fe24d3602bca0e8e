------------------------------- MODULE StandIns -------------------------------
(***************************************************************************)
(* What the ui puts in the place of the api and the agent when there are   *)
(* none: a store in memory with the sums of the reports computed a second  *)
(* time, a chat that proposes and records, and a reader of card messages.  *)
(* What is said is a record of what the regular expressions find in it.    *)
(***************************************************************************)
EXTENDS LedgerStats, Periods

CONSTANTS
    Messages,      \* bound: the messages of the card companies, their moments apart
    Sayings,       \* bound: what is said in the chat
    Typed,         \* bound: what the form sends, [direction, month, day, category, amount]
    Earned,        \* the categories of the income
    Demo,          \* bound: day of the month -> the entries of the demo on it, late: after this hour
    SeedMonths,    \* the months seed_demo fills
    DemoLimits,    \* _LIMITS
    MaxAmount,     \* _MAX_AMOUNT
    PageSize,      \* the limit of a page
    FormKeys,      \* bound: the keys of forms
    MaxProposals,  \* bound: the proposals of the chat
    MaxSequence    \* bound: the entries ever made

VARIABLES
    memory,   \* MemoryStore: [rows, limits, replies, sequence]
    pending,  \* proposal -> [draft, said]: _pending of the chat, and what the user has said to it
    uttered   \* what was said of the budget with the last entry of the chat, or None

standin_vars == <<memory, pending, uttered>>

Offers == 1..MaxProposals
WriteKey == {<<"form", k>> : k \in FormKeys} \cup {<<"run", p>> : p \in Offers}

(***************************************************************************)
(* MemoryReportGateway, MemoryBudgetGateway, pace_math                     *)
(***************************************************************************)

Matching(m) == {r \in memory.rows : r.month = m}
MatchingOf(c, m) == {r \in Matching(m) : r.category = c}
MemorySum(rows) == [expense |-> Sum({r \in rows : r.category \in Expense}),
                    income |-> Sum({r \in rows : r.category \in Earned})]

\* The month of the first entry; there are months before p when it is before p.
FirstPeriod == IF memory.rows = {} THEN None ELSE FirstMonthOf(memory.rows)
FollowsFirst(p) == FirstPeriod # None /\ FirstPeriod < p

MemoryChanges(m) ==
    LET now(c) == Sum(MatchingOf(c, m))
        before(c) == IF FollowsFirst(m) THEN Sum(MatchingOf(c, m - 1)) ELSE None
        delta(c) == IF now(c) > before(c) THEN now(c) - before(c) ELSE before(c) - now(c) IN
    {[category |-> c, this |-> now(c), before |-> before(c),
      percent |-> IF before(c) \in {None, 0} THEN None ELSE Rounded(delta(c) * 100, before(c))] :
        c \in {d \in Expense : now(d) # 0 \/ before(d) \notin {None, 0}}}

\* Back from m, up to the month of the first entry.
MemoryMonths(m) ==
    LET n == Cardinality({k \in 0..(TrendMonths - 1) : FirstPeriod # None /\ m - k >= FirstPeriod}) IN
    [i \in 1..n |-> [month |-> m - n + i, total |-> MemorySum(Matching(m - n + i))]]

MemoryReport(m) ==
    [totals |-> MemorySum(Matching(m)),
     previous |-> IF FollowsFirst(m) THEN MemorySum(Matching(m - 1)) ELSE None,
     byCategory |-> MemoryChanges(m), trend |-> MemoryMonths(m)]

ElapsedDays(m) == CASE m < clock.month -> DaysInMonth [] m > clock.month -> 0 [] OTHER -> clock.day
MemorySeries(rows, through) == [d \in 1..through |-> Sum({r \in rows : r.day <= d})]
Reaches(spent, elapsed) == IF elapsed <= 0 THEN spent ELSE (spent * DaysInMonth) \div elapsed

MemoryCrossing(series, limit) ==
    LET elapsed == Len(series)
        spent == IF series = <<>> THEN 0 ELSE series[elapsed]
        passed == {d \in 1..elapsed : series[d] > limit}
        day == (limit * elapsed) \div spent + 1 IN
    CASE passed # {} -> Min(passed)
      [] passed = {} /\ (elapsed >= DaysInMonth \/ spent <= 0) -> None
      [] OTHER -> IF day <= DaysInMonth THEN day ELSE None

\* (mistake) What is dated after today is left out of what was spent.
MemoryStatus_UpToToday(c, m) ==
    LET through == ElapsedDays(m)
        spent == Sum({r \in MatchingOf(c, m) : r.day <= through})
        limit == memory.limits[c] IN
    IF limit = None THEN [spent |-> spent, limit |-> None]
    ELSE [spent |-> spent, limit |-> limit, remaining |-> limit - spent,
          percent |-> (spent * 100) \div limit, projected |-> Reaches(spent, through),
          over |-> MemoryCrossing(MemorySeries(MatchingOf(c, m), through), limit)]

\* One budget for all months.
MemoryStatus(c, m) ==
    LET through == ElapsedDays(m)
        spent == Sum(MatchingOf(c, m))
        limit == memory.limits[c] IN
    IF limit = None THEN [spent |-> spent, limit |-> None]
    ELSE [spent |-> spent, limit |-> limit, remaining |-> limit - spent,
          percent |-> (spent * 100) \div limit, projected |-> Reaches(spent, through),
          over |-> MemoryCrossing(MemorySeries(MatchingOf(c, m), through), limit)]

Budgeted(m) == {c \in Expense : MemoryStatus(c, m).limit # None}   \* of the statuses

MemoryPace(c, m) ==
    LET series == MemorySeries(MatchingOf(c, m), ElapsedDays(m)) IN
    IF memory.limits[c] = None \/ series = <<>> THEN None
    ELSE [cumulative |-> series, projected |-> Reaches(series[Len(series)], Len(series)),
          over |-> MemoryCrossing(series, memory.limits[c])]

(***************************************************************************)
(* ScriptedReportNarrator and the page of the report                       *)
(***************************************************************************)

AsSequence(S) == SetToSeq(S)
FirstFew(n, seq) == SubSeq(seq, 1, Min({n, Len(seq)}))

\* Two that rose most, then those that pass their budget, then the calmest of the calm.
Narration(m) ==
    LET delta(x) == x.this - x.before
        rises == SortSeq(AsSequence({x \in MemoryChanges(m) : x.before # None /\ x.this > x.before}),
                         LAMBDA x, y : delta(x) > delta(y))
        over == AsSequence({c \in Budgeted(m) : MemoryStatus(c, m).over # None})
        calm == {c \in Budgeted(m) : MemoryStatus(c, m).percent < 50}
        least == {c \in calm : \A d \in calm : MemoryStatus(c, m).percent <= MemoryStatus(d, m).percent}
        line(kind, c) == [kind |-> kind, category |-> c]
        top == FirstFew(2, rises) IN
    FirstFew(3, [i \in DOMAIN top |-> line("rose", top[i].category)]
                    \o [i \in DOMAIN over |-> line("over", over[i])]
                    \o (IF calm = {} THEN <<>> ELSE <<line("calm", CHOOSE c \in least : TRUE)>>))

\* Of the budgets some of which is spent, one that is passed or will be, else the fullest.
PaceTarget(m) ==
    LET spentOf == {c \in Budgeted(m) : MemoryStatus(c, m).spent # 0}
        over == {c \in spentOf : MemoryStatus(c, m).over # None}
        among == IF over # {} THEN over ELSE spentOf IN
    IF spentOf = {} THEN None
    ELSE CHOOSE c \in among : \A d \in among : MemoryStatus(d, m).percent <= MemoryStatus(c, m).percent

\* The category whose rise the page offers to ask about.
Question(report) ==
    LET rises == {x \in report.byCategory : x.before # None /\ x.this > x.before}
        top == {x \in rises : \A y \in rises : y.this - y.before <= x.this - x.before} IN
    IF rises = {} THEN None ELSE CHOOSE x \in top : TRUE

\* A month to come leads to this one; one bar is no trend.
ReportPage(month) ==
    LET m == Min({month, clock.month})
        report == MemoryReport(m)
        target == PaceTarget(m) IN
    [month |-> m, report |-> report, budgets |-> Budgeted(m), question |-> Question(report),
     pace |-> IF target = None THEN None ELSE MemoryPace(target, m), target |-> target,
     anything |-> memory.rows # {}, trend |-> IF Len(report.trend) > 1 THEN report.trend ELSE <<>>]

\* The part of the page that comes later; nothing is said of a month without money.
ReportInsights(m) ==
    IF MemoryReport(m).totals = MemorySum({}) THEN <<>> ELSE Narration(m)

(***************************************************************************)
(* MemoryTransactionGateway                                                *)
(***************************************************************************)

DraftFits(e) ==
    /\ e.amount \in 1..MaxAmount
    /\ e.category \in (IF e.direction = "expense" THEN Expense ELSE Earned)

MemoryRow(id, e, run) == [id |-> id, month |-> e.month, day |-> e.day, category |-> e.category,
                    amount |-> e.amount, run |-> run]
RowsNamed(id) == {r \in memory.rows : r.id = id}

\* A key that has an entry returns it; when that is gone, the key makes another one.
Made(key, e, run) ==
    LET made == MemoryRow(memory.sequence + 1, e, run)
        before == RowsNamed(memory.replies[key]) IN
    IF before # {} THEN [memory |-> memory, row |-> CHOOSE r \in before : TRUE]
    ELSE IF ~DraftFits(e) THEN [memory |-> memory, row |-> None]
    ELSE [memory |-> [memory EXCEPT !.rows = @ \cup {made}, !.replies[key] = made.id, !.sequence = made.id],
          row |-> made]

AddRow(key, e) ==
    /\ memory.sequence < MaxSequence
    /\ memory' = Made(key, e, None).memory /\ uttered' = None
    /\ UNCHANGED <<pending, stats_vars>>

\* An entry keeps its run; no key stops an update.
PutRow(r, key, e) ==
    /\ memory' = IF ~DraftFits(e) THEN memory
                ELSE [memory EXCEPT !.rows = (@ \ {r}) \cup {MemoryRow(r.id, e, r.run)}, !.replies[key] = r.id]
    /\ uttered' = None /\ UNCHANGED <<pending, stats_vars>>

RemoveRow(r, key) ==
    /\ memory' = IF memory.replies[key] # 0 THEN memory
                ELSE [memory EXCEPT !.rows = @ \ {r}, !.replies[key] = r.id]
    /\ uttered' = None /\ UNCHANGED <<pending, stats_vars>>

\* The newest first, of equal ones the last made.
NewestFirst ==
    LET later(a, b) == \/ a.month > b.month
                       \/ a.month = b.month /\ (a.day > b.day \/ (a.day = b.day /\ a.id > b.id)) IN
    SortSeq(AsSequence(memory.rows), later)
SearchPage(start) ==
    LET rows == NewestFirst
        end == start + PageSize IN
    [items |-> SubSeq(rows, start + 1, Min({end, Len(rows)})),
     next |-> IF end < Len(rows) THEN end ELSE None]

(***************************************************************************)
(* MemoryBudgetGateway.set_limit, seed_demo                                *)
(***************************************************************************)

KeepLimit(c, amount) ==
    /\ amount # 0 /\ memory' = [memory EXCEPT !.limits[c] = amount]
    /\ uttered' = None /\ UNCHANGED <<pending, stats_vars>>

\* What is no number is not sent; an empty field takes the budget away.
SaveBudget(c, field) ==
    \/ field # Wrong /\ KeepLimit(c, field)
    \/ field \in {Wrong, 0} /\ uttered' = None /\ UNCHANGED <<memory, pending, stats_vars>>

NoLimits == [c \in Expense |-> None]
Emptied == [rows |-> {}, limits |-> NoLimits, replies |-> [k \in WriteKey |-> 0], sequence |-> memory.sequence]

\* The last months up to this hour; the numbers of the entries go on.
Seeded(s) ==
    LET upToNow(m, d, e) == m < clock.month \/ d < clock.day \/ (d = clock.day /\ ~e.late)
        days(m) == IF m = clock.month THEN 1..clock.day ELSE Days
        dated == UNION {{[month |-> m, day |-> d, category |-> e.category, amount |-> e.amount] :
                            e \in {x \in Demo[d] : upToNow(m, d, x)}} :
                        <<m, d>> \in {<<m, d>> \in ((clock.month - SeedMonths + 1)..clock.month) \X Days :
                                          d \in days(m)}}
        entries == AsSequence(dated) IN
    [s EXCEPT !.rows = {MemoryRow(s.sequence + i, entries[i], None) : i \in DOMAIN entries},
              !.limits = DemoLimits, !.sequence = @ + Len(entries)]

\* What the chat has proposed is not forgotten with the entries.
Reset(filled) ==
    /\ memory' = IF filled THEN Seeded(Emptied) ELSE Emptied
    /\ memory'.sequence <= MaxSequence
    /\ uttered' = None /\ UNCHANGED <<pending, stats_vars>>

(***************************************************************************)
(* UtteranceParser, ScriptedCategorySuggester and ScriptedChatAgent        *)
(***************************************************************************)

\* The first amount with a unit that is not zero, else a bare number.
AmountIn(t) ==
    LET some == SelectSeq(t.units, LAMBDA n : n # 0) IN
    IF some # <<>> THEN some[1] ELSE t.bare

\* The day furthest back that is named.
DayOffset(t) == IF t.days = {} THEN 0 ELSE Min(t.days)
DirectionIn(t) == IF t.income THEN "income" ELSE "expense"
OtherPeriod(t) == t.other \/ t.days # {}

\* Hours from one to six without a half of the day are of the afternoon.
ClockIn(t) ==
    LET c == t.clock
        hour == IF (c.half = "pm" \/ (c.half = None /\ c.hour \in 1..6)) /\ c.hour < 12
                THEN c.hour + 12 ELSE c.hour IN
    IF t.clock # None THEN (IF hour > 23 THEN t.meal ELSE hour * 60) ELSE t.meal

\* A word of the direction, else the category that is for the rest.
SuggestedFor(t) ==
    LET etc == IF t.income THEN "other_income" ELSE "etc"
        fits == IF t.income THEN Earned ELSE Expense IN
    IF t.keyword \in fits THEN t.keyword ELSE etc

DaysBack(n) ==
    IF clock.day > n THEN [month |-> clock.month, day |-> clock.day - n]
    ELSE [month |-> clock.month - 1, day |-> clock.day + DaysInMonth - n]

\* The month and the money of an answer; other periods are not answered.
AnswerTo(t) ==
    LET m == IF t.previous THEN clock.month - 1 ELSE clock.month
        found == {x \in MemoryChanges(m) : x.category = t.named} IN
    IF OtherPeriod(t) THEN None
    ELSE [month |-> m, spent |-> IF t.named = None THEN MemoryReport(m).totals.expense
                                 ELSE IF found = {} THEN 0 ELSE (CHOOSE x \in found : TRUE).this]

ProposeSaid(t, p) ==
    LET on == DaysBack(-DayOffset(t)) IN
    /\ pending[p].said = "new" /\ \A q \in 1..(p - 1) : pending[q].said # "new"
    /\ pending' = [pending EXCEPT ![p] =
           [draft |-> [direction |-> DirectionIn(t), month |-> on.month, day |-> on.day,
                       category |-> SuggestedFor(t), amount |-> AmountIn(t)], said |-> "open"]]
    /\ uttered' = None

\* An amount is proposed; a question is answered and what is not understood is told so, and
\* nothing is kept of either.
Say(t) ==
    /\ uttered' = None /\ UNCHANGED <<memory, stats_vars>>
    /\ IF ~t.ask /\ AmountIn(t) \notin {None, 0} THEN \E p \in Offers : ProposeSaid(t, p) ELSE UNCHANGED pending

\* What is said of the budget with an expense that was recorded: nothing where there is none.
BudgetLine(e) ==
    IF e.direction = "expense" /\ memory.limits[e.category] # None
    THEN MemoryStatus(e.category, e.month) ELSE None

\* The first press takes the proposal away; what the ledger refuses is gone with it.
Press(p, accepted) ==
    LET key == <<"run", p>>
        e == pending[p].draft
        made == Made(key, e, p) IN
    /\ pending[p].said # "new" /\ UNCHANGED stats_vars
    /\ pending' = [pending EXCEPT ![p].said =
           IF @ # "open" THEN @ ELSE IF accepted THEN "accepted" ELSE "cancelled"]
    /\ IF pending[p].said = "open" /\ accepted
       THEN /\ memory.sequence < MaxSequence /\ memory' = made.memory
            /\ uttered' = IF made.row = None THEN None
                          ELSE [category |-> e.category, month |-> e.month, status |-> BudgetLine(e)']
       ELSE UNCHANGED memory /\ uttered' = None

StandInsInit ==
    /\ memory = [rows |-> {}, limits |-> NoLimits, replies |-> [k \in WriteKey |-> 0], sequence |-> 0]
    /\ pending = [p \in Offers |-> [draft |-> None, said |-> "new"]]
    /\ uttered = None

StandInsNext ==
    \/ \E k \in FormKeys, e \in Typed : AddRow(<<"form", k>>, e)
    \/ \E r \in memory.rows, k \in FormKeys, e \in Typed : PutRow(r, <<"form", k>>, e)
    \/ \E r \in memory.rows, k \in FormKeys : RemoveRow(r, <<"form", k>>)
    \/ \E c \in Expense, field \in Limits \cup {None, Wrong, 0} : SaveBudget(c, field)
    \/ \E filled \in BOOLEAN : Reset(filled)
    \/ \E t \in Sayings : Say(t)
    \/ \E p \in Offers, accepted \in BOOLEAN : Press(p, accepted)
    \/ NextDay /\ uttered' = None /\ UNCHANGED <<memory, pending>>

(***************************************************************************)
(* ScriptedCaptureReader                                                   *)
(***************************************************************************)

\* The date of a card message has no year: one that is to come was last year's.  That the last
\* year may not have it is not caught.
CardWhen(msg, now) ==
    LET y == YearOf(now.day)
        on(year) == [day |-> Date(year, msg.month, msg.date), minute |-> msg.minute] IN
    IF msg.date > MonthDays(y, msg.month) THEN None
    ELSE IF UpTo(on(y), now) THEN on(y)
    ELSE IF msg.date > MonthDays(y - 1, msg.month) THEN Wrong
    ELSE on(y - 1)

\* Noon of a day that was said without a time; without both the field is left as it is.
SentenceWhen(t, now) ==
    LET day == now.day + DayOffset(t) IN
    IF ClockIn(t) # None THEN [day |-> day, minute |-> ClockIn(t)]
    ELSE IF DayOffset(t) # 0 THEN [day |-> day, minute |-> Noon]
    ELSE IF t.days # {} THEN now ELSE None

\* What was said, as fields; a question is not read.
ReadSentence(t, now) ==
    IF t.ask \/ AmountIn(t) = None THEN None
    ELSE [direction |-> DirectionIn(t), amount |-> AmountIn(t), when |-> SentenceWhen(t, now), account |-> None]

\* A message is [cancelled, when, amounts, card, deposit, spent]; when is [month, date, minute] or
\* None, an amount [won, running] is running when it is one of all payments or what is left.
CardAmount(msg) ==
    LET own == SelectSeq(msg.amounts, LAMBDA a : ~a.running) IN
    IF own = <<>> THEN None ELSE own[1].won
CardAccount(msg) == IF msg.card THEN "card" ELSE IF msg.deposit THEN "bank" ELSE None
CardDirection(msg) == IF msg.deposit THEN "income" ELSE IF msg.spent THEN "expense" ELSE None

ReadCardMessage(msg, now) ==
    IF msg.cancelled \/ CardAmount(msg) = None THEN None
    ELSE [direction |-> CardDirection(msg), amount |-> CardAmount(msg), account |-> CardAccount(msg),
          when |-> IF msg.when = None THEN None ELSE CardWhen(msg.when, now)]

-----------------------------------------------------------------------------

Api == INSTANCE LedgerStats WITH
    ledger <- memory.rows,
    budgets <- {[category |-> c, month |-> FirstMonth - SeedMonths, limit |-> memory.limits[c]] :
                    c \in {d \in Expense : memory.limits[d] # None}}

\* Of the same entries and of budgets that were always there the store in memory tells what the
\* api tells: the report of every month, the state and the pace of every budget (memory_*,
\* pace_math against the rules of the api).  The pages of the list have every entry once.  An
\* accepted proposal is one entry or none, one that was not accepted is none; what the chat says
\* of the money it has just read or written is what the agent would say of the api's numbers; and
\* the page asks for a pace only where there is one, offers the question its first remark answers
\* to, and remarks on every budget that is passed while there is room (ScriptedChatAgent,
\* ScriptedReportNarrator, reports_router).
StandsInForApi ==
    /\ \A m \in Month :
          /\ MemoryReport(m) = Api!MonthlyReport(m)
          /\ \A c \in Expense : MemoryStatus(c, m) = Api!Status(c, m) /\ MemoryPace(c, m) = Api!Pace(c, m)
    /\ LET pages == [n \in 0..((Cardinality(memory.rows) - 1) \div PageSize) |-> SearchPage(n * PageSize)] IN
       memory.rows # {} =>
          /\ FlattenSeq([n \in 1..Cardinality(DOMAIN pages) |-> pages[n - 1].items]) = NewestFirst
          /\ \A n \in DOMAIN pages : pages[n].next = IF n + 1 \in DOMAIN pages THEN (n + 1) * PageSize ELSE None
    /\ \A r, s \in memory.rows : r.id = s.id \/ (r.run # None /\ r.run = s.run) => r = s
    /\ \A r \in memory.rows : r.run # None => pending[r.run].said = "accepted"
    /\ uttered # None => uttered.status = Api!ToldAfter(uttered.category, uttered.month, TRUE)
    /\ \A t \in {s \in Sayings : s.ask /\ ~OtherPeriod(s)} :
          AnswerTo(t).spent = IF t.named = None THEN Api!Totals({AnswerTo(t).month}).expense
                              ELSE Api!SpentBy(t.named, {AnswerTo(t).month})
    /\ \A month \in Month : \A shown \in {ReportPage(month)} : \A lines \in {ReportInsights(shown.month)} :
          LET rise(x) == x.this - x.before IN
          /\ shown.target # None => shown.pace # None /\ shown.pace = Api!Pace(shown.target, shown.month)
          /\ shown.trend # <<>> => shown.report.previous # None
          /\ shown.report.byCategory # {} => shown.anything
          /\ Len(lines) <= 3 /\ IsInjective(lines)
          /\ shown.question # None /\ lines # <<>> =>
                 /\ lines[1].kind = "rose"
                 /\ \A x \in shown.report.byCategory :
                       x.category = lines[1].category => rise(x) = rise(shown.question)
          /\ lines # <<>> /\ Len(lines) < 3 => \A c \in shown.budgets :
                 Api!Pace(c, shown.month).over # None
                     => \E i \in DOMAIN lines : lines[i] = [kind |-> "over", category |-> c]

\* The moment that is read out of a card message is one of its name and is past, the last one
\* but for a day the year before did not have; the amount is no running total, of a message that
\* was cancelled nothing is read, and money that comes in is not paid out.  What was said without
\* a time is past (ScriptedCaptureReader).
CardDaysArePast ==
    /\ \A m \in SaidMonths, d \in SaidDates, at \in Minutes, msg \in Messages :
          LET read == ReadCardMessage([msg EXCEPT !.when = [month |-> m, date |-> d, minute |-> at]], Now) IN
          read # None =>
              /\ read.when \notin {None, Wrong} =>
                     /\ UpTo(read.when, Now) /\ read.when.day > today - 367
                     /\ MonthOf(read.when.day) = m /\ DayOfMonth(read.when.day) = d
              /\ ~msg.cancelled /\ [won |-> read.amount, running |-> FALSE] \in ToSet(msg.amounts)
              /\ read.account = "bank" => read.direction = "income"
    /\ \A t \in Sayings :
          LET read == ReadSentence(t, Now) IN
          read # None =>
              /\ ~t.ask /\ (t.units = <<>> \/ read.amount # 0)
              /\ read.when # None => UpTo(read.when, Now) \/ (ClockIn(t) # None /\ read.when.day = today)
=============================================================================
