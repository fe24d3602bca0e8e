----------------------------- MODULE LedgerStats -----------------------------
(***************************************************************************)
(* The numbers the api tells of the ledger: totals, the monthly report,    *)
(* the comparison of two periods, the state of the budgets and the pace of *)
(* one, and the entries out of the ordinary.  Each is computed by a query  *)
(* and a rule of its own from the same rows.  A month is a number, its     *)
(* days are 1..DaysInMonth, and a moment is the day it falls on.           *)
(***************************************************************************)
EXTENDS Integers, Sequences, FiniteSets, FiniteSetsExt, SequencesExt, Absent

CONSTANTS
    Drafts,          \* bound: the entries that may be made, [month, day, category, amount]
    Expense,         \* the categories of the expenses; the other ones are of the income
    Limits,          \* bound: the budgets that may be set
    FirstMonth,      \* bound: the month in which the ledger begins
    LastMonth,       \* bound: the last month
    DaysInMonth,     \* Period.days
    TrendMonths,     \* _TREND_MONTHS of the monthly report
    BaselineMonths,  \* BASELINE_MONTHS of the usual range
    MinBaseline,     \* MIN_BASELINE
    OutlierLimit     \* LIMIT of DetectOutliers

Month == FirstMonth..LastMonth
Days == 1..DaysInMonth

ASSUME DraftAssumption ==
    \A e \in Drafts : e.month \in Month /\ e.day \in Days /\ e.amount \in Nat \ {0}

VARIABLES
    ledger,   \* the entries there are
    budgets,  \* the rows of the table: [category, month, limit], at most one for each pair
    clock     \* the Clock: [month, day]

stats_vars == <<ledger, budgets, clock>>

Sum(entries) == SumFunction([e \in entries |-> e.amount])

(***************************************************************************)
(* Queries                                                                 *)
(***************************************************************************)

Spending == {e \in ledger : e.category \in Expense}
In(entries, months) == {e \in entries : e.month \in months}

Totals(months) == [expense |-> Sum(In(Spending, months)),
                   income |-> Sum(In(ledger \ Spending, months))]

Of(c, months) == {e \in In(Spending, months) : e.category = c}
SpentBy(c, months) == Sum(Of(c, months))
DailySpent(c, m) == [d \in Days |-> Sum({e \in Of(c, {m}) : e.day = d})]
FirstMonthOf(entries) == Min({e.month : e \in entries})

\* (mistake) A month is given the budget that was set last.
Limit_Latest(c, m) ==
    LET set == {b \in budgets : b.category = c} IN
    IF set = {} THEN None ELSE (CHOOSE b \in set : \A o \in set : o.month <= b.month).limit

\* The budget of the latest row up to that month.
Limit(c, m) ==
    LET set == {b \in budgets : b.category = c /\ b.month <= m} IN
    IF set = {} THEN None ELSE (CHOOSE b \in set : \A o \in set : o.month <= b.month).limit

(***************************************************************************)
(* Rules                                                                   *)
(***************************************************************************)

Elapsed(m) == IF m < clock.month THEN DaysInMonth ELSE IF m > clock.month THEN 0 ELSE clock.day

Cumulative(daily, through) ==
    [d \in 1..through |-> SumFunctionOnSet(daily, 1..d)]

Project(spent, elapsed) == IF elapsed = 0 THEN spent ELSE (spent * DaysInMonth) \div elapsed

\* (mistake) The day on which the budget is used up, not the one on which it is passed.
CrossingDay_Reached(series, limit) ==
    LET over == {d \in DOMAIN series : series[d] > limit}
        elapsed == Len(series)
        spent == IF series = <<>> THEN 0 ELSE Last(series)
        day == (limit * elapsed) \div spent IN
    IF over # {} THEN Min(over)
    ELSE IF elapsed >= DaysInMonth \/ spent = 0 THEN None
    ELSE IF day <= DaysInMonth THEN day ELSE None

\* The day the budget was passed, or the one it will be at this pace.
CrossingDay(series, limit) ==
    LET over == {d \in DOMAIN series : series[d] > limit}
        elapsed == Len(series)
        spent == IF series = <<>> THEN 0 ELSE Last(series)
        day == (limit * elapsed) \div spent + 1 IN
    IF over # {} THEN Min(over)
    ELSE IF elapsed >= DaysInMonth \/ spent = 0 THEN None
    ELSE IF day <= DaysInMonth THEN day ELSE None

\* round(): to the even one from the middle.
Rounded(n, d) ==
    LET q == n \div d
        r == n % d IN
    IF 2 * r > d \/ (2 * r = d /\ q % 2 = 1) THEN q + 1 ELSE q

Percent(before, after) ==
    IF before = 0 THEN None
    ELSE Rounded((IF after > before THEN after - before ELSE before - after) * 100, before)

(***************************************************************************)
(* Budgets                                                                 *)
(***************************************************************************)

Status(c, m) ==
    LET used == SpentBy(c, {m})
        limit == Limit(c, m)
        series == Cumulative(DailySpent(c, m), Elapsed(m)) IN
    IF limit = None THEN [spent |-> used, limit |-> None]
    ELSE [spent |-> used, limit |-> limit, remaining |-> limit - used,
          percent |-> (used * 100) \div limit,
          projected |-> Project(used, Elapsed(m)), over |-> CrossingDay(series, limit)]

\* What the agent tells of the budget with an entry it has recorded, if it can read it.
ToldAfter(c, m, readable) ==
    IF c \in Expense /\ readable /\ Limit(c, m) # None THEN Status(c, m) ELSE None

Pace(c, m) ==
    LET series == Cumulative(DailySpent(c, m), Elapsed(m)) IN
    IF Limit(c, m) = None \/ Elapsed(m) = 0 THEN None
    ELSE [cumulative |-> series, projected |-> Project(Last(series), Elapsed(m)),
          over |-> CrossingDay(series, Limit(c, m))]

(***************************************************************************)
(* Reports                                                                 *)
(***************************************************************************)

\* (mistake) What was spent before only is left out.
Compare_NowOnly(a, b) ==
    {[category |-> c, before |-> SpentBy(c, {a}), after |-> SpentBy(c, {b}),
      percent |-> Percent(SpentBy(c, {a}), SpentBy(c, {b}))] :
        c \in {d \in Expense : SpentBy(d, {b}) # 0}}

Compare(a, b) ==
    {[category |-> c, before |-> SpentBy(c, {a}), after |-> SpentBy(c, {b}),
      percent |-> Percent(SpentBy(c, {a}), SpentBy(c, {b}))] :
        c \in {d \in Expense : SpentBy(d, {a}) # 0 \/ SpentBy(d, {b}) # 0}}

\* Before the first month with an entry there is nothing to compare with.
HasPrevious(m) == ledger # {} /\ FirstMonthOf(ledger) < m

Change(c, m) ==
    LET before == IF HasPrevious(m) THEN SpentBy(c, {m - 1}) ELSE None IN
    [category |-> c, this |-> SpentBy(c, {m}), before |-> before,
     percent |-> IF before = None THEN None ELSE Percent(before, SpentBy(c, {m}))]
Listed(change) == change.this # 0 \/ change.before \notin {0, None}

\* The months up to m that are not before the first entry, oldest first.
Trend(m) ==
    LET from == IF ledger = {} THEN m + 1 ELSE Max({m - TrendMonths + 1, FirstMonthOf(ledger)}) IN
    [i \in 1..(m - from + 1) |-> [month |-> from + i - 1, total |-> Totals({from + i - 1})]]

MonthlyReport(m) ==
    [totals |-> Totals({m}),
     previous |-> IF HasPrevious(m) THEN Totals({m - 1}) ELSE None,
     byCategory |-> {change \in {Change(c, m) : c \in Expense} : Listed(change)},
     trend |-> Trend(m)]

\* round() of the database: from the middle away from zero.
HalfUp(n, d) == (2 * n + d) \div (2 * d)

\* How many entries, on how many days, the days between these in tenths, and the mean amount.
Frequency(entries) ==
    LET days == {e.month * DaysInMonth + e.day : e \in entries}
        n == Cardinality(days) IN
    [count |-> Cardinality(entries), days |-> n,
     gap |-> IF n <= 1 THEN None ELSE HalfUp(10 * (Max(days) - Min(days)), n - 1),
     average |-> IF entries = {} THEN None ELSE HalfUp(Sum(entries), Cardinality(entries))]

\* Expenses unless it is asked for the income; c is None for all categories.
CountFrequency(months, income, c) ==
    Frequency({e \in In(IF income THEN ledger \ Spending ELSE Spending, months) :
                  c = None \/ e.category = c})

(***************************************************************************)
(* Entries out of the ordinary                                             *)
(***************************************************************************)

Window(m) == (m - BaselineMonths)..(m - 1)

\* The k-th smallest of the numbers f gives the elements of S.
Kth(f, S, k) ==
    CHOOSE v \in {f[s] : s \in S} :
        /\ Cardinality({s \in S : f[s] < v}) < k
        /\ Cardinality({s \in S : f[s] <= v}) >= k
\* percentile_cont(0.5), twice: the sum of the two in the middle.
TwiceMedian(f, S) ==
    Kth(f, S, (Cardinality(S) + 1) \div 2) + Kth(f, S, Cardinality(S) \div 2 + 1)

Median(S) == (TwiceMedian([e \in S |-> e.amount], S) + 1) \div 2

\* The median of the distances from the median, which is not rounded for it.
Mad(S) ==
    LET middle == TwiceMedian([e \in S |-> e.amount], S)
        distance == [e \in S |-> IF 2 * e.amount > middle
                                 THEN 2 * e.amount - middle ELSE middle - 2 * e.amount] IN
    (TwiceMedian(distance, S) + 2) \div 4

\* 3.5 * 1.4826 times the spread above the median, twice the median, or the largest.
UsualUpper(median, mad, largest) ==
    Max({median + (51891 * mad + 9999) \div 10000, 2 * median, largest})

Upper(S) == UsualUpper(Median(S), Mad(S), Max({e.amount : e \in S}))

\* Why the entries of a category are not judged.
Unjudged(c, m) ==
    LET history == {e \in Spending : e.category = c /\ e.month < m} IN
    IF history = {} \/ FirstMonthOf(history) > m - BaselineMonths THEN "short_history"
    ELSE IF Cardinality(Of(c, Window(m))) < MinBaseline THEN "too_few"
    ELSE None

\* (mistake) What is as large as the usual is out of the ordinary.
Above_OrEqual(m) ==
    {e \in In(Spending, {m}) : Unjudged(e.category, m) = None
                                /\ e.amount >= Upper(Of(e.category, Window(m)))}

Above(m) ==
    {e \in In(Spending, {m}) : Unjudged(e.category, m) = None
                                /\ e.amount > Upper(Of(e.category, Window(m)))}

\* The ones that pass their limit by the largest factor come first, of equal ones any.
Outliers(m) ==
    {[items |-> items, more |-> items # Above(m)] : items \in
        {S \in SUBSET Above(m) :
            /\ Cardinality(S) = Min({OutlierLimit, Cardinality(Above(m))})
            /\ \A e \in S, f \in Above(m) \ S :
                   e.amount * Upper(Of(f.category, Window(m)))
                       >= f.amount * Upper(Of(e.category, Window(m)))}}

(***************************************************************************)
(* Writes                                                                  *)
(***************************************************************************)

StatsInit ==
    /\ ledger = {} /\ budgets = {}
    /\ clock = [month |-> FirstMonth, day |-> 1]

\* An entry may be of any day, one to come included.
Enter(e) == e \notin ledger /\ ledger' = ledger \cup {e} /\ UNCHANGED <<budgets, clock>>
Delete(e) == e \in ledger /\ ledger' = ledger \ {e} /\ UNCHANGED <<budgets, clock>>

\* From this month on; what is not a budget or not confirmed is refused.
SetBudget(c, amount, confirmed) ==
    /\ c \in Expense /\ amount # 0 /\ confirmed
    /\ budgets' = {b \in budgets : b.category # c \/ b.month # clock.month}
                      \cup {[category |-> c, month |-> clock.month, limit |-> amount]}
    /\ UNCHANGED <<ledger, clock>>

NextDay ==
    /\ clock.day < DaysInMonth \/ clock.month < LastMonth
    /\ clock' = IF clock.day < DaysInMonth THEN [clock EXCEPT !.day = @ + 1]
                ELSE [month |-> clock.month + 1, day |-> 1]
    /\ UNCHANGED <<ledger, budgets>>

StatsNext ==
    \/ \E e \in Drafts : Enter(e) \/ Delete(e)
    \/ \E c \in {e.category : e \in Drafts}, amount \in Limits \cup {None, 0}, ok \in BOOLEAN :
           SetBudget(c, amount, ok)
    \/ NextDay

StatsSpec == StatsInit /\ [][StatsNext]_stats_vars

ASSUME StatsAssumption ==
    /\ FirstMonth \in Nat /\ LastMonth \in Nat /\ FirstMonth <= LastMonth /\ TrendMonths \in Nat
    /\ DaysInMonth \in Nat \ {0} /\ IsFiniteSet(Drafts)
    /\ MinBaseline \in Nat \ {0} /\ OutlierLimit \in Nat
    /\ IsFiniteSet(Expense) /\ Limits \subseteq Nat \ {0}
    /\ None \notin Nat /\ None \notin Expense /\ None \notin {"short_history", "too_few"}

-----------------------------------------------------------------------------

StatsTypeOK ==
    /\ ledger \subseteq Drafts
    /\ budgets \subseteq [category : Expense, month : Month, limit : Limits \cup {None}]
    /\ clock \in [month : Month, day : Days]

\* Nothing is dated after today in that month.
Known(c, m) == \A e \in Of(c, {m}) : m < clock.month \/ (m = clock.month /\ e.day <= clock.day)

CategoriesAreTotal(report) ==
    report.totals.expense = SumFunction([r \in report.byCategory |-> r.this])

IsComparison(report, m) ==
    HasPrevious(m) =>
        report.byCategory = {[category |-> r.category, this |-> r.after, before |-> r.before,
                              percent |-> r.percent] : r \in Compare(m - 1, m)}

\* Of entries of one month that make up that sum.
MeanAndGapFit(often, spent) ==
    /\ often.average = None <=> spent = 0
    /\ often.average # None =>
           2 * (often.average * often.count - spent) \in (-often.count)..often.count
    /\ often.gap # None =>
           /\ often.gap >= 10 /\ often.days <= often.count
           /\ 2 * often.gap * (often.days - 1) <= 20 * (DaysInMonth - 1) + often.days - 1

CountsAreTotal(m) ==
    CountFrequency({m}, FALSE, None).count =
        SumFunction([c \in Expense |-> CountFrequency({m}, FALSE, c).count])

TrendEndsIn(report, m) ==
    report.trend # <<>> => Last(report.trend) = [month |-> m, total |-> report.totals]

BudgetIsOne(status, pace, known) ==
    pace # None =>
        /\ Last(pace.cumulative) <= status.spent
        /\ known => /\ Last(pace.cumulative) = status.spent
                    /\ pace.projected = status.projected /\ pace.over = status.over

\* The same money is told by every query: the categories of the monthly report add up to its
\* total, compared with the month before they are the table of the comparison, the trend ends in
\* the month itself, a mean times its count is the sum but for what rounding takes, the gaps
\* between the days fit in the month, the counts of the categories add up, and status and pace of
\* a budget tell the same, of entries up to today.
ReportsAgree ==
    \A m \in Month :
        LET report == MonthlyReport(m) IN
        /\ CategoriesAreTotal(report) /\ IsComparison(report, m) /\ TrendEndsIn(report, m)
        /\ MeanAndGapFit(CountFrequency({m}, FALSE, None), report.totals.expense)
        /\ \A c \in Expense : MeanAndGapFit(CountFrequency({m}, FALSE, c), SpentBy(c, {m}))
        /\ CountsAreTotal(m)
        /\ \A c \in Expense : BudgetIsOne(Status(c, m), Pace(c, m), Known(c, m))

\* More is spent than the limit by that day, at the pace of the days gone.
Passed(series, elapsed, limit, d) ==
    (IF d <= elapsed THEN series[d] * elapsed ELSE Last(series) * d) > limit * elapsed

IsCrossing(over, series, elapsed, limit) ==
    /\ over = None => \A d \in Days : ~Passed(series, elapsed, limit, d)
    /\ over # None => /\ Passed(series, elapsed, limit, over)
                      /\ \A d \in 1..(over - 1) : ~Passed(series, elapsed, limit, d)

\* The day a budget is passed is the first one after which more is spent than the budget, on the
\* days gone and at the pace of these days; who is told of a sum at the end of the month above
\* the budget is told a day (budget_pace.crossing_day, project).
CrossingIsTrue ==
    \A m \in Month, c \in Expense :
        LET pace == Pace(c, m) IN
        pace # None =>
            /\ IsCrossing(pace.over, pace.cumulative, Elapsed(m), Limit(c, m))
            /\ pace.projected > Limit(c, m) => pace.over # None

\* A budget holds from the month it was set in: what is told of the months before does not
\* change with it (SqlBudgetRepository.limits, SetBudget).
PastBudgetsStand ==
    [][\A c \in Expense, m \in Month : m < clock.month => Limit(c, m)' = Limit(c, m)]_stats_vars

\* An entry out of the ordinary is larger than all of its category in the months before, and
\* above twice the median of them; the entries left out are said to be there
\* (DetectOutliers, usual_upper).
OutliersStandOut ==
    \A m \in Month : \A found \in Outliers(m) :
        /\ \A e \in found.items : \A f \in Of(e.category, Window(m)) : e.amount > f.amount
        /\ \A e \in found.items : e.amount > 2 * Median(Of(e.category, Window(m)))
        /\ Cardinality(found.items) <= OutlierLimit
        /\ ~found.more => Above(m) \subseteq found.items
=============================================================================
