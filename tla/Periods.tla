------------------------------- MODULE Periods -------------------------------
(***************************************************************************)
(* The days a question is about and the moment a sentence speaks of, as    *)
(* the agent and mcp_server work them out from today.  A date is its       *)
(* number counted from the first day of year 1, a moment is [day, minute], *)
(* and a period is the days first..after - 1.                              *)
(***************************************************************************)
EXTENDS Integers, FiniteSets, FiniteSetsExt, Absent

CONSTANTS
    FirstYear, LastYear,   \* bound: the years of the calendar
    SaidMonths, SaidDates, \* bound: the dates without a year that are said
    MaxDays                \* MAX_DAYS

Year == FirstYear..LastYear

VARIABLES
    today,  \* the day it is for the user
    minute  \* of that day

period_vars == <<today, minute>>

(***************************************************************************)
(* The calendar                                                            *)
(***************************************************************************)

Leap(y) == y % 4 = 0 /\ (y % 100 # 0 \/ y % 400 = 0)
MonthDays(y, m) ==
    IF m = 2 THEN (IF Leap(y) THEN 29 ELSE 28) ELSE IF m \in {4, 6, 9, 11} THEN 30 ELSE 31
DaysBeforeYear(y) == 365 * (y - 1) + ((y - 1) \div 4) - ((y - 1) \div 100) + ((y - 1) \div 400)
DaysBeforeMonth(y, m) ==
    <<0, 31, 59, 90, 120, 151, 181, 212, 243, 273, 304, 334>>[m] + (IF m > 2 /\ Leap(y) THEN 1 ELSE 0)
Date(y, m, d) == DaysBeforeYear(y) + DaysBeforeMonth(y, m) + d

YearOf(day) == CHOOSE y \in Year : DaysBeforeYear(y) < day /\ day <= DaysBeforeYear(y + 1)
MonthOf(day) ==
    LET y == YearOf(day) IN CHOOSE m \in 1..12 : Date(y, m, 1) <= day /\ day <= Date(y, m, MonthDays(y, m))
FirstOfMonth(day) == Date(YearOf(day), MonthOf(day), 1)
DayOfMonth(day) == day - FirstOfMonth(day) + 1
Weekday(day) == (day - 1) % 7

(***************************************************************************)
(* PeriodSpec                                                              *)
(***************************************************************************)

PeriodName == {"today", "yesterday", "this_week", "last_week", "this_month", "last_month",
               "this_year", "last_n_days", "month", "range"}

NextMonth(first) == first + MonthDays(YearOf(first), MonthOf(first))
PreviousMonth(first) == FirstOfMonth(first - 1)

\* What the dataclass refuses to be made of.
SpecOk(s) ==
    /\ s.days # 0 <=> s.name = "last_n_days"
    /\ s.name = "last_n_days" => s.days \in 1..MaxDays
    /\ s.start # None <=> s.name \in {"month", "range"}
    /\ s.end # None <=> s.name = "range"
    /\ s.name = "month" => DayOfMonth(s.start) = 1
    /\ s.name = "range" => s.end >= s.start /\ s.end - s.start + 1 <= MaxDays

\* (mistake) The last n days are counted from n days ago.
Bounds_Fencepost(s, now) ==
    LET month == FirstOfMonth(now)
        days(first, after) == [first |-> first, after |-> after] IN
    CASE s.name = "today" -> days(now, now + 1)
      [] s.name = "yesterday" -> days(now - 1, now)
      [] s.name = "this_week" -> days(now - Weekday(now), now + 1)
      [] s.name = "last_week" -> days(now - Weekday(now) - 7, now - Weekday(now))
      [] s.name = "this_month" -> days(month, NextMonth(month))
      [] s.name = "last_month" -> days(PreviousMonth(month), month)
      [] s.name = "this_year" -> days(Date(YearOf(now), 1, 1), now + 1)
      [] s.name = "last_n_days" -> days(now - s.days, now + 1)
      [] s.name = "month" -> days(s.start, NextMonth(s.start))
      [] s.name = "range" -> days(s.start, s.end + 1)

Bounds(s, now) ==
    LET month == FirstOfMonth(now)
        days(first, after) == [first |-> first, after |-> after] IN
    CASE s.name = "today" -> days(now, now + 1)
      [] s.name = "yesterday" -> days(now - 1, now)
      [] s.name = "this_week" -> days(now - Weekday(now), now + 1)
      [] s.name = "last_week" -> days(now - Weekday(now) - 7, now - Weekday(now))
      [] s.name = "this_month" -> days(month, NextMonth(month))
      [] s.name = "last_month" -> days(PreviousMonth(month), month)
      [] s.name = "this_year" -> days(Date(YearOf(now), 1, 1), now + 1)
      [] s.name = "last_n_days" -> days(now - s.days + 1, now + 1)
      [] s.name = "month" -> days(s.start, NextMonth(s.start))
      [] s.name = "range" -> days(s.start, s.end + 1)

Length(p) == p.after - p.first

\* What a comparison takes of a when b goes on beyond today: as many days as b has had.  A week
\* or year, whose bounds end with today, does not go on.
SameLength(a, b, now) ==
    IF ~(b.first <= now /\ now < b.after) \/ now + 1 >= b.after THEN a
    ELSE [a EXCEPT !.after = Min({@, a.first + (now + 1 - b.first)})]

\* Six months before a day; a day that month does not have is its last.
BaselineStart(day, months) ==
    LET k == YearOf(day) * 12 + MonthOf(day) - 1 - months IN
    Date(k \div 12, (k % 12) + 1, Min({DayOfMonth(day), MonthDays(k \div 12, (k % 12) + 1)}))

(***************************************************************************)
(* SaidWhen                                                                *)
(***************************************************************************)

Noon == 720
DaysAgo == [unspecified |-> 0, today |-> 0, yesterday |-> 1, day_before_yesterday |-> 2]
UpTo(a, b) == a.day < b.day \/ (a.day = b.day /\ a.minute <= b.minute)
Now == [day |-> today, minute |-> minute]

\* (mistake) A date without a year is of this year.
OnDate_ThisYear(s, now) ==
    LET at == IF s.minute = None THEN Noon ELSE s.minute
        y == YearOf(now.day) IN
    IF s.date > MonthDays(y, s.month) THEN None
    ELSE [day |-> Date(y, s.month, s.date), minute |-> at]

\* A date without a year: of this year if that is past, else of the last.  A date this year does
\* not have is none, whatever the last one has.
OnDate(s, now) ==
    LET at == IF s.minute = None THEN Noon ELSE s.minute
        exists(y) == s.date <= MonthDays(y, s.month)
        found(y) == [day |-> Date(y, s.month, s.date), minute |-> at]
        y == YearOf(now.day) IN
    IF ~exists(y) THEN None
    ELSE IF UpTo(found(y), now) THEN found(y)
    ELSE IF exists(y - 1) /\ UpTo(found(y - 1), now) THEN found(y - 1)
    ELSE None

Resolve(s, now) ==
    IF s.on = "date" THEN OnDate(s, now)
    ELSE IF s.on = "unspecified" /\ s.minute = None THEN None
    ELSE IF s.minute # None THEN [day |-> now.day - DaysAgo[s.on], minute |-> s.minute]
    ELSE IF DaysAgo[s.on] # 0 THEN [day |-> now.day - DaysAgo[s.on], minute |-> Noon]
    ELSE now

(***************************************************************************)
(* Time passes.  The first and the last year are there to be spoken of.    *)
(***************************************************************************)

CONSTANT Minutes  \* bound: the minutes of a day that are looked at

PeriodsInit == today = Date(FirstYear + 1, 1, 1) /\ minute = Min(Minutes)
PeriodsNext ==
    \/ \E m \in Minutes : m > minute /\ minute' = m /\ UNCHANGED today
    \/ today + 1 < Date(LastYear, 1, 1) /\ today' = today + 1 /\ minute' = Min(Minutes)
PeriodsSpec == PeriodsInit /\ [][PeriodsNext]_period_vars

(***************************************************************************)
(* What the constants are: three years at least, of which the first can be *)
(* spoken of, no more than a year fits into MAX_DAYS, and a month that was *)
(* said is one.  A date that was said need not be one of its month.        *)
(***************************************************************************)

ASSUME PeriodsAssumption ==
    /\ FirstYear \in Nat /\ LastYear \in Nat /\ FirstYear + 2 <= LastYear
    /\ SaidMonths \subseteq 1..12 /\ SaidDates \subseteq Nat \ {0}
    /\ MaxDays \in Nat /\ MaxDays >= 365
    /\ Minutes \subseteq Nat /\ IsFiniteSet(Minutes) /\ Minutes # {}
    /\ None \notin Minutes

-----------------------------------------------------------------------------

\* The days a user has.
UserDays == Date(FirstYear + 1, 1, 1)..(Date(LastYear, 1, 1) - 1)

Named(name) == [name |-> name, days |-> 0, start |-> None, end |-> None]
B(name) == Bounds(Named(name), today)
LastDays(n) == Bounds([Named("last_n_days") EXCEPT !.days = n], today)

\* The named periods have no gap and no overlap: yesterday, the last week and the last month end
\* where this one begins and today is no part of them; what goes on has today in it; the last n
\* days are n; and six months before a month is a month (PeriodSpec, usual_range.baseline_start).
PeriodsTile ==
    /\ B("yesterday").after = B("today").first
    /\ B("last_week").after = B("this_week").first /\ Length(B("last_week")) = 7
    /\ B("last_month").after = B("this_month").first
    /\ \A name \in {"today", "this_week", "this_month", "this_year"} :
           B(name).first <= today /\ today < B(name).after
    /\ \A n \in {1, 2, 30, MaxDays} : Length(LastDays(n)) = n /\ LastDays(n).after = today + 1
    /\ Bounds([Named("month") EXCEPT !.start = FirstOfMonth(today)], today) = B("this_month")
    /\ BaselineStart(FirstOfMonth(today), 6) = FirstOfMonth(B("this_month").first - 160)
    /\ BaselineStart(today, 6) < today - 180

\* The days up to a day a little before or after today.
RangeTo(n) == Bounds([Named("range") EXCEPT !.start = today - 1, !.end = today + n], today)
Compared == {B(name) : name \in PeriodName \ {"last_n_days", "month", "range"}}
                \cup {RangeTo(n) : n \in 0..2}

\* What goes on beyond today is compared with exactly as many days of the other as it has had,
\* or all of a shorter one: this month with the last one up to the same day of the month, and
\* on its own last day with all of it.  All else is compared whole, and so are this week and
\* this year, which end with today: on a Monday one day with seven, though docs/ai/tools.md:124
\* has these cut too (run_tool._same_length).
ComparisonIsFair ==
    /\ \A a, b \in Compared :
           LET clipped == SameLength(a, b, today) IN
           IF b.first <= today /\ today + 1 < b.after /\ today + 1 - b.first < Length(a)
           THEN clipped.first = a.first /\ Length(clipped) = today + 1 - b.first
           ELSE clipped = a
    /\ LET month == SameLength(B("last_month"), B("this_month"), today) IN
       IF today + 1 = B("this_month").after \/ Length(B("last_month")) <= DayOfMonth(today)
       THEN month = B("last_month")
       ELSE month.first = B("last_month").first /\ Length(month) = DayOfMonth(today)
    /\ SameLength(B("last_week"), B("this_week"), today) = B("last_week")

\* The two of them: how the days of a question are worked out from today (PeriodSpec, _same_length).
PeriodsFit == today \in UserDays => PeriodsTile /\ ComparisonIsFair

\* What was said of the past is in the past, and not further back than it has to be: a date is
\* the last one of its name, unless this year does not have it (SaidWhen.resolve).
SaidWhen ==
    [on : {"unspecified", "today", "yesterday", "day_before_yesterday", "date"},
     month : SaidMonths, date : SaidDates, minute : Minutes \cup {None}]
SaidIsPast ==
    today \in UserDays => \A s \in SaidWhen :
        LET when == Resolve(s, Now) IN
        when # None =>
            /\ \/ UpTo(when, Now)
               \/ s.on \in {"unspecified", "today"} /\ s.minute # None /\ when.day = today
            /\ s.on = "date" =>
                   /\ MonthOf(when.day) = s.month /\ DayOfMonth(when.day) = s.date
                   /\ when.day > today - 367
=============================================================================
