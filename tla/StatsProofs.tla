---------------------------- MODULE StatsProofs -----------------------------
(* Theorems about LedgerStats and Pages for every value of their constants. *)
EXTENDS LedgerStats, Pages, NumberFacts, SequenceTheorems

-----------------------------------------------------------------------------
(* The ledger and its budgets *)

\* The ledger begins within its types.
LEMMA StatsStart == StatsInit => StatsTypeOK
  BY StatsAssumption DEF StatsInit, StatsTypeOK, Month, Days

\* No write and no passing day leaves them.
LEMMA StatsStep == StatsTypeOK /\ [StatsNext]_stats_vars => StatsTypeOK'
  <1> SUFFICES ASSUME StatsTypeOK, [StatsNext]_stats_vars PROVE StatsTypeOK'
    OBVIOUS
  <1>1. ASSUME NEW e \in Drafts, Enter(e) \/ Delete(e) PROVE StatsTypeOK'
    BY <1>1 DEF Enter, Delete, StatsTypeOK
  <1>2. ASSUME NEW c, NEW amount \in Limits \cup {None, 0}, NEW ok \in BOOLEAN, SetBudget(c, amount, ok)
        PROVE  StatsTypeOK'
    BY <1>2 DEF SetBudget, StatsTypeOK
  <1>3. CASE NextDay
    BY <1>3, StatsAssumption DEF NextDay, StatsTypeOK, Month, Days
  <1>4. CASE UNCHANGED stats_vars
    BY <1>4 DEF stats_vars, StatsTypeOK
  <1> QED BY <1>1, <1>2, <1>3, <1>4 DEF StatsNext

\* Whatever is entered, deleted and budgeted, the rows stay of their types and the budgets are amounts
\* that may be set (SetBudget, Clock).
THEOREM StatsInvariant == StatsSpec => []StatsTypeOK
  BY StatsStart, StatsStep, PTL DEF StatsSpec

\* A budget of this month is none of the months before.
LEMMA LimitStands ==
    ASSUME StatsTypeOK, [StatsNext]_stats_vars,
           NEW c \in Expense, NEW m \in Month, m < clock.month
    PROVE  Limit(c, m)' = Limit(c, m)
  <1>1. CASE UNCHANGED budgets
    BY <1>1 DEF Limit
  <1>2. ASSUME NEW d, NEW amount, NEW ok, SetBudget(d, amount, ok) PROVE Limit(c, m)' = Limit(c, m)
    <2> DEFINE new == [category |-> d, month |-> clock.month, limit |-> amount]
    <2>1. budgets' = {b \in budgets : b.category # d \/ b.month # clock.month} \cup {new}
      BY <1>2 DEF SetBudget
    <2>2. new.month = clock.month
      OBVIOUS
    <2> HIDE DEF new
    <2>3. clock.month \in Int /\ m \in Int /\ \A b \in budgets : b.month \in Int
      BY StatsAssumption DEF StatsTypeOK, Month
    <2>4. ~(clock.month <= m) /\ \A b \in budgets : b.month <= m => b.month # clock.month
      BY <2>3
    <2>5. {b \in budgets' : b.category = c /\ b.month <= m} = {b \in budgets : b.category = c /\ b.month <= m}
      BY <2>1, <2>2, <2>4
    <2> DEFINE held(set) ==
            IF set = {} THEN None ELSE (CHOOSE b \in set : \A o \in set : o.month <= b.month).limit
    <2>6. /\ Limit(c, m) = held({b \in budgets : b.category = c /\ b.month <= m})
          /\ Limit(c, m)' = held({b \in budgets' : b.category = c /\ b.month <= m})
      BY DEF Limit
    <2> HIDE DEF held
    <2> QED BY <2>5, <2>6
  <1>3. ASSUME NEW e \in Drafts, Enter(e) \/ Delete(e) PROVE UNCHANGED budgets
    BY <1>3 DEF Enter, Delete
  <1>4. NextDay \/ UNCHANGED stats_vars => UNCHANGED budgets
    BY DEF NextDay, stats_vars
  <1> QED BY <1>1, <1>2, <1>3, <1>4 DEF StatsNext

\* A budget set today changes nothing that is told of the months before (PastBudgetsStand: SetBudget,
\* SqlBudgetRepository.limits).
THEOREM PastIsTold == StatsSpec => PastBudgetsStand
  <1>1. StatsTypeOK /\ [StatsNext]_stats_vars
            => [\A c \in Expense, m \in Month : m < clock.month => Limit(c, m)' = Limit(c, m)]_stats_vars
    BY LimitStands
  <1> QED BY <1>1, StatsInvariant, PTL DEF StatsSpec, PastBudgetsStand

\* The smaller of two numbers is one of them.
LEMMA SmallerOfTwo ==
    ASSUME NEW a \in Nat, NEW b \in Nat
    PROVE  Min({a, b}) \in {a, b} /\ Min({a, b}) <= a /\ Min({a, b}) <= b
  <1>1. \E x \in {a, b} : \A y \in {a, b} : x <= y
    OBVIOUS
  <1> QED BY <1>1 DEF Min

\* The maximum of finitely many numbers is one of them, and none is larger.
LEMMA MaxOfFinite ==
    ASSUME NEW T \in SUBSET Nat, IsFiniteSet(T), T # {}
    PROVE  Max(T) \in T /\ \A x \in T : x <= Max(T)
  BY FiniteIsBounded, MaxOfBounded

\* What a function makes of finitely many elements is finite.
LEMMA FiniteImage ==
    ASSUME NEW S, IsFiniteSet(S), NEW f \in [S -> Nat]
    PROVE  IsFiniteSet({f[s] : s \in S})
  <1> DEFINE T == {f[s] : s \in S}
  <1>1. f \in Surjection(S, T)
    BY DEF Surjection
  <1> HIDE DEF T
  <1>2. IsFiniteSet(T)
    BY <1>1, FS_Surjection
  <1> QED BY <1>2 DEF T

\* There is a k-th smallest: the least number that k of them are not above.
LEMMA KthIsOne ==
    ASSUME NEW S, IsFiniteSet(S), NEW f \in [S -> Nat], NEW k \in 1..Cardinality(S)
    PROVE  Kth(f, S, k) \in {f[s] : s \in S}
  <1> DEFINE T == {f[s] : s \in S}
             upTo(v) == {s \in S : f[s] <= v}
             below(v) == {s \in S : f[s] < v}
             C == {v \in T : Cardinality(upTo(v)) >= k}
  <1>1. IsFiniteSet(T) /\ T \in SUBSET Nat /\ Cardinality(S) \in Nat /\ k \in Nat /\ k >= 1
    BY FiniteImage, FS_CardinalityType
  <1>2. T # {}
    <2>1. S # {}
      BY FS_EmptySet, <1>1
    <2> QED BY <2>1
  <1>3. C # {} /\ C \in SUBSET Nat
    <2>1. PICK top \in T : top = Max(T) /\ \A v \in T : v <= top
      <3> HIDE DEF T
      <3> QED BY <1>1, <1>2, MaxOfFinite
    <2>2. upTo(top) = S
      BY <2>1
    <2>3. Cardinality(upTo(top)) >= k
      BY <1>1, <2>2
    <2> HIDE DEF upTo, T
    <2> QED BY <1>1, <2>3
  <1>4. PICK v \in C : \A w \in C : v <= w
    <2> HIDE DEF C
    <2> QED BY <1>3, LeastNat
  <1>5. Cardinality(below(v)) < k
    <2>1. CASE below(v) = {}
      BY <1>1, <2>1, FS_EmptySet
    <2>2. CASE below(v) # {}
      <3> DEFINE B == {f[s] : s \in below(v)}
      <3>1. B \in SUBSET Nat /\ B # {} /\ v \in Nat /\ \A w \in B : w <= v
        BY <1>1, <2>2
      <3>2. PICK w \in B : \A u \in B : u <= w
        <4> HIDE DEF B
        <4> QED BY <3>1, MaxOfBounded
      <3>3. w \in T /\ w < v /\ w \in Nat
        BY <3>2
      <3>4. below(v) = upTo(w)
        <4>1. ASSUME NEW s \in below(v) PROVE s \in upTo(w)
          BY <3>2, <4>1
        <4>2. ASSUME NEW s \in upTo(w) PROVE s \in below(v)
          BY <1>1, <3>3, <3>1
        <4> QED BY <4>1, <4>2
      <3>5. ~(Cardinality(upTo(w)) >= k)
        <4>1. w \notin C
          <5>1. v \in Nat
            BY <3>1
          <5> HIDE DEF C
          <5> QED BY <1>4, <3>3, <5>1
        <4> HIDE DEF upTo, T
        <4> QED BY <3>3, <4>1
      <3>6. Cardinality(upTo(w)) \in Nat
        <4>1. upTo(w) \in SUBSET S
          OBVIOUS
        <4> HIDE DEF upTo
        <4> QED BY <4>1, FS_Subset, FS_CardinalityType
      <3> HIDE DEF upTo, below, B
      <3> QED BY <1>1, <3>4, <3>5, <3>6
    <2> QED BY <2>1, <2>2
  <1>6. \E u \in {f[s] : s \in S} :
            /\ Cardinality({s \in S : f[s] < u}) < k
            /\ Cardinality({s \in S : f[s] <= u}) >= k
    BY <1>4, <1>5
  <1> QED BY <1>6 DEF Kth

\* The two in the middle are there, so twice the median is a number.
LEMMA TwiceMedianIsNat ==
    ASSUME NEW S, IsFiniteSet(S), S # {}, NEW f \in [S -> Nat]
    PROVE  TwiceMedian(f, S) \in Nat
  <1>1. PICK n \in Nat : n = Cardinality(S) /\ n >= 1
    BY FS_CardinalityType, FS_EmptySet
  <1>2. (n + 1) \div 2 \in 1..n /\ n \div 2 + 1 \in 1..n
    BY <1>1
  <1>3. PICK j \in 1..n, k \in 1..n : j = (n + 1) \div 2 /\ k = n \div 2 + 1
    BY <1>2
  <1>4. Kth(f, S, j) \in Nat /\ Kth(f, S, k) \in Nat
    <2>1. Kth(f, S, j) \in {f[s] : s \in S} /\ Kth(f, S, k) \in {f[s] : s \in S}
      BY <1>1, KthIsOne
    <2> QED BY <2>1
  <1> QED BY <1>1, <1>3, <1>4 DEF TwiceMedian

\* The usual range of entries reaches up to the largest, and to twice their median.
LEMMA UpperIsAbove ==
    ASSUME NEW S, IsFiniteSet(S), S # {}, \A e \in S : e.amount \in Nat
    PROVE  /\ Upper(S) \in Nat /\ Median(S) \in Nat
           /\ 2 * Median(S) <= Upper(S)
           /\ \A e \in S : e.amount <= Upper(S)
  <1> DEFINE amounts == [e \in S |-> e.amount]
             middle == TwiceMedian(amounts, S)
             distance == [e \in S |-> IF 2 * e.amount > middle
                                      THEN 2 * e.amount - middle ELSE middle - 2 * e.amount]
             largest == Max({e.amount : e \in S})
  <1>1. middle \in Nat
    <2>1. amounts \in [S -> Nat]
      OBVIOUS
    <2> HIDE DEF amounts
    <2> QED BY <2>1, TwiceMedianIsNat
  <1>2. Median(S) \in Nat
    <2>1. Median(S) = (middle + 1) \div 2
      BY DEF Median
    <2> HIDE DEF middle
    <2> QED BY <1>1, <2>1
  <1>3. Mad(S) \in Nat
    <2>1. distance \in [S -> Nat]
      <3> HIDE DEF middle
      <3> QED BY <1>1
    <2>2. Mad(S) = (TwiceMedian(distance, S) + 2) \div 4
      BY DEF Mad
    <2> HIDE DEF distance
    <2>3. TwiceMedian(distance, S) \in Nat
      BY <2>1, TwiceMedianIsNat
    <2> QED BY <2>2, <2>3
  <1>4. largest \in Nat /\ \A e \in S : e.amount <= largest
    <2>1. IsFiniteSet({e.amount : e \in S})
      <3>1. {e.amount : e \in S} = {amounts[e] : e \in S} /\ amounts \in [S -> Nat]
        OBVIOUS
      <3> HIDE DEF amounts
      <3> QED BY <3>1, FiniteImage
    <2>2. {e.amount : e \in S} \in SUBSET Nat /\ {e.amount : e \in S} # {}
      OBVIOUS
    <2>3. largest \in {e.amount : e \in S} /\ \A x \in {e.amount : e \in S} : x <= largest
      BY <2>1, <2>2, MaxOfFinite
    <2> HIDE DEF largest
    <2> QED BY <2>2, <2>3
  <1> HIDE DEF amounts, middle, distance
  <1>5. PICK a \in Nat, b \in Nat, g \in Nat :
            a = Median(S) + (51891 * Mad(S) + 9999) \div 10000 /\ b = 2 * Median(S) /\ g = largest
    <2>1. PICK median \in Nat, mad \in Nat : median = Median(S) /\ mad = Mad(S)
      BY <1>2, <1>3
    <2>2. median + (51891 * mad + 9999) \div 10000 \in Nat /\ 2 * median \in Nat
      OBVIOUS
    <2> HIDE DEF largest
    <2> QED BY <1>4, <2>1, <2>2
  <1>6. Upper(S) = Max({a, b, g})
    BY <1>5 DEF Upper, UsualUpper
  <1>7. \E x \in {a, b, g} : \A y \in {a, b, g} : x >= y
    OBVIOUS
  <1>8. Upper(S) \in {a, b, g} /\ b <= Upper(S) /\ g <= Upper(S)
    BY <1>6, <1>7 DEF Max
  <1> HIDE DEF largest
  <1> QED BY <1>2, <1>4, <1>5, <1>8

\* Whatever is in the ledger, an entry told as out of the ordinary is above all of its category in the
\* months before and above twice their median (OutliersStandOut: DetectOutliers, usual_upper).
THEOREM OutliersAreOut == StatsSpec => []OutliersStandOut
  <1>1. ASSUME StatsTypeOK, NEW m \in Month, NEW found \in Outliers(m)
        PROVE  /\ \A e \in found.items : \A f \in Of(e.category, Window(m)) : e.amount > f.amount
               /\ \A e \in found.items : e.amount > 2 * Median(Of(e.category, Window(m)))
               /\ Cardinality(found.items) <= OutlierLimit
               /\ ~found.more => Above(m) \subseteq found.items
    <2>1. PICK S \in SUBSET Above(m) :
              /\ Cardinality(S) = Min({OutlierLimit, Cardinality(Above(m))})
              /\ found = [items |-> S, more |-> S # Above(m)]
      BY <1>1 DEF Outliers
    <2>2. found.items = S /\ (~found.more => Above(m) \subseteq found.items)
      BY <2>1
    <2>3. IsFiniteSet(ledger) /\ \A e \in ledger : e.amount \in Nat
      BY <1>1, StatsAssumption, DraftAssumption, FS_Subset DEF StatsTypeOK
    <2>4. Cardinality(S) <= OutlierLimit
      <3>1. Above(m) \in SUBSET ledger
        BY DEF Above, In, Spending
      <3>2. Cardinality(Above(m)) \in Nat
        BY <2>3, <3>1, FS_Subset, FS_CardinalityType
      <3> QED BY <2>1, <3>2, SmallerOfTwo, StatsAssumption
    <2>5. ASSUME NEW e \in S
          PROVE  /\ e.amount > 2 * Median(Of(e.category, Window(m)))
                 /\ \A f \in Of(e.category, Window(m)) : e.amount > f.amount
      <3> DEFINE usual == Of(e.category, Window(m))
      <3>1. /\ e \in ledger /\ e.amount \in Nat /\ e.amount > Upper(usual)
            /\ Unjudged(e.category, m) = None
        BY <2>3, <2>5 DEF Above, In, Spending
      <3>2. usual \in SUBSET ledger
        BY DEF Of, In, Spending
      <3>3. ~(Cardinality(usual) < MinBaseline)
        BY <3>1, StatsAssumption DEF Unjudged
      <3> HIDE DEF usual
      <3>4. IsFiniteSet(usual) /\ usual # {} /\ \A f \in usual : f.amount \in Nat
        BY <2>3, <3>2, <3>3, FS_Subset, FS_EmptySet, StatsAssumption
      <3>5. /\ Upper(usual) \in Nat /\ Median(usual) \in Nat
            /\ 2 * Median(usual) <= Upper(usual) /\ \A f \in usual : f.amount <= Upper(usual)
        BY <3>4, UpperIsAbove
      <3>6. e.amount > 2 * Median(usual) /\ \A f \in usual : e.amount > f.amount
        BY <3>1, <3>4, <3>5
      <3> QED BY <3>6 DEF usual
    <2> QED BY <2>2, <2>4, <2>5
  <1>2. StatsTypeOK => OutliersStandOut
    BY <1>1 DEF OutliersStandOut
  <1> QED BY <1>2, StatsInvariant, PTL

-----------------------------------------------------------------------------
(* The pace of a budget *)

\* The budget there is has been set.
LEMMA LimitIsSet ==
    ASSUME StatsTypeOK, NEW c, NEW m \in Month, Limit(c, m) # None
    PROVE  Limit(c, m) \in Nat \ {0}
  <1> DEFINE set == {b \in budgets : b.category = c /\ b.month <= m}
             left == {LastMonth - b.month : b \in set}
  <1>1. \A b \in budgets : b.month \in Int /\ b.month <= LastMonth /\ b.limit \in Limits \cup {None}
    BY StatsAssumption DEF StatsTypeOK, Month
  <1>2. set # {} /\ Limit(c, m) = (CHOOSE b \in set : \A o \in set : o.month <= b.month).limit
    BY DEF Limit
  <1>3. \E b \in set : \A o \in set : o.month <= b.month
    <2>1. left \in SUBSET Nat /\ left # {}
      BY <1>1, <1>2, StatsAssumption
    <2>2. PICK x \in left : \A y \in left : x <= y
      <3> HIDE DEF left
      <3> QED BY <2>1, LeastNat
    <2>3. PICK b \in set : x = LastMonth - b.month
      OBVIOUS
    <2>4. ASSUME NEW o \in set PROVE o.month <= b.month
      <3>1. LastMonth - o.month \in left
        OBVIOUS
      <3>2. x <= LastMonth - o.month
        BY <2>2, <3>1
      <3> QED BY <1>1, <2>3, <3>2, StatsAssumption
    <2> QED BY <2>4
  <1>4. PICK b \in set : Limit(c, m) = b.limit
    <2> HIDE DEF set
    <2> QED BY <1>2, <1>3
  <1> QED BY <1>1, <1>4, StatsAssumption

\* What a quotient is, without the quotient.
LEMMA QuotientFacts ==
    ASSUME NEW a \in Nat, NEW b \in Nat \ {0}
    PROVE  /\ a \div b \in Nat
           /\ b * (a \div b) <= a /\ a < b * (a \div b + 1)
  OBVIOUS

\* A multiple of more is more.
LEMMA TimesGrows ==
    ASSUME NEW a \in Nat, NEW x \in Int, NEW y \in Int, x <= y
    PROVE  a * x <= a * y
  OBVIOUS

\* The first day on which more is spent than the limit, at the pace of the days there are.
LEMMA CrossingIsFirst ==
    ASSUME NEW el \in 1..DaysInMonth, NEW series \in [1..el -> Nat], NEW most \in Nat
    PROVE  /\ IsCrossing(CrossingDay(series, most), series, el, most)
           /\ Project(Last(series), el) > most => CrossingDay(series, most) # None
  <1> DEFINE spent == series[el]
             past == {d \in 1..el : series[d] > most}
             day == (most * el) \div spent + 1
             over == CrossingDay(series, most)
             spentBy(d) == IF d <= el THEN series[d] * el ELSE spent * d
             passed(d) == spentBy(d) > most * el
  <1>1. /\ el \in Nat \ {0} /\ DaysInMonth \in Nat /\ el <= DaysInMonth /\ Days = 1..DaysInMonth
        /\ spent \in Nat
    BY StatsAssumption DEF Days
  <1>2. DOMAIN series = 1..el /\ Len(series) = el /\ series # <<>> /\ Last(series) = spent
    BY <1>1 DEF Last
  <1>3. over = IF past # {} THEN Min(past)
               ELSE IF el >= DaysInMonth \/ spent = 0 THEN None
               ELSE IF day <= DaysInMonth THEN day ELSE None
    BY <1>2 DEF CrossingDay
  <1>4. Project(Last(series), el) = (spent * DaysInMonth) \div el
    BY <1>1, <1>2 DEF Project
  <1>5. ASSUME NEW d \in 1..el, series[d] <= most PROVE ~passed(d)
    <2>1. PICK x \in Nat : x = series[d] /\ d <= el
      BY <1>1
    <2>2. el * x <= el * most
      BY <1>1, <1>5, <2>1, TimesGrows
    <2> QED BY <1>1, <2>1, <2>2
  <1> SUFFICES /\ over = None => \A d \in Days : ~passed(d)
               /\ over # None => passed(over) /\ \A d \in 1..(over - 1) : ~passed(d)
               /\ (spent * DaysInMonth) \div el > most => over # None
    BY <1>2, <1>4 DEF IsCrossing, Passed
  <1>6. CASE past # {}
    <2>1. PICK k \in past : \A d \in past : k <= d
      <3>1. past \in SUBSET Nat
        BY <1>1
      <3> HIDE DEF past
      <3> QED BY <1>6, <3>1, LeastNat
    <2>2. over = k
      <3>1. over = Min(past)
        BY <1>3, <1>6
      <3>2. \A x \in past : x \in Int
        BY <1>1
      <3> HIDE DEF past, over
      <3> QED BY <2>1, <3>1, <3>2 DEF Min
    <2>3. k \in 1..el /\ series[k] > most /\ k # None
      BY <2>1, <1>1, StatsAssumption
    <2>4. passed(k)
      <3>1. PICK x \in Nat : x = series[k] /\ most + 1 <= x
        BY <2>3
      <3>2. el * (most + 1) <= el * x
        BY <1>1, <3>1, TimesGrows, SMTT(40)
      <3>3. el * (most + 1) = el * most + el /\ el * most \in Nat /\ el * x \in Nat
        BY <1>1
      <3>4. x * el > most * el
        BY <1>1, <3>2, <3>3
      <3> QED BY <2>3, <3>1, <3>4
    <2>5. ASSUME NEW d \in 1..(k - 1) PROVE ~passed(d)
      <3>1. d \in 1..el /\ d \notin past
        BY <1>1, <2>1, <2>3
      <3>2. series[d] <= most
        BY <3>1
      <3> QED BY <1>5, <3>1, <3>2
    <2> HIDE DEF over, passed
    <2> QED BY <2>2, <2>3, <2>4, <2>5
  <1>7. CASE past = {}
    <2>1. spent <= most /\ \A d \in 1..el : ~passed(d)
      <3>1. \A d \in 1..el : series[d] <= most
        BY <1>7
      <3> QED BY <1>1, <1>5, <3>1
    <2>2. CASE el >= DaysInMonth \/ spent = 0
      <3>1. over = None
        BY <1>3, <1>7, <2>2
      <3>2. ASSUME NEW d \in Days, ~(d \in 1..el) PROVE ~passed(d)
        <4>1. spent = 0 /\ ~(d <= el) /\ d \in Nat
          BY <1>1, <2>2, <3>2
        <4>2. spentBy(d) = 0 /\ most * el \in Nat
          BY <1>1, <4>1
        <4> QED BY <4>2
      <3>3. ~((spent * DaysInMonth) \div el > most)
        <4>1. CASE spent = 0
          BY <1>1, <4>1
        <4>2. CASE DaysInMonth = el
          <5>1. (spent * el) \div el = spent
            BY <1>1
          <5> QED BY <1>1, <2>1, <4>2, <5>1
        <4> QED BY <1>1, <2>2, <4>1, <4>2
      <3> HIDE DEF over, passed
      <3> QED BY <2>1, <3>1, <3>2, <3>3
    <2>3. CASE el < DaysInMonth /\ spent # 0
      <3>1. PICK q \in Nat : /\ q = (most * el) \div spent
                             /\ spent * q <= most * el /\ most * el < spent * (q + 1)
        <4>1. most * el \in Nat /\ spent \in Nat \ {0}
          BY <1>1, <2>3
        <4> HIDE DEF spent
        <4> QED BY <4>1, QuotientFacts
      <3>2. over = IF q + 1 <= DaysInMonth THEN q + 1 ELSE None
        <4>1. ~(el >= DaysInMonth \/ spent = 0)
          BY <1>1, <2>3
        <4> QED BY <1>3, <1>7, <3>1, <4>1
      <3>3. ASSUME NEW d \in 1..q PROVE ~passed(d)
        <4>1. CASE d <= el
          BY <2>1, <4>1
        <4>2. CASE ~(d <= el)
          <5>1. spent * d <= spent * q
            <6> HIDE DEF spent
            <6> QED BY <1>1, TimesGrows
          <5>2. spent * d \in Int /\ spent * q \in Int /\ most * el \in Int
            BY <1>1
          <5>3. spent * d <= most * el
            <6> HIDE DEF spent
            <6> QED BY <3>1, <5>1, <5>2
          <5> QED BY <4>2, <5>2, <5>3
        <4> QED BY <4>1, <4>2
      <3>4. q + 1 > el
        <4>1. SUFFICES ASSUME q + 1 <= el PROVE FALSE
          BY <1>1
        <4>2. spent * (q + 1) <= spent * el
          <5> HIDE DEF spent
          <5> QED BY <1>1, <4>1, TimesGrows
        <4>3. el * spent <= el * most
          <5> HIDE DEF spent
          <5> QED BY <1>1, <2>1, TimesGrows
        <4> HIDE DEF spent
        <4> QED BY <1>1, <3>1, <4>2, <4>3, SMTT(40)
      <3>5. passed(q + 1)
        <4>1. ~(q + 1 <= el) /\ most * el < spent * (q + 1)
          BY <1>1, <3>1, <3>4
        <4> QED BY <1>1, <4>1
      <3>6. CASE q + 1 <= DaysInMonth
        <4>1. over = q + 1 /\ over # None /\ over - 1 = q
          BY <3>2, <3>6, StatsAssumption
        <4> HIDE DEF over, passed
        <4> QED BY <3>3, <3>5, <4>1
      <3>7. CASE ~(q + 1 <= DaysInMonth)
        <4>1. over = None /\ \A d \in Days : d \in 1..q
          BY <1>1, <3>2, <3>7
        <4>2. ~((spent * DaysInMonth) \div el > most)
          <5>1. DaysInMonth <= q
            BY <1>1, <3>7
          <5>2. spent * DaysInMonth <= spent * q
            <6> HIDE DEF spent
            <6> QED BY <1>1, <5>1, TimesGrows
          <5>3. PICK a \in Nat : a = spent * DaysInMonth /\ a <= most * el
            <6> HIDE DEF spent
            <6> QED BY <1>1, <3>1, <5>2
          <5>4. a \div el <= most
            <6>1. PICK p \in Nat : p = a \div el /\ el * p <= a
              BY <1>1, QuotientFacts
            <6>2. SUFFICES ASSUME most + 1 <= p PROVE FALSE
              BY <6>1
            <6>3. el * (most + 1) <= el * p
              BY <1>1, <6>2, TimesGrows
            <6> QED BY <1>1, <5>3, <6>1, <6>3, SMTT(40)
          <5>5. a \div el \in Nat
            BY <1>1, QuotientFacts
          <5> HIDE DEF spent
          <5> QED BY <5>3, <5>4, <5>5
        <4> HIDE DEF over, passed
        <4> QED BY <3>3, <4>1, <4>2
      <3> QED BY <3>6, <3>7
    <2> QED BY <1>1, <2>2, <2>3
  <1> QED BY <1>6, <1>7

-----------------------------------------------------------------------------
(* The reports *)

\* The ledger is finite and its entries have a day and an amount.
LEMMA EntryFacts ==
    ASSUME StatsTypeOK
    PROVE  \A E \in SUBSET ledger :
               /\ IsFiniteSet(E) /\ Cardinality(E) \in Nat
               /\ \A e \in E : /\ e.month \in Nat /\ e.month \in Month
                               /\ e.day \in Nat /\ e.day \in Days /\ e.amount \in Nat \ {0}
  <1>1. IsFiniteSet(ledger)
    BY StatsAssumption, FS_Subset DEF StatsTypeOK
  <1>2. ASSUME NEW E \in SUBSET ledger PROVE IsFiniteSet(E) /\ Cardinality(E) \in Nat
    BY <1>1, FS_Subset, FS_CardinalityType
  <1>3. \A e \in ledger : /\ e.month \in Nat /\ e.month \in Month
                          /\ e.day \in Nat /\ e.day \in Days /\ e.amount \in Nat \ {0}
    BY DraftAssumption, StatsAssumption DEF StatsTypeOK, Month, Days
  <1> QED BY <1>2, <1>3

Amounts == [e \in Drafts |-> e.amount]

\* The sum of entries is a number, and none only when there are none.
LEMMA SumFacts1 ==
    ASSUME StatsTypeOK, NEW E \in SUBSET ledger
    PROVE  /\ Sum(E) = Total(Amounts, E) /\ Sum(E) \in Nat
           /\ \A e \in E : Amounts[e] \in Nat
           /\ E = {} <=> Sum(E) = 0
  <1>1. /\ IsFiniteSet(E) /\ E \in SUBSET Drafts
        /\ \A e \in E : Amounts[e] = e.amount /\ Amounts[e] \in Nat \ {0}
    BY EntryFacts DEF StatsTypeOK, Amounts
  <1>2. Sum(E) = Total(Amounts, E)
    <2>1. PICK f : f = [e \in E |-> e.amount]
      OBVIOUS
    <2>2. DOMAIN f = E /\ \A e \in E : f[e] = Amounts[e]
      BY <1>1, <2>1
    <2>3. Sum(E) = Total(f, E)
      BY <2>1, <2>2 DEF Sum, SumFunction, Total
    <2>4. Total(f, E) = Total(Amounts, E)
      BY <1>1, <2>2, TotalOfSame
    <2> QED BY <2>3, <2>4
  <1>3. Total(Amounts, E) \in Nat
    BY <1>1, TotalOfNats
  <1>4. E = {} => Total(Amounts, E) = 0
    BY <1>1, TotalOfPick
  <1>5. ASSUME E # {} PROVE Total(Amounts, E) # 0
    <2>1. PICK e \in E : TRUE
      BY <1>5
    <2>2. \A y \in E : Amounts[y] \in Int
      BY <1>1
    <2>3. Total(Amounts, E) = Amounts[e] + Total(Amounts, E \ {e})
      BY <1>1, <2>1, <2>2, TotalOfOneMore
    <2>4. E \ {e} \in SUBSET E /\ \A y \in E : Amounts[y] \in Nat
      BY <1>1
    <2>5. Total(Amounts, E \ {e}) \in Nat
      BY <1>1, <2>4, TotalOfNats
    <2>6. Amounts[e] \in Nat \ {0}
      BY <1>1, <2>1
    <2> QED BY <2>3, <2>5, <2>6
  <1> QED BY <1>1, <1>2, <1>3, <1>4, <1>5

\* The sums of the categories add up to what was spent.
LEMMA SpentByCategory ==
    ASSUME StatsTypeOK, NEW months, NEW g, \A c \in Expense : g[c] = SpentBy(c, months)
    PROVE  Total(g, Expense) = Sum(In(Spending, months))
  <1>1. PICK E : E = In(Spending, months)
    OBVIOUS
  <1>2. E \in SUBSET ledger /\ \A e \in E : e.category \in Expense
    BY <1>1 DEF In, Spending
  <1>3. PICK key : key = [e \in E |-> e.category]
    OBVIOUS
  <1>4. ASSUME NEW c \in Expense PROVE g[c] = Total(Amounts, {e \in E : key[e] = c})
    <2>1. Of(c, months) = {e \in E : key[e] = c}
      BY <1>1, <1>3 DEF Of
    <2>2. Of(c, months) \in SUBSET ledger
      BY <1>1, <1>2 DEF Of
    <2> QED BY <2>1, <2>2, SumFacts1 DEF SpentBy
  <1>5. PartsOf(key, E, Expense) = E
    BY <1>2, <1>3 DEF PartsOf
  <1>6. IsFiniteSet(E) /\ \A e \in E : Amounts[e] \in Int
    BY <1>2, EntryFacts, SumFacts1
  <1>7. Total(g, Expense) = Total(Amounts, PartsOf(key, E, Expense))
    <2>1. PartSums(g, Amounts, key, E, Expense) /\ IsFiniteSet(Expense)
      BY <1>4, StatsAssumption DEF PartSums
    <2> QED BY <1>6, <2>1, TotalOfParts
  <1> QED BY <1>1, <1>2, <1>5, <1>7, SumFacts1

\* What was spent on a category is a number, of entries there are.
LEMMA SpentIsNat ==
    ASSUME StatsTypeOK, NEW c, NEW months
    PROVE  SpentBy(c, months) \in Nat /\ Of(c, months) \in SUBSET ledger
  <1>1. Of(c, months) \in SUBSET ledger
    BY DEF Of, In, Spending
  <1> QED BY <1>1, SumFacts1 DEF SpentBy

\* The categories of the monthly report add up to its total.
LEMMA CategoriesAddUp ==
    ASSUME StatsTypeOK, NEW m \in Month
    PROVE  CategoriesAreTotal(MonthlyReport(m))
  <1>1. PICK B : B = MonthlyReport(m).byCategory
    OBVIOUS
  <1>2. PICK L : L = {c \in Expense : Listed(Change(c, m))}
    OBVIOUS
  <1>3. PICK h, g, f : /\ h = [c \in Expense |-> Change(c, m)]
                       /\ g = [c \in Expense |-> SpentBy(c, {m})]
                       /\ f = [r \in B |-> r.this]
    OBVIOUS
  <1>4. B = {h[c] : c \in L}
    <2>1. B = {change \in {Change(c, m) : c \in Expense} : Listed(change)}
      BY <1>1 DEF MonthlyReport
    <2>2. ASSUME NEW c \in Expense PROVE h[c] = Change(c, m)
      BY <1>3
    <2>3. ASSUME NEW r \in B PROVE \E c \in L : r = h[c]
      <3>1. PICK c \in Expense : r = Change(c, m) /\ Listed(r)
        BY <2>1, <2>3
      <3>2. Listed(Change(c, m))
        BY <3>1
      <3> QED BY <1>2, <2>2, <3>1, <3>2
    <2>4. ASSUME NEW c \in L PROVE h[c] \in B
      BY <1>2, <2>1, <2>2
    <2> QED BY <2>3, <2>4
  <1>5. \A c \in Expense : /\ h[c].category = c /\ h[c].this = g[c] /\ g[c] \in Nat
                           /\ Listed(Change(c, m)) \/ g[c] = 0
    BY <1>3, SpentIsNat DEF Change, Listed
  <1>6. Total(g, Expense) = Sum(In(Spending, {m}))
    BY <1>3, SpentByCategory
  <1>7. Total(g, Expense) = Total(g, L)
    <2>1. L \in SUBSET Expense /\ (\A c \in Expense \ L : g[c] = 0) /\ \A c \in Expense : g[c] \in Int
      BY <1>2, <1>5
    <2> QED BY <2>1, StatsAssumption, TotalOfRest
  <1>8. Total(f, Image(h, L)) = Total(g, L)
    <2>1. IsFiniteSet(L) /\ OneToOne(h, L)
      BY <1>2, <1>5, StatsAssumption, FS_Subset DEF OneToOne
    <2>2. \A x \in L : g[x] = f[h[x]] /\ g[x] \in Int
      <3>1. ASSUME NEW x \in L PROVE g[x] = f[h[x]] /\ g[x] \in Int
        <4>1. h[x] \in B /\ x \in Expense
          BY <1>2, <1>4
        <4>2. f[h[x]] = h[x].this
          BY <1>3, <4>1
        <4> QED BY <1>5, <4>1, <4>2
      <3> QED BY <3>1
    <2> QED BY <2>1, <2>2, TotalOfImage
  <1>9. SumFunction(f) = Total(f, B)
    <2>1. DOMAIN f = B
      BY <1>3
    <2> QED BY <2>1 DEF SumFunction, Total
  <1>10. MonthlyReport(m).totals.expense = Sum(In(Spending, {m}))
    BY DEF MonthlyReport, Totals
  <1> QED BY <1>1, <1>3, <1>4, <1>6, <1>7, <1>8, <1>9, <1>10 DEF Image, CategoriesAreTotal

\* Compared with the month before, the report is the table of the comparison.
LEMMA ReportIsComparison ==
    ASSUME StatsTypeOK, NEW m \in Month
    PROVE  IsComparison(MonthlyReport(m), m)
  <1> SUFFICES ASSUME HasPrevious(m)
               PROVE  MonthlyReport(m).byCategory =
                          {[category |-> r.category, this |-> r.after, before |-> r.before,
                            percent |-> r.percent] : r \in Compare(m - 1, m)}
    BY DEF IsComparison
  <1> DEFINE B == {change \in {Change(c, m) : c \in Expense} : Listed(change)}
             row(c) == [category |-> c, before |-> SpentBy(c, {m - 1}), after |-> SpentBy(c, {m}),
                        percent |-> Percent(SpentBy(c, {m - 1}), SpentBy(c, {m}))]
             told(r) == [category |-> r.category, this |-> r.after, before |-> r.before,
                         percent |-> r.percent]
             moved(c) == SpentBy(c, {m - 1}) # 0 \/ SpentBy(c, {m}) # 0
  <1>1. MonthlyReport(m).byCategory = B
    BY DEF MonthlyReport
  <1>2. Compare(m - 1, m) = {row(c) : c \in {d \in Expense : moved(d)}}
    BY DEF Compare
  <1>3. ASSUME NEW c PROVE Change(c, m) = told(row(c)) /\ (Listed(Change(c, m)) <=> moved(c))
    <2>1. PICK a, b : a = SpentBy(c, {m - 1}) /\ b = SpentBy(c, {m}) /\ a \in Nat /\ b \in Nat
      BY SpentIsNat
    <2>2. a # None
      BY <2>1, StatsAssumption
    <2>3. Change(c, m) = [category |-> c, this |-> b, before |-> a, percent |-> Percent(a, b)]
      BY <2>1, <2>2 DEF Change
    <2>4. told(row(c)) = [category |-> c, this |-> b, before |-> a, percent |-> Percent(a, b)]
      BY <2>1
    <2>5. Listed(Change(c, m)) <=> (b # 0 \/ a # 0)
      BY <2>2, <2>3 DEF Listed
    <2> QED BY <2>1, <2>3, <2>4, <2>5
  <1> HIDE DEF row, told, moved
  <1>4. B = {told(r) : r \in Compare(m - 1, m)}
    BY <1>2, <1>3
  <1> QED BY <1>1, <1>4 DEF told

\* A quotient that is rounded is off by a half at most.
LEMMA HalfUpRounds ==
    ASSUME NEW n \in Nat, NEW d \in Nat \ {0}
    PROVE  /\ HalfUp(n, d) \in Nat
           /\ 2 * (HalfUp(n, d) * d - n) <= d /\ -d <= 2 * (HalfUp(n, d) * d - n)
  <1>1. PICK a \in Nat, b \in Nat \ {0} : a = 2 * n + d /\ b = 2 * d
    OBVIOUS
  <1>2. PICK q \in Nat : q = a \div b /\ b * q <= a /\ a < b * (q + 1)
    BY QuotientFacts
  <1>3. HalfUp(n, d) = q
    BY <1>1, <1>2 DEF HalfUp
  <1>4. PICK p \in Nat : p = q * d
    OBVIOUS
  <1>5. b * q = 2 * p /\ b * (q + 1) = 2 * p + 2 * d
    BY <1>1, <1>4
  <1>6. 2 * p <= 2 * n + d /\ 2 * n + d < 2 * p + 2 * d
    BY <1>1, <1>2, <1>5
  <1>7. 2 * (p - n) <= d /\ -d <= 2 * (p - n)
    BY <1>6
  <1> QED BY <1>3, <1>4, <1>7

\* The mean of the entries, times how many they are, is their sum but for the rounding.
LEMMA MeanIsOfSum ==
    ASSUME StatsTypeOK, NEW E \in SUBSET ledger
    PROVE  LET often == Frequency(E) IN
           /\ often.average = None <=> Sum(E) = 0
           /\ often.average # None =>
                  2 * (often.average * often.count - Sum(E)) \in (-often.count)..often.count
  <1>1. PICK n \in Nat, s \in Nat : n = Cardinality(E) /\ s = Sum(E) /\ (E = {} <=> n = 0) /\ (E = {} <=> s = 0)
    <2>1. IsFiniteSet(E) /\ Cardinality(E) \in Nat
      BY EntryFacts
    <2> QED BY <2>1, SumFacts1, FS_EmptySet
  <1>2. Frequency(E).count = n /\ Frequency(E).average = IF E = {} THEN None ELSE HalfUp(s, n)
    BY <1>1 DEF Frequency
  <1>3. CASE E = {}
    BY <1>1, <1>2, <1>3
  <1>4. CASE E # {}
    <2>1. PICK a \in Nat : a = HalfUp(s, n) /\ 2 * (a * n - s) <= n /\ -n <= 2 * (a * n - s)
      BY <1>1, <1>4, HalfUpRounds
    <2>2. a # None /\ s # 0
      BY <1>1, <1>4, StatsAssumption
    <2>3. 2 * (a * n - s) \in Int
      OBVIOUS
    <2>4. 2 * (a * n - s) \in (-n)..n
      BY <2>1, <2>3
    <2> QED BY <1>1, <1>2, <1>4, <2>1, <2>2, <2>4
  <1> QED BY <1>3, <1>4

\* The days of entries of a month lie within it, and are as many as the entries at most.
LEMMA DaysAreOfMonth ==
    ASSUME StatsTypeOK, NEW m \in Month, NEW E \in SUBSET ledger, \A e \in E : e.month = m, E # {}
    PROVE  LET days == {e.month * DaysInMonth + e.day : e \in E}
               n == Cardinality(days)
               span == Max(days) - Min(days) IN
           /\ n \in Nat \ {0} /\ n <= Cardinality(E)
           /\ span \in Nat /\ n - 1 <= span /\ span <= DaysInMonth - 1
  <1> DEFINE f == [e \in E |-> e.month * DaysInMonth + e.day]
  <1>1. PICK days : days = {e.month * DaysInMonth + e.day : e \in E}
    OBVIOUS
  <1>2. m \in Nat /\ DaysInMonth \in Nat \ {0}
    BY StatsAssumption DEF Month
  <1>3. PICK base \in Nat : base = m * DaysInMonth
    BY <1>2
  <1>4. \A x \in days : x \in Nat /\ base + 1 <= x /\ x <= base + DaysInMonth
    <2>1. ASSUME NEW e \in E
          PROVE  /\ e.month * DaysInMonth + e.day \in Nat
                 /\ base + 1 <= e.month * DaysInMonth + e.day
                 /\ e.month * DaysInMonth + e.day <= base + DaysInMonth
      <3>1. e.month * DaysInMonth = base /\ e.day \in Nat /\ 1 <= e.day /\ e.day <= DaysInMonth
        BY <1>2, <1>3, EntryFacts DEF Days
      <3> QED BY <1>2, <3>1
    <2> QED BY <1>1, <2>1
  <1>5. days # {} /\ days \in SUBSET Nat
    BY <1>1, <1>4
  <1>6. IsFiniteSet(days) /\ Cardinality(days) <= Cardinality(E)
    <2>1. f \in Surjection(E, days)
      BY <1>1 DEF Surjection
    <2>2. IsFiniteSet(E)
      BY EntryFacts
    <2> HIDE DEF f
    <2> QED BY <2>1, <2>2, FS_Surjection
  <1>7. Cardinality(days) \in Nat /\ Cardinality(days) # 0
    BY <1>5, <1>6, FS_CardinalityType, FS_EmptySet
  <1>8. PICK hi \in days : hi = Max(days) /\ \A x \in days : x <= hi
    BY <1>5, <1>6, FiniteIsBounded, MaxOfBounded
  <1>9. PICK lo \in days : \A x \in days : lo <= x
    BY <1>5, LeastNat
  <1>10. Min(days) = lo
    <2>1. \A x \in days : x \in Int
      BY <1>5
    <2> QED BY <1>9, <2>1 DEF Min
  <1>11. hi \in Nat /\ lo \in Nat /\ lo <= hi /\ hi - lo <= DaysInMonth - 1
    BY <1>2, <1>4, <1>8, <1>9
  <1>12. Cardinality(days) <= hi - lo + 1
    <2>1. days \in SUBSET (lo..hi)
      BY <1>4, <1>8, <1>9
    <2>2. IsFiniteSet(lo..hi) /\ Cardinality(lo..hi) = hi - lo + 1
      BY <1>11, FS_Interval
    <2> QED BY <2>1, <2>2, FS_Subset, ZenonT(60)
  <1> QED BY <1>1, <1>2, <1>6, <1>7, <1>8, <1>10, <1>11, <1>12

\* The mean gap between the days of a month is a day at least, and the gaps fit in the month.
LEMMA GapsFit ==
    ASSUME StatsTypeOK, NEW m \in Month, NEW E \in SUBSET ledger, \A e \in E : e.month = m
    PROVE  LET often == Frequency(E) IN
           often.gap # None => /\ often.gap >= 10 /\ often.days <= often.count
                               /\ 2 * often.gap * (often.days - 1)
                                      <= 20 * (DaysInMonth - 1) + often.days - 1
  <1>1. PICK days : days = {e.month * DaysInMonth + e.day : e \in E}
    OBVIOUS
  <1>2. PICK n : n = Cardinality(days)
    OBVIOUS
  <1>3. PICK span : span = Max(days) - Min(days)
    OBVIOUS
  <1>4. /\ Frequency(E).days = n /\ Frequency(E).count = Cardinality(E)
        /\ Frequency(E).gap = IF n <= 1 THEN None ELSE HalfUp(10 * span, n - 1)
    BY <1>1, <1>2, <1>3 DEF Frequency
  <1>5. SUFFICES ASSUME ~(n <= 1)
                 PROVE  /\ HalfUp(10 * span, n - 1) >= 10 /\ n <= Cardinality(E)
                        /\ 2 * HalfUp(10 * span, n - 1) * (n - 1) <= 20 * (DaysInMonth - 1) + n - 1
    BY <1>4
  <1>6. E # {}
    <2>1. SUFFICES ASSUME E = {} PROVE FALSE
      OBVIOUS
    <2>2. days = {}
      BY <1>1, <2>1
    <2> QED BY <1>2, <1>5, <2>2, FS_EmptySet
  <1>7. /\ n \in Nat \ {0} /\ n <= Cardinality(E)
        /\ span \in Nat /\ n - 1 <= span /\ span <= DaysInMonth - 1
    BY <1>1, <1>2, <1>3, <1>6, DaysAreOfMonth
  <1>8. PICK d \in Nat \ {0} : d = n - 1
    BY <1>5, <1>7
  <1>9. 10 * span \in Nat
    BY <1>7
  <1>10. PICK q \in Nat : /\ q = HalfUp(10 * span, d)
                          /\ 2 * (q * d - 10 * span) <= d /\ -d <= 2 * (q * d - 10 * span)
    BY <1>8, <1>9, HalfUpRounds
  <1>11. PICK p \in Nat : p = q * d
    BY <1>8
  <1>12. 2 * p <= 20 * span + d /\ 20 * span <= 2 * p + d
    BY <1>7, <1>8, <1>10, <1>11
  <1>13. q >= 10
    <2>1. SUFFICES ASSUME q <= 9 PROVE FALSE
      BY <1>10
    <2>2. d * q <= d * 9
      BY <1>8, <2>1, TimesGrows
    <2>3. p <= 9 * d /\ d <= span
      BY <1>7, <1>8, <1>11, <2>2
    <2> QED BY <1>7, <1>8, <1>12, <2>3
  <1>14. 2 * q * d = 2 * p
    BY <1>8, <1>11
  <1>15. 2 * p <= 20 * (DaysInMonth - 1) + d /\ DaysInMonth \in Nat
    BY <1>7, <1>8, <1>12, StatsAssumption
  <1>16. 2 * q * d <= 20 * (DaysInMonth - 1) + d /\ 20 * (DaysInMonth - 1) + d = 20 * (DaysInMonth - 1) + n - 1
    BY <1>7, <1>8, <1>14, <1>15
  <1>17. q = HalfUp(10 * span, n - 1) /\ 2 * q * (n - 1) <= 20 * (DaysInMonth - 1) + n - 1
    BY <1>8, <1>10, <1>16
  <1> QED BY <1>7, <1>13, <1>17

\* The counts of the categories add up.
LEMMA CountsAddUp ==
    ASSUME StatsTypeOK, NEW m \in Month
    PROVE  CountsAreTotal(m)
  <1>1. PICK E : E = In(Spending, {m})
    OBVIOUS
  <1>2. E \in SUBSET ledger /\ \A e \in E : e.category \in Expense
    BY <1>1 DEF In, Spending
  <1>3. PICK key, one, g : /\ key = [e \in E |-> e.category]
                           /\ one = [e \in E |-> 1]
                           /\ g = [c \in Expense |-> CountFrequency({m}, FALSE, c).count]
    OBVIOUS
  <1>4. IsFiniteSet(E) /\ \A e \in E : one[e] \in Int /\ one[e] = 1
    BY <1>2, <1>3, EntryFacts
  <1>5. ASSUME NEW R \in SUBSET E PROVE Total(one, R) = Cardinality(R)
    <2>1. IsFiniteSet(R) /\ Cardinality(R) \in Nat /\ 1 \in Int /\ \A e \in R : one[e] = 1
      BY <1>4, FS_Subset, FS_CardinalityType
    <2>2. Total(one, R) = 1 * Cardinality(R)
      BY <2>1, TotalOfConstant
    <2> QED BY <2>1, <2>2
  <1>6. ASSUME NEW c \in Expense PROVE g[c] = Total(one, {e \in E : key[e] = c})
    <2>1. {e \in E : key[e] = c} = {e \in E : c = None \/ e.category = c}
      BY <1>3, StatsAssumption
    <2>2. g[c] = Cardinality({e \in E : c = None \/ e.category = c})
      BY <1>1, <1>3 DEF CountFrequency, Frequency
    <2>3. PICK R : R = {e \in E : key[e] = c}
      OBVIOUS
    <2>4. Total(one, R) = Cardinality(R)
      BY <1>5, <2>3
    <2> QED BY <2>1, <2>2, <2>3, <2>4
  <1>7. Total(g, Expense) = Total(one, PartsOf(key, E, Expense))
    <2>1. PartSums(g, one, key, E, Expense) /\ IsFiniteSet(Expense)
      BY <1>6, StatsAssumption DEF PartSums
    <2>2. IsFiniteSet(E) /\ \A e \in E : one[e] \in Int
      BY <1>4
    <2> QED BY <2>1, <2>2, TotalOfParts
  <1>8. PartsOf(key, E, Expense) = E
    BY <1>2, <1>3 DEF PartsOf
  <1>9. Total(one, E) = Cardinality(E)
    BY <1>5
  <1>10. CountFrequency({m}, FALSE, None).count = Cardinality(E)
    BY <1>1 DEF CountFrequency, Frequency
  <1>11. SumFunction(g) = Total(g, Expense)
    <2>1. DOMAIN g = Expense
      BY <1>3
    <2> QED BY <2>1 DEF SumFunction, Total
  <1> QED BY <1>3, <1>7, <1>8, <1>9, <1>10, <1>11 DEF CountsAreTotal

\* The trend ends in the month itself.
LEMMA TrendEndsNow ==
    ASSUME StatsTypeOK, NEW m \in Month, Trend(m) # <<>>
    PROVE  Last(Trend(m)) = [month |-> m, total |-> Totals({m})]
  <1>1. PICK from : from = IF ledger = {} THEN m + 1
                           ELSE Max({m - TrendMonths + 1, FirstMonthOf(ledger)})
    OBVIOUS
  <1>2. m \in Nat /\ TrendMonths \in Nat
    BY StatsAssumption DEF Month
  <1>3. from \in Int
    <2>1. CASE ledger = {}
      BY <1>1, <1>2, <2>1
    <2>2. CASE ledger # {}
      <3>1. PICK months : months = {e.month : e \in ledger}
        OBVIOUS
      <3>2. months \in SUBSET Nat /\ months # {}
        BY <2>2, <3>1, EntryFacts
      <3>3. PICK lo \in months : \A x \in months : lo <= x
        BY <3>2, LeastNat
      <3>4. FirstMonthOf(ledger) = lo
        <4>1. \A x \in months : x \in Int
          BY <3>2
        <4>2. Min(months) = lo
          BY <3>3, <4>1 DEF Min
        <4> QED BY <3>1, <4>2 DEF FirstMonthOf
      <3>5. PICK a \in Int, b \in Int : a = m - TrendMonths + 1 /\ b = FirstMonthOf(ledger)
        BY <1>2, <3>2, <3>4
      <3>6. \E x \in {a, b} : \A y \in {a, b} : x >= y
        OBVIOUS
      <3>7. Max({a, b}) \in {a, b}
        BY <3>6 DEF Max
      <3> QED BY <1>1, <2>2, <3>5, <3>7
    <2> QED BY <2>1, <2>2
  <1>4. PICK n \in Int : n = m - from + 1
    BY <1>2, <1>3
  <1>5. Trend(m) = [i \in 1..n |-> [month |-> from + i - 1, total |-> Totals({from + i - 1})]]
    BY <1>1, <1>4 DEF Trend
  <1>6. n >= 1
    <2>1. SUFFICES ASSUME n < 1 PROVE FALSE
      OBVIOUS
    <2>2. 1..n = {}
      BY <2>1
    <2> QED BY <1>5, <2>2
  <1>7. Last(Trend(m)) = [month |-> from + n - 1, total |-> Totals({from + n - 1})]
    <2>1. n \in Nat /\ n \in 1..n
      BY <1>6
    <2>2. Len(Trend(m)) = n
      BY <1>5, <2>1
    <2> QED BY <1>5, <2>1, <2>2 DEF Last
  <1>8. from + n - 1 = m
    BY <1>2, <1>3, <1>4
  <1> QED BY <1>7, <1>8

\* What a budget is told on the days gone: numbers, that end in what was spent on these days.
LEMMA SeriesFacts ==
    ASSUME StatsTypeOK, NEW c \in Expense, NEW m \in Month, NEW el \in 1..DaysInMonth
    PROVE  LET series == Cumulative(DailySpent(c, m), el) IN
           /\ series \in [1..el -> Nat]
           /\ Last(series) \in Nat /\ Last(series) <= SpentBy(c, {m})
           /\ (\A e \in Of(c, {m}) : e.day <= el) => Last(series) = SpentBy(c, {m})
  <1>1. PICK daily : daily = DailySpent(c, m)
    OBVIOUS
  <1>2. PICK E : E = Of(c, {m})
    OBVIOUS
  <1>3. PICK series : series = Cumulative(daily, el)
    OBVIOUS
  <1>4. E \in SUBSET ledger /\ IsFiniteSet(E) /\ \A e \in E : e.day \in Nat /\ e.day \in Days /\ Amounts[e] \in Nat
    BY <1>2, SpentIsNat, EntryFacts, SumFacts1
  <1>5. el \in Nat /\ DaysInMonth \in Nat /\ Days = 1..DaysInMonth
    BY StatsAssumption DEF Days
  <1>6. ASSUME NEW d \in Days
        PROVE  daily[d] = Total(Amounts, {e \in E : e.day = d}) /\ daily[d] \in Nat
    <2>1. PICK R : R = {e \in E : e.day = d}
      OBVIOUS
    <2>2. daily[d] = Sum(R) /\ R \in SUBSET ledger
      BY <1>1, <1>2, <1>4, <2>1 DEF DailySpent
    <2> QED BY <2>1, <2>2, SumFacts1
  <1>7. ASSUME NEW d \in 1..el PROVE series[d] = Total(daily, 1..d) /\ series[d] \in Nat
    <2>1. series[d] = Total(daily, 1..d)
      BY <1>3 DEF Cumulative, Total
    <2>2. d \in Int /\ \A x \in 1..d : x \in Days
      BY <1>5
    <2>3. PICK K : K = 1..d
      OBVIOUS
    <2>4. IsFiniteSet(K) /\ \A x \in K : daily[x] \in Nat
      <3>1. 1 \in Int /\ d \in Int /\ \A x \in K : x \in Days
        BY <2>2, <2>3
      <3>2. IsFiniteSet(1..d)
        BY <3>1, FS_Interval
      <3> QED BY <1>6, <2>3, <3>1, <3>2
    <2>5. Total(daily, K) \in Nat
      BY <2>4, TotalOfNats
    <2> QED BY <2>1, <2>3, <2>5
  <1>8. series \in [1..el -> Nat]
    BY <1>3, <1>7 DEF Cumulative
  <1>9. Last(series) = Total(daily, 1..el) /\ Last(series) \in Nat
    <2>1. Len(series) = el /\ el \in 1..el
      BY <1>5, <1>8
    <2> QED BY <1>7, <2>1 DEF Last
  <1>10. PICK K : K = 1..el
    OBVIOUS
  <1>11. PICK key : key = [e \in E |-> e.day]
    OBVIOUS
  <1>12. Total(daily, K) = Total(Amounts, PartsOf(key, E, K))
    <2>1. IsFiniteSet(K) /\ \A d \in K : d \in Days
      BY <1>5, <1>10, FS_Interval
    <2>2. ASSUME NEW d \in K PROVE daily[d] = Total(Amounts, {e \in E : key[e] = d})
      <3>1. {e \in E : key[e] = d} = {e \in E : e.day = d}
        BY <1>11
      <3> QED BY <1>6, <2>1, <3>1
    <2>3. PartSums(daily, Amounts, key, E, K)
      BY <2>2 DEF PartSums
    <2>4. \A e \in E : Amounts[e] \in Int
      BY <1>4
    <2> QED BY <1>4, <2>1, <2>3, <2>4, TotalOfParts
  <1>13. SpentBy(c, {m}) = Total(Amounts, E)
    BY <1>2, <1>4, SumFacts1 DEF SpentBy
  <1>14. Last(series) <= SpentBy(c, {m})
    <2>1. PICK R : R = PartsOf(key, E, K)
      OBVIOUS
    <2>2. R \in SUBSET E
      BY <2>1 DEF PartsOf
    <2>3. Total(Amounts, R) <= Total(Amounts, E)
      BY <1>4, <2>2, TotalOfNats
    <2> QED BY <1>9, <1>10, <1>12, <1>13, <2>1, <2>3
  <1>15. ASSUME \A e \in E : e.day <= el PROVE Last(series) = SpentBy(c, {m})
    <2>1. PartsOf(key, E, K) = E
      BY <1>4, <1>5, <1>10, <1>11, <1>15 DEF PartsOf
    <2> QED BY <1>9, <1>10, <1>12, <1>13, <2>1
  <1> QED BY <1>1, <1>2, <1>3, <1>8, <1>9, <1>14, <1>15

\* A pace is told of a budget that there is, on a day of its month or later.
LEMMA PaceFacts ==
    ASSUME StatsTypeOK, NEW c \in Expense, NEW m \in Month, Pace(c, m) # None
    PROVE  LET series == Cumulative(DailySpent(c, m), Elapsed(m)) IN
           /\ Elapsed(m) \in 1..DaysInMonth /\ Limit(c, m) # None /\ Limit(c, m) \in Nat
           /\ Pace(c, m) = [cumulative |-> series, projected |-> Project(Last(series), Elapsed(m)),
                            over |-> CrossingDay(series, Limit(c, m))]
  <1>1. Limit(c, m) # None /\ Elapsed(m) # 0
    BY DEF Pace
  <1>2. Elapsed(m) \in 1..DaysInMonth
    <2>1. clock.day \in 1..DaysInMonth /\ DaysInMonth \in Nat \ {0}
      BY StatsAssumption DEF StatsTypeOK, Days
    <2> QED BY <1>1, <2>1 DEF Elapsed
  <1>3. Limit(c, m) \in Nat
    BY <1>1, LimitIsSet
  <1> QED BY <1>1, <1>2, <1>3 DEF Pace

\* The status and the pace of a budget tell the same.
LEMMA PaceIsStatus ==
    ASSUME StatsTypeOK, NEW c \in Expense, NEW m \in Month
    PROVE  BudgetIsOne(Status(c, m), Pace(c, m), Known(c, m))
  <1> SUFFICES ASSUME Pace(c, m) # None
               PROVE  /\ Last(Pace(c, m).cumulative) <= Status(c, m).spent
                      /\ Known(c, m) => /\ Last(Pace(c, m).cumulative) = Status(c, m).spent
                                        /\ Pace(c, m).projected = Status(c, m).projected
                                        /\ Pace(c, m).over = Status(c, m).over
    BY DEF BudgetIsOne
  <1>1. PICK el \in 1..DaysInMonth : el = Elapsed(m)
    BY PaceFacts
  <1>2. PICK series : series = Cumulative(DailySpent(c, m), el)
    OBVIOUS
  <1>3. /\ Limit(c, m) # None
        /\ Pace(c, m) = [cumulative |-> series, projected |-> Project(Last(series), el),
                         over |-> CrossingDay(series, Limit(c, m))]
    BY <1>1, <1>2, PaceFacts
  <1>4. /\ Status(c, m).spent = SpentBy(c, {m})
        /\ Status(c, m).projected = Project(SpentBy(c, {m}), el)
        /\ Status(c, m).over = CrossingDay(series, Limit(c, m))
    BY <1>1, <1>2, <1>3 DEF Status
  <1>5. Last(series) <= SpentBy(c, {m})
    BY <1>2, SeriesFacts
  <1>6. ASSUME Known(c, m) PROVE \A e \in Of(c, {m}) : e.day <= el
    <2>1. ASSUME NEW e \in Of(c, {m}) PROVE e.day <= el
      <3>1. e.day \in Nat /\ e.day <= DaysInMonth
        BY StatsAssumption, SpentIsNat, EntryFacts DEF Days
      <3>2. m < clock.month \/ (m = clock.month /\ e.day <= clock.day)
        BY <1>6 DEF Known
      <3>3. m \in Nat /\ clock.month \in Nat
        BY StatsAssumption DEF StatsTypeOK, Month
      <3>4. CASE m < clock.month
        BY <1>1, <3>1, <3>4 DEF Elapsed
      <3>5. CASE m = clock.month /\ e.day <= clock.day
        BY <1>1, <3>1, <3>3, <3>5 DEF Elapsed
      <3> QED BY <3>2, <3>4, <3>5
    <2> QED BY <2>1
  <1>7. Known(c, m) => Last(series) = SpentBy(c, {m})
    BY <1>2, <1>6, SeriesFacts
  <1> QED BY <1>3, <1>4, <1>5, <1>7

\* Whatever is asked of the ledger and in whichever months: the reports tell the same money
\* (ReportsAgree: SqlStatsRepository, MonthlyReport, budget_pace), for every ledger.
LEMMA FrequencyFits ==
    ASSUME StatsTypeOK, NEW m \in Month, NEW c, NEW E, \A e \in E : e.month = m,
           E = {e \in In(Spending, {m}) : c = None \/ e.category = c}
    PROVE  MeanAndGapFit(CountFrequency({m}, FALSE, c), Sum(E))
  <1>1. CountFrequency({m}, FALSE, c) = Frequency(E)
    BY DEF CountFrequency
  <1>2. E \in SUBSET ledger
    BY DEF In, Spending
  <1>3. PICK often, spent : often = Frequency(E) /\ spent = Sum(E)
    OBVIOUS
  <1>4. /\ often.average = None <=> spent = 0
        /\ often.average # None =>
               2 * (often.average * often.count - spent) \in (-often.count)..often.count
    BY <1>2, <1>3, MeanIsOfSum
  <1>5. often.gap # None => /\ often.gap >= 10 /\ often.days <= often.count
                            /\ 2 * often.gap * (often.days - 1)
                                   <= 20 * (DaysInMonth - 1) + often.days - 1
    BY <1>2, <1>3, GapsFit
  <1> QED BY <1>1, <1>3, <1>4, <1>5 DEF MeanAndGapFit

\* Whatever is in the ledger, every query tells the same money (ReportsAgree: SqlStatsRepository,
\* MonthlyReport, ComparePeriods, budget_pace).
THEOREM ReportsAreOne == StatsSpec => []ReportsAgree
  <1>1. ASSUME StatsTypeOK, NEW m \in Month
        PROVE  /\ TrendEndsIn(MonthlyReport(m), m)
               /\ MonthlyReport(m).totals.expense = Sum(In(Spending, {m}))
    BY <1>1, TrendEndsNow DEF MonthlyReport, TrendEndsIn, Totals
  <1>2. ASSUME StatsTypeOK, NEW m \in Month
        PROVE  MeanAndGapFit(CountFrequency({m}, FALSE, None), Sum(In(Spending, {m})))
    <2>1. PICK E : E = In(Spending, {m})
      OBVIOUS
    <2>2. E = {e \in In(Spending, {m}) : None = None \/ e.category = None} /\ \A e \in E : e.month = m
      BY <2>1 DEF In
    <2> QED BY <1>2, <2>1, <2>2, FrequencyFits
  <1>3. ASSUME StatsTypeOK, NEW m \in Month, NEW c \in Expense
        PROVE  MeanAndGapFit(CountFrequency({m}, FALSE, c), SpentBy(c, {m}))
    <2>1. PICK E : E = Of(c, {m})
      OBVIOUS
    <2>2. E = {e \in In(Spending, {m}) : c = None \/ e.category = c} /\ \A e \in E : e.month = m
      BY <2>1, StatsAssumption DEF Of, In
    <2>3. SpentBy(c, {m}) = Sum(E)
      BY <2>1 DEF SpentBy
    <2> QED BY <1>3, <2>2, <2>3, FrequencyFits
  <1>4. StatsTypeOK => ReportsAgree
    <2> SUFFICES ASSUME StatsTypeOK, NEW m \in Month
                 PROVE  LET report == MonthlyReport(m) IN
        /\ CategoriesAreTotal(report) /\ IsComparison(report, m) /\ TrendEndsIn(report, m)
        /\ MeanAndGapFit(CountFrequency({m}, FALSE, None), report.totals.expense)
        /\ \A c \in Expense : MeanAndGapFit(CountFrequency({m}, FALSE, c), SpentBy(c, {m}))
        /\ CountsAreTotal(m)
        /\ \A c \in Expense : BudgetIsOne(Status(c, m), Pace(c, m), Known(c, m))
      BY DEF ReportsAgree
    <2> QED BY <1>1, <1>2, <1>3, CategoriesAddUp, ReportIsComparison, CountsAddUp, PaceIsStatus
  <1> QED BY <1>4, StatsInvariant, PTL

\* Whatever is in the ledger and whatever the budget, the day it is said to be passed is the first one
\* on which it is (CrossingIsTrue: crossing_day, project).
THEOREM PaceIsCrossed == StatsSpec => []CrossingIsTrue
  <1>1. ASSUME StatsTypeOK, NEW m \in Month, NEW c \in Expense, Pace(c, m) # None
        PROVE  /\ IsCrossing(Pace(c, m).over, Pace(c, m).cumulative, Elapsed(m), Limit(c, m))
               /\ Pace(c, m).projected > Limit(c, m) => Pace(c, m).over # None
    <2>1. PICK el \in 1..DaysInMonth : el = Elapsed(m)
      BY <1>1, PaceFacts
    <2>2. PICK most \in Nat : most = Limit(c, m)
      BY <1>1, PaceFacts
    <2>3. PICK series : series = Cumulative(DailySpent(c, m), el)
      OBVIOUS
    <2>4. Pace(c, m) = [cumulative |-> series, projected |-> Project(Last(series), el),
                        over |-> CrossingDay(series, most)]
      BY <1>1, <2>1, <2>2, <2>3, PaceFacts
    <2>5. series \in [1..el -> Nat]
      BY <1>1, <2>3, SeriesFacts
    <2>6. /\ IsCrossing(CrossingDay(series, most), series, el, most)
          /\ Project(Last(series), el) > most => CrossingDay(series, most) # None
      BY <2>5, CrossingIsFirst
    <2> QED BY <2>1, <2>2, <2>4, <2>6
  <1>2. StatsTypeOK => CrossingIsTrue
    BY <1>1 DEF CrossingIsTrue
  <1> QED BY <1>2, StatsInvariant, PTL

-----------------------------------------------------------------------------
(* Pages of a list that changes *)

\* The rows there are stand in one strict order.
LEMMA RowsInOrder ==
    ASSUME PagesTypeOK
    PROVE  /\ Fitting \in SUBSET Id /\ IsFiniteSet(Fitting)
           /\ \A i \in Fitting : i \in Int /\ rows[i].at \in Int /\ rows[i].at \in Moment
           /\ \A i \in Fitting : ~Newer(i, i)
           /\ \A i, j \in Fitting : i # j => Newer(i, j) \/ Newer(j, i)
           /\ \A i, j, k \in Fitting : Newer(i, j) /\ Newer(j, k) => Newer(i, k)
  <1>1. Fitting \in SUBSET Id /\ \A i \in Fitting : rows[i] \in Row
    BY DEF Fitting, PagesTypeOK
  <1>2. IsFiniteSet(Fitting)
    BY <1>1, FS_Subset, PagesAssumption
  <1>3. \A i \in Fitting : i \in Int /\ rows[i].at \in Int /\ rows[i].at \in Moment
    BY <1>1, PagesAssumption DEF Row
  <1>4. /\ \A i \in Fitting : ~Newer(i, i)
        /\ \A i, j \in Fitting : i # j => Newer(i, j) \/ Newer(j, i)
    BY <1>3 DEF Newer
  <1>5. ASSUME NEW i \in Fitting, NEW j \in Fitting, NEW k \in Fitting, Newer(i, j), Newer(j, k)
        PROVE  Newer(i, k)
    <2>1. PICK a \in Int, b \in Int, c \in Int : a = rows[i].at /\ b = rows[j].at /\ c = rows[k].at
      BY <1>3
    <2>2. (a > b \/ (a = b /\ i > j)) /\ (b > c \/ (b = c /\ j > k))
      BY <1>5, <2>1 DEF Newer
    <2>3. a > c \/ (a = c /\ i > k)
      BY <1>3, <2>2
    <2> QED BY <2>1, <2>3 DEF Newer
  <1> QED BY <1>1, <1>2, <1>3, <1>4, <1>5

\* How many rows of some are newer says where a row stands among them: every place is taken, by
\* one row.
LEMMA RanksAreTaken ==
    ASSUME PagesTypeOK, NEW ids \in SUBSET Fitting
    PROVE  LET rank(i) == Cardinality({j \in ids : Newer(j, i)}) IN
           /\ IsFiniteSet(ids) /\ Cardinality(ids) \in Nat
           /\ \A i \in ids : rank(i) \in 0..(Cardinality(ids) - 1)
           /\ \A i, j \in ids : Newer(i, j) => rank(i) < rank(j)
           /\ \A r \in 0..(Cardinality(ids) - 1) : \E i \in ids : rank(i) = r
  <1> DEFINE newer(i) == {j \in ids : Newer(j, i)}
             rank(i) == Cardinality(newer(i))
  <1>1. IsFiniteSet(ids) /\ Cardinality(ids) \in Nat
    BY RowsInOrder, FS_Subset, FS_CardinalityType
  <1>2. ASSUME NEW i \in ids PROVE rank(i) \in 0..(Cardinality(ids) - 1) /\ IsFiniteSet(newer(i))
    <2>1. newer(i) \subseteq ids /\ i \notin newer(i)
      BY RowsInOrder
    <2>2. newer(i) # ids
      BY <2>1
    <2> HIDE DEF newer
    <2>3. rank(i) <= Cardinality(ids) /\ (rank(i) = Cardinality(ids) => newer(i) = ids)
          /\ IsFiniteSet(newer(i))
      BY <1>1, <2>1, FS_Subset
    <2>4. rank(i) \in Nat
      BY <2>3, FS_CardinalityType
    <2> QED BY <1>1, <2>2, <2>3, <2>4
  <1>3. ASSUME NEW i \in ids, NEW j \in ids, Newer(i, j) PROVE rank(i) < rank(j)
    <2>1. newer(i) \subseteq newer(j) /\ i \in newer(j) /\ i \notin newer(i)
      BY <1>3, RowsInOrder
    <2>2. newer(i) # newer(j)
      BY <2>1
    <2>3. rank(i) \in Nat /\ rank(j) \in Nat /\ IsFiniteSet(newer(j))
      BY <1>1, <1>2
    <2> HIDE DEF newer
    <2>4. rank(i) <= rank(j) /\ rank(i) # rank(j)
      BY <2>1, <2>2, <2>3, FS_Subset
    <2> QED BY <2>3, <2>4
  <1>4. ASSUME NEW r \in 0..(Cardinality(ids) - 1) PROVE \E i \in ids : rank(i) = r
    <2>1. SUFFICES ASSUME \A i \in ids : rank(i) # r PROVE FALSE
      OBVIOUS
    <2> DEFINE places == (0..(Cardinality(ids) - 1)) \ {r}
               f == [i \in ids |-> rank(i)]
    <2>2. IsFiniteSet(places) /\ Cardinality(places) < Cardinality(ids)
      <3>1. IsFiniteSet(0..(Cardinality(ids) - 1)) /\ Cardinality(0..(Cardinality(ids) - 1)) = Cardinality(ids)
        BY <1>1, FS_Interval
      <3>2. PICK all : all = 0..(Cardinality(ids) - 1)
        OBVIOUS
      <3>3. r \in all /\ IsFiniteSet(all) /\ Cardinality(all) = Cardinality(ids)
        BY <3>1, <3>2
      <3>4. IsFiniteSet(all \ {r}) /\ Cardinality(all \ {r}) = Cardinality(ids) - 1
        BY <3>3, FS_RemoveElement
      <3> QED BY <1>1, <3>2, <3>4
    <2>3. f \in [ids -> places]
      BY <1>2, <2>1
    <2>4. \A i \in ids : f[i] = rank(i)
      OBVIOUS
    <2> HIDE DEF places, f, newer
    <2>5. PICK i \in ids, j \in ids : i # j /\ f[i] = f[j]
      BY <1>1, <2>2, <2>3, FS_PigeonHole
    <2>6. rank(i) < rank(j) \/ rank(j) < rank(i)
      BY <1>3, <2>5, RowsInOrder
    <2>7. rank(i) \in Int /\ rank(j) \in Int
      BY <1>1, <1>2
    <2> QED BY <2>4, <2>5, <2>6, <2>7
  <1> QED BY <1>1, <1>2, <1>3, <1>4

\* The first rows of some, in their order: a row that is left out is below all of them.
IsFirstOf(s, ids, n) ==
    /\ Len(s) = IF Cardinality(ids) < n THEN Cardinality(ids) ELSE n
    /\ Cardinality(ids) \in Nat /\ s \in Seq(ids)
    /\ \A a, b \in DOMAIN s : a < b => Newer(s[a], s[b])
    /\ \A i \in ids, k \in DOMAIN s : ~Newer(s[k], i) => \E a \in 1..k : s[a] = i

\* The rows of a page are the first n of their order.
LEMMA SortedFacts ==
    ASSUME PagesTypeOK, NEW ids \in SUBSET Fitting, NEW n \in Nat, NEW s, s = Sorted(ids, n)
    PROVE  IsFirstOf(s, ids, n)
  <1> DEFINE rank(i) == Cardinality({j \in ids : Newer(j, i)})
             length == IF Cardinality(ids) < n THEN Cardinality(ids) ELSE n
  <1>1. /\ Cardinality(ids) \in Nat
        /\ \A i \in ids : rank(i) \in 0..(Cardinality(ids) - 1)
        /\ \A i, j \in ids : Newer(i, j) => rank(i) < rank(j)
        /\ \A r \in 0..(Cardinality(ids) - 1) : \E i \in ids : rank(i) = r
    BY RanksAreTaken
  <1>2. s = [k \in 1..length |-> CHOOSE i \in ids : rank(i) = k - 1]
    BY DEF Sorted
  <1> HIDE DEF rank
  <1>3. length \in Nat /\ length <= Cardinality(ids)
    BY <1>1
  <1>4. ASSUME NEW k \in 1..length PROVE s[k] \in ids /\ rank(s[k]) = k - 1
    <2>1. k - 1 \in 0..(Cardinality(ids) - 1)
      BY <1>1, <1>3
    <2>2. \E i \in ids : rank(i) = k - 1
      BY <1>1, <2>1
    <2> QED BY <1>2, <2>2
  <1>5. s \in Seq(ids) /\ Len(s) = length /\ DOMAIN s = 1..length
    <2> HIDE DEF length
    <2>1. s \in [1..length -> ids]
      BY <1>2, <1>4
    <2> QED BY <1>3, <2>1
  <1>6. ASSUME NEW i \in ids, NEW j \in ids, rank(i) < rank(j) PROVE Newer(i, j)
    <2>1. rank(i) \in Int /\ rank(j) \in Int /\ (Newer(j, i) => rank(j) < rank(i))
      BY <1>1
    <2>2. i # j /\ ~Newer(j, i)
      BY <1>6, <2>1
    <2> QED BY <2>2, RowsInOrder
  <1>7. ASSUME NEW a \in DOMAIN s, NEW b \in DOMAIN s, a < b PROVE Newer(s[a], s[b])
    BY <1>3, <1>4, <1>5, <1>6, <1>7
  <1>8. ASSUME NEW i \in ids, NEW k \in DOMAIN s, ~Newer(s[k], i) PROVE \E a \in 1..k : s[a] = i
    <2>1. PICK r \in 0..(Cardinality(ids) - 1) : r = rank(i)
      BY <1>1
    <2>2. s[k] \in ids /\ rank(s[k]) = k - 1 /\ k \in Nat /\ k <= length
      BY <1>3, <1>4, <1>5
    <2>3. ~(k - 1 < r)
      BY <1>6, <1>8, <2>1, <2>2
    <2>4. r + 1 \in 1..k /\ r + 1 \in 1..length
      BY <1>1, <1>3, <2>2, <2>3
    <2>5. s[r + 1] \in ids /\ rank(s[r + 1]) = rank(i)
      BY <1>4, <2>1, <2>4
    <2>6. s[r + 1] = i
      BY <1>1, <2>5, RowsInOrder
    <2> QED BY <2>4, <2>6
  <1> QED BY <1>1, <1>5, <1>7, <1>8 DEF IsFirstOf

\* Where the cursor of a row is, there the row is.
LEMMA CursorOfRow ==
    ASSUME PagesTypeOK, NEW i \in Fitting, NEW j \in Fitting
    PROVE  /\ At(i) \in [at : Moment, id : Id] /\ At(i) # None
           /\ Before(j, At(i)) <=> Newer(i, j)
  <1>1. i \in Int /\ j \in Int /\ rows[i].at \in Int /\ rows[j].at \in Int /\ rows[i].at \in Moment /\ i \in Id
    BY RowsInOrder
  <1>2. At(i) \in [at : Moment, id : Id] /\ At(i) # None
    BY <1>1, PagesAssumption DEF At
  <1> QED BY <1>1, <1>2 DEF At, Before, Newer

Cursors == [at : Moment, id : Id] \cup {None}

\* A page is what comes next in the order, and its cursor is where it ends.
LEMMA PageFacts ==
    ASSUME PagesTypeOK, NEW after \in Cursors, NEW n \in Nat \ {0}, NEW p, p = Page(after, n)
    PROVE  /\ p.items \in Seq(Id) /\ ToSet(p.items) \subseteq Unread(after) /\ p.next \in Cursors
           /\ \A a, b \in DOMAIN p.items : a < b => Newer(p.items[a], p.items[b])
           /\ \A i \in ToSet(p.items) : Reached(i, p.next)
           /\ \A i \in Unread(after) : Reached(i, p.next) => i \in ToSet(p.items)
           /\ p.next # None => \E l \in Unread(after) : p.next = At(l)
  <1> DEFINE ids == Unread(after)
  <1>1. ids \in SUBSET Fitting /\ Fitting \in SUBSET Id
    BY RowsInOrder DEF Unread
  <1>2. PICK s : s = Sorted(ids, n + 1)
    OBVIOUS
  <1> HIDE DEF ids
  <1>3. /\ Len(s) = (IF Cardinality(ids) < n + 1 THEN Cardinality(ids) ELSE n + 1)
        /\ Cardinality(ids) \in Nat /\ s \in Seq(ids)
        /\ \A a, b \in DOMAIN s : a < b => Newer(s[a], s[b])
        /\ \A i \in ids, k \in DOMAIN s : ~Newer(s[k], i) => \E a \in 1..k : s[a] = i
    <2>1. PICK m \in Nat : m = n + 1
      OBVIOUS
    <2>2. PICK S \in SUBSET Fitting : S = ids
      BY <1>1
    <2>3. s = Sorted(S, m)
      BY <1>2, <2>1, <2>2
    <2>4. IsFirstOf(s, S, m)
      BY <2>1, <2>2, <2>3, SortedFacts
    <2>5. IsFirstOf(s, ids, n + 1)
      BY <2>1, <2>2, <2>4
    <2> QED BY <2>5 DEF IsFirstOf
  <1>4. Found(after, n) = s
    BY <1>2 DEF Found, ids
  <1>5. /\ DOMAIN s = 1..Len(s) /\ Len(s) \in Nat /\ \A a \in DOMAIN s : s[a] \in ids
    BY <1>3
  <1>6. CASE Len(s) <= n
    <2>1. p = [items |-> s, next |-> None]
      BY <1>4, <1>6 DEF Page
    <2>2. Len(s) = Cardinality(ids)
      BY <1>3, <1>6
    <2>3. ids \subseteq ToSet(s)
      <3>1. SUFFICES ASSUME NEW i \in ids, \A a \in DOMAIN s : s[a] # i PROVE FALSE
        BY DEF ToSet
      <3>2. \A k \in DOMAIN s : Newer(s[k], i)
        BY <1>3, <1>5, <3>1
      <3> DEFINE newer == {j \in ids : Newer(j, i)}
                 f == [a \in 1..Len(s) |-> s[a]]
      <3>3. IsFiniteSet(newer) /\ Cardinality(newer) < Cardinality(ids)
        <4>1. Cardinality(newer) \in 0..(Cardinality(ids) - 1)
          BY <1>1, RanksAreTaken
        <4>2. IsFiniteSet(ids) /\ newer \in SUBSET ids
          BY <1>1, RanksAreTaken
        <4> HIDE DEF newer
        <4> QED BY <1>3, <4>1, <4>2, FS_Subset
      <3>4. f \in [1..Len(s) -> newer]
        BY <1>5, <3>2
      <3>5. IsFiniteSet(1..Len(s)) /\ Cardinality(1..Len(s)) = Cardinality(ids)
        BY <1>5, <2>2, FS_Interval
      <3> HIDE DEF newer
      <3>6. PICK a \in 1..Len(s), b \in 1..Len(s) : a # b /\ f[a] = f[b]
        <4> HIDE DEF f
        <4> QED BY <3>3, <3>4, <3>5, FS_PigeonHole
      <3>7. s[a] = s[b] /\ (Newer(s[a], s[b]) \/ Newer(s[b], s[a]))
        BY <1>3, <1>5, <3>6
      <3> QED BY <1>1, <1>5, <3>6, <3>7, RowsInOrder
    <2>4. s \in Seq(Id)
      BY <1>1, <1>3
    <2>5. ToSet(s) \subseteq ids
      BY <1>5 DEF ToSet
    <2> QED BY <1>3, <2>1, <2>3, <2>4, <2>5 DEF ids, Cursors, Reached
  <1>7. CASE ~(Len(s) <= n)
    <2> DEFINE t == SubSeq(s, 1, n)
    <2>1. Len(s) = n + 1 /\ n \in DOMAIN s
      BY <1>3, <1>5, <1>7
    <2>2. p = [items |-> t, next |-> At(s[n])]
      BY <1>4, <1>7 DEF Page
    <2>3. t \in Seq(ids) /\ Len(t) = n /\ DOMAIN t = 1..n /\ \A a \in 1..n : t[a] = s[a]
      BY <1>3, <2>1
    <2> HIDE DEF t
    <2>4. s[n] \in ids /\ s[n] \in Fitting
      BY <1>1, <1>5, <2>1
    <2>5. \A i \in ids : Before(i, At(s[n])) <=> Newer(s[n], i)
      BY <1>1, <2>4, CursorOfRow
    <2>6. At(s[n]) \in Cursors /\ At(s[n]) # None
      BY <2>4, CursorOfRow DEF Cursors
    <2>7. ASSUME NEW i \in ToSet(t) PROVE i \in ids /\ ~Newer(s[n], i)
      <3>1. PICK a \in 1..n : t[a] = i
        BY <2>3 DEF ToSet
      <3>2. a \in DOMAIN s /\ i = s[a] /\ i \in ids
        BY <1>5, <2>1, <2>3, <3>1
      <3>3. a = n \/ Newer(i, s[n])
        BY <1>3, <2>1, <3>1, <3>2
      <3> QED BY <1>1, <2>4, <3>2, <3>3, RowsInOrder
    <2>8. ASSUME NEW i \in ids, ~Newer(s[n], i) PROVE i \in ToSet(t)
      <3>1. PICK a \in 1..n : s[a] = i
        BY <1>3, <2>1, <2>8
      <3> QED BY <2>3, <3>1 DEF ToSet
    <2>9. \A a, b \in DOMAIN t : a < b => Newer(t[a], t[b])
      BY <1>3, <1>5, <2>1, <2>3
    <2>10. t \in Seq(Id)
      BY <1>1, <2>3
    <2>11. \A i \in ToSet(t) : i \in ids /\ Reached(i, At(s[n]))
      BY <2>5, <2>7 DEF Reached
    <2>12. \A i \in ids : Reached(i, At(s[n])) => i \in ToSet(t)
      BY <2>5, <2>6, <2>8 DEF Reached
    <2> QED BY <2>2, <2>4, <2>6, <2>9, <2>10, <2>11, <2>12 DEF ids
  <1> QED BY <1>6, <1>7

\* No list is open at the start.
LEMMA PagesStart == PagesInit => PagesInductive
  <1> SUFFICES ASSUME PagesInit PROVE PagesInductive
    OBVIOUS
  <1>1. PagesTypeOK
    BY DEF PagesInit, PagesTypeOK
  <1>2. ToSet(listed) = {} /\ DOMAIN listed = {}
    BY DEF PagesInit, ToSet
  <1> QED BY <1>1, <1>2 DEF PagesInit, PagesInductive, ShownToCursor

\* A page has a row at least.
LEMMA ClampedIsMore ==
    ASSUME NEW n \in Asked
    PROVE  Clamp(n) \in Nat \ {0}
  BY PagesAssumption DEF Clamp

\* The first page of a list that is opened.
LEMMA KeepsOpenList ==
    ASSUME PagesInductive, NEW n \in Asked, OpenList(n)
    PROVE  PagesInductive'
  <1>1. PICK size \in Nat \ {0} : size = Clamp(n)
    BY ClampedIsMore
  <1>2. PICK p : p = Page(None, size)
    OBVIOUS
  <1>3. /\ limit' = n /\ listed' = p.items /\ cursor' = p.next /\ touched' = {} /\ rows' = rows
    BY <1>1, <1>2 DEF OpenList
  <1>4. PagesTypeOK /\ None \in Cursors
    BY DEF PagesInductive, Cursors
  <1>5. /\ p.items \in Seq(Id) /\ ToSet(p.items) \subseteq Unread(None) /\ p.next \in Cursors
        /\ \A a, b \in DOMAIN p.items : a < b => Newer(p.items[a], p.items[b])
        /\ \A i \in ToSet(p.items) : Reached(i, p.next)
        /\ \A i \in Unread(None) : Reached(i, p.next) => i \in ToSet(p.items)
    BY <1>2, <1>4, PageFacts
  <1>6. Unread(None) = Fitting
    BY DEF Unread
  <1>7. PagesTypeOK'
    BY <1>3, <1>4, <1>5 DEF PagesTypeOK, Cursors
  <1>8. n # None
    BY PagesAssumption
  <1>9. ToSet(listed)' = ToSet(p.items) /\ Fitting' = Fitting
    BY <1>3 DEF Fitting, ToSet
  <1>10. \A i, c : Reached(i, c)' <=> Reached(i, c)
    BY <1>3 DEF Reached, Before
  <1>11. \A i, j : Newer(i, j)' <=> Newer(i, j)
    BY <1>3 DEF Newer
  <1>12. ShownToCursor'
    BY <1>3, <1>5, <1>6, <1>8, <1>9, <1>10, <1>11 DEF ShownToCursor
  <1> QED BY <1>7, <1>12 DEF PagesInductive

\* The next page goes on below the cursor.
LEMMA KeepsMore ==
    ASSUME PagesInductive, More
    PROVE  PagesInductive'
  <1>0. PagesTypeOK /\ ShownToCursor
    BY DEF PagesInductive
  <1>1. limit # None /\ cursor # None /\ limit \in Asked /\ cursor \in Cursors
    BY <1>0 DEF More, PagesTypeOK, Cursors
  <1>2. PICK size \in Nat \ {0}, from \in Cursors : size = Clamp(limit) /\ from = cursor
    <2>1. PICK n \in Asked : n = limit
      BY <1>1
    <2> QED BY <1>1, <2>1, ClampedIsMore
  <1>3. PICK p : p = Page(from, size)
    OBVIOUS
  <1>4. listed' = listed \o p.items /\ cursor' = p.next /\ UNCHANGED <<rows, limit, touched>>
    BY <1>2, <1>3 DEF More
  <1>5. /\ p.items \in Seq(Id) /\ ToSet(p.items) \subseteq Unread(from) /\ p.next \in Cursors
        /\ \A a, b \in DOMAIN p.items : a < b => Newer(p.items[a], p.items[b])
        /\ \A i \in ToSet(p.items) : Reached(i, p.next)
        /\ \A i \in Unread(from) : Reached(i, p.next) => i \in ToSet(p.items)
        /\ p.next # None => \E l \in Unread(from) : p.next = At(l)
    BY <1>0, <1>3, PageFacts
  <1>6. /\ listed \in Seq(Id) /\ listed' \in Seq(Id) /\ Len(listed') = Len(listed) + Len(p.items)
        /\ \A a \in DOMAIN listed : a \in DOMAIN listed' /\ listed'[a] = listed[a]
        /\ \A a \in DOMAIN listed' : a \in DOMAIN listed \/
               (/\ a - Len(listed) \in DOMAIN p.items /\ listed'[a] = p.items[a - Len(listed)]
                /\ a > Len(listed))
        /\ \A a \in DOMAIN p.items : a + Len(listed) \in DOMAIN listed' /\ listed'[a + Len(listed)] = p.items[a]
    BY <1>0, <1>4, <1>5, SMTT(40) DEF PagesTypeOK
  <1>7. ToSet(listed') = ToSet(listed) \cup ToSet(p.items)
    <2>1. ASSUME NEW i \in ToSet(listed') PROVE i \in ToSet(listed) \cup ToSet(p.items)
      BY <1>6 DEF ToSet
    <2>2. ASSUME NEW i \in ToSet(listed) PROVE i \in ToSet(listed')
      BY <1>6 DEF ToSet
    <2>3. ASSUME NEW i \in ToSet(p.items) PROVE i \in ToSet(listed')
      BY <1>6 DEF ToSet
    <2> QED BY <2>1, <2>2, <2>3
  <1>8. PagesTypeOK'
    BY <1>0, <1>4, <1>5, <1>6 DEF PagesTypeOK, Cursors
  <1>9. /\ Fitting' = Fitting /\ (\A i, c : Reached(i, c)' <=> Reached(i, c))
        /\ \A i, j : Newer(i, j)' <=> Newer(i, j)
    BY <1>4 DEF Fitting, Reached, Before, Newer
  <1>10. /\ \A i \in ToSet(listed) \ touched : i \in Fitting /\ ~Before(i, from)
         /\ \A i \in Unread(from) : i \in Fitting /\ Before(i, from)
         /\ \A i \in Fitting : i \in Unread(from) \/ Reached(i, from)
    BY <1>0, <1>1, <1>2 DEF ShownToCursor, Reached, Unread
  <1>11. ASSUME NEW i \in Fitting, ~Before(i, from), NEW j \in Fitting, Before(j, from)
         PROVE  Newer(i, j)
    <2>1. /\ i \in Int /\ j \in Int /\ rows[i].at \in Int /\ rows[j].at \in Int
          /\ from.at \in Int /\ from.id \in Int
      BY <1>0, <1>1, <1>2, RowsInOrder, PagesAssumption DEF Cursors
    <2> QED BY <1>11, <2>1 DEF Before, Newer
  <1>12. ASSUME NEW i \in Fitting, ~Before(i, from) PROVE Reached(i, p.next)
    <2>1. CASE p.next = None
      BY <2>1 DEF Reached
    <2>2. ASSUME NEW l \in Unread(from), p.next = At(l) PROVE Reached(i, p.next)
      <3>1. l \in Fitting /\ Newer(i, l)
        BY <1>10, <1>11, <1>12
      <3>2. ~Newer(l, i)
        BY <1>0, <3>1, RowsInOrder
      <3> QED BY <1>0, <2>2, <3>1, <3>2, CursorOfRow DEF Reached
    <2> QED BY <1>5, <2>1, <2>2
  <1>13. \A i \in ToSet(listed') \ touched : i \in Fitting /\ Reached(i, p.next)
    BY <1>5, <1>7, <1>10, <1>12
  <1>14. \A i \in Fitting \ touched : Reached(i, p.next) => i \in ToSet(listed')
    <2>1. \A i \in Fitting \ touched : Reached(i, from) => i \in ToSet(listed)
      BY <1>0, <1>1, <1>2 DEF ShownToCursor
    <2> QED BY <1>5, <1>7, <1>10, <2>1
  <1>15. ASSUME NEW a \in DOMAIN listed', NEW b \in DOMAIN listed', a < b,
                {listed'[a], listed'[b]} \cap touched = {}
         PROVE  Newer(listed'[a], listed'[b])
    <2>0. a \in Nat /\ b \in Nat /\ Len(listed) \in Nat /\ DOMAIN listed = 1..Len(listed)
      BY <1>6
    <2>1. CASE a \in DOMAIN listed /\ b \in DOMAIN listed
      BY <1>0, <1>6, <1>15, <2>1 DEF ShownToCursor
    <2>2. CASE a \in DOMAIN listed /\ b \notin DOMAIN listed
      <3>1. listed'[a] \in ToSet(listed) \ touched /\ listed'[b] \in ToSet(p.items)
        BY <1>6, <1>15, <2>2 DEF ToSet
      <3> QED BY <1>5, <1>10, <1>11, <3>1
    <2>3. CASE a \notin DOMAIN listed /\ b \notin DOMAIN listed
      <3>1. PICK c \in DOMAIN p.items, d \in DOMAIN p.items :
                c = a - Len(listed) /\ d = b - Len(listed) /\ listed'[a] = p.items[c] /\ listed'[b] = p.items[d]
        BY <1>6, <2>3
      <3>2. c < d
        BY <1>15, <2>0, <3>1
      <3> QED BY <1>5, <3>1, <3>2
    <2>4. CASE a \notin DOMAIN listed /\ b \in DOMAIN listed
      BY <1>6, <1>15, <2>0, <2>4
    <2> QED BY <2>1, <2>2, <2>3, <2>4
  <1>16. ToSet(listed)' = ToSet(listed')
    BY DEF ToSet
  <1>17. ShownToCursor'
    BY <1>1, <1>4, <1>9, <1>13, <1>14, <1>15, <1>16 DEF ShownToCursor
  <1> QED BY <1>8, <1>17 DEF PagesInductive

\* A row that changes is no longer one that stayed as it was.
LEMMA KeepsChangeRow ==
    ASSUME PagesInductive, NEW i \in Id, NEW row \in Row \cup {None}, ChangeRow(i, row)
    PROVE  PagesInductive'
  <1>0. PagesTypeOK /\ ShownToCursor
    BY DEF PagesInductive
  <1>1. /\ rows' = [rows EXCEPT ![i] = row] /\ UNCHANGED <<listed, cursor, limit>>
        /\ touched' = IF limit = None THEN {} ELSE touched \cup {i}
    BY DEF ChangeRow
  <1>2. PagesTypeOK'
    BY <1>0, <1>1 DEF PagesTypeOK
  <1>3. ToSet(listed)' = ToSet(listed)
    BY <1>1 DEF ToSet
  <1>4. CASE limit = None
    <2>1. listed = <<>> /\ cursor = None /\ ToSet(listed) = {} /\ DOMAIN listed = {}
      BY <1>0, <1>4 DEF ShownToCursor, ToSet
    <2> QED BY <1>1, <1>2, <1>3, <1>4, <2>1 DEF PagesInductive, ShownToCursor
  <1>5. CASE limit # None
    <2>1. \A j \in Id \ touched' : j # i /\ j \notin touched /\ rows'[j] = rows[j]
      BY <1>0, <1>1, <1>5 DEF PagesTypeOK
    <2>2. \A j \in Id \ touched' : /\ j \in Fitting' <=> j \in Fitting
                                   /\ Reached(j, cursor)' <=> Reached(j, cursor)
      BY <1>1, <2>1 DEF Fitting, Reached, Before
    <2>3. \A j, k \in Id \ touched' : Newer(j, k)' <=> Newer(j, k)
      BY <2>1 DEF Newer
    <2>4. \A a \in DOMAIN listed : listed[a] \in Id
      BY <1>0 DEF PagesTypeOK
    <2>5. \A j \in ToSet(listed) : j \in Id
      BY <2>4 DEF ToSet
    <2>6. \A j \in ToSet(listed)' \ touched' : j \in Fitting' /\ Reached(j, cursor)'
      BY <1>0, <1>3, <2>1, <2>2, <2>5 DEF ShownToCursor
    <2>7. \A j \in Fitting' \ touched' : Reached(j, cursor)' => j \in ToSet(listed)'
      <3>1. Fitting' \subseteq Id
        BY DEF Fitting
      <3> QED BY <1>0, <1>3, <1>5, <2>1, <2>2, <3>1 DEF ShownToCursor
    <2>8. \A a, b \in DOMAIN listed :
              a < b /\ {listed[a], listed[b]} \cap touched' = {} => Newer(listed[a], listed[b])'
      BY <1>0, <1>1, <2>1, <2>3, <2>4 DEF ShownToCursor
    <2>9. ShownToCursor'
      BY <1>1, <1>5, <2>6, <2>7, <2>8 DEF ShownToCursor
    <2> QED BY <1>2, <2>9 DEF PagesInductive
  <1> QED BY <1>4, <1>5

\* Each step keeps it: opening a list, asking for more, a row that is made, moved or deleted.
LEMMA PagesStep == PagesInductive /\ [PagesNext]_page_vars => PagesInductive'
  <1> SUFFICES ASSUME PagesInductive, [PagesNext]_page_vars PROVE PagesInductive'
    OBVIOUS
  <1>1. ASSUME NEW n \in Asked, OpenList(n) PROVE PagesInductive'
    BY <1>1, KeepsOpenList
  <1>2. CASE More
    BY <1>2, KeepsMore
  <1>3. ASSUME NEW i \in Id, NEW row \in Row \cup {None}, ChangeRow(i, row) PROVE PagesInductive'
    BY <1>3, KeepsChangeRow
  <1>4. CASE UNCHANGED page_vars
    BY <1>4 DEF page_vars, PagesInductive, PagesTypeOK, ShownToCursor, Fitting, Reached, Before, Newer
  <1> QED BY <1>1, <1>2, <1>3, <1>4 DEF PagesNext

\* Whatever happens to the rows between two pages, what was shown lies up to the cursor (PagesInductive:
\* search, cursor_of).
THEOREM PagesInvariant == PagesSpec => []PagesInductive
  BY PagesStart, PagesStep, PTL DEF PagesSpec

\* A row that stays as it is is shown once and never left out, however many change around it
\* (UnchangedSeenOnce: SqlTransactionRepository.search).
THEOREM PagesShowOnce == PagesSpec => []UnchangedSeenOnce
  <1>1. ASSUME PagesInductive PROVE UnchangedSeenOnce
    <2>1. PagesTypeOK /\ ShownToCursor
      BY <1>1 DEF PagesInductive
    <2>2. DOMAIN listed = 1..Len(listed) /\ Len(listed) \in Nat /\ \A a \in DOMAIN listed : listed[a] \in Id
      BY <2>1 DEF PagesTypeOK
    <2>3. ASSUME NEW i \in Id \ touched
          PROVE  /\ Times(i) \in Nat /\ Times(i) <= 1
                 /\ Times(i) = 1 <=> i \in ToSet(listed)
      <3> DEFINE places == {n \in DOMAIN listed : listed[n] = i}
      <3>1. CASE i \notin ToSet(listed)
        <4>1. places = {}
          BY <3>1 DEF ToSet
        <4> QED BY <3>1, <4>1, FS_EmptySet DEF Times
      <3>2. CASE i \in ToSet(listed)
        <4>1. PICK n \in DOMAIN listed : listed[n] = i
          BY <3>2 DEF ToSet
        <4>2. i \in Fitting /\ ~Newer(i, i)
          BY <2>1, <2>3, <3>2, RowsInOrder DEF ShownToCursor
        <4>3. ASSUME NEW m \in DOMAIN listed, listed[m] = i, m # n PROVE FALSE
          <5>1. {listed[m], listed[n]} \cap touched = {} /\ {listed[n], listed[m]} \cap touched = {}
            BY <2>3, <4>1, <4>3
          <5>2. m < n \/ n < m
            BY <2>2, <4>3
          <5> QED BY <2>1, <4>1, <4>2, <4>3, <5>1, <5>2 DEF ShownToCursor
        <4>4. places = {n}
          BY <4>1, <4>3
        <4> QED BY <3>2, <4>4, FS_Singleton DEF Times
      <3> QED BY <3>1, <3>2
    <2>4. \A i \in Id \ touched : Times(i) <= 1 /\ (Times(i) = 1 => i \in Fitting)
      BY <2>1, <2>3 DEF ShownToCursor
    <2>5. limit # None /\ cursor = None => \A i \in Fitting \ touched : Times(i) = 1
      BY <2>1, <2>3 DEF ShownToCursor, Reached, Fitting
    <2> QED BY <2>1, <2>4, <2>5 DEF ShownToCursor, UnchangedSeenOnce
  <1> QED BY <1>1, PagesInvariant, PTL
=============================================================================
