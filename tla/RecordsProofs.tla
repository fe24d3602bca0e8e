---------------------------- MODULE RecordsProofs ----------------------------
(* Theorems about RunLog and Schema for every value of their constants. *)
EXTENDS RunLog, Schema, NumberFacts

-----------------------------------------------------------------------------
(* The log of runs *)

\* A number more makes a sequence of numbers longer.
LEMMA OneMore ==
    ASSUME NEW s \in Seq(Int), NEW n \in Int PROVE Append(s, n) \in Seq(Int) /\ Append(s, n) # <<>>
  <1>1. \A S : \A t \in Seq(S), e \in S : Append(t, e) \in Seq(S) /\ Append(t, e) # <<>>
    BY AppendProperties
  <1> QED BY <1>1

\* What the n-th call of a chat is recorded as, after the calls before it.
CallOf(steps, calls, n) ==
    ToolCall(IF \E m \in 1..(n - 1) : calls[m].id = steps[n].id THEN Again(steps[n].id, n)
             ELSE steps[n].id, steps[n].tool, "envelope")

NamedTo(steps, k, calls) ==
    calls \in [1..k -> RunCall] /\ \A n \in 1..k : calls[n] = CallOf(steps, calls, n)

\* A call keeps the id it was given or gets its number behind it.
LEMMA CallOfFacts ==
    ASSUME NEW steps \in Seq(ChatStep), NEW calls, NEW n \in 1..Len(steps)
    PROVE  /\ CallOf(steps, calls, n) \in RunCall
           /\ CallOf(steps, calls, n).tool = steps[n].tool
           /\ CallOf(steps, calls, n).id[1] \in GivenNames
           /\ (\E m \in 1..(n - 1) : calls[m].id = steps[n].id) => CallOf(steps, calls, n).id[2] # <<>>
           /\ ~(\E m \in 1..(n - 1) : calls[m].id = steps[n].id) => CallOf(steps, calls, n).id = steps[n].id
  <1>3. n \in Int
    OBVIOUS
  <1>2. steps[n] \in ChatStep
    OBVIOUS
  <1>1. PICK id \in GivenNames \X Seq(Int) : id = steps[n].id
    BY <1>2 DEF ChatStep
  <1>10. steps[n].tool \in GivenTools
    BY <1>2 DEF ChatStep
  <1>4. Again(id, n) \in GivenNames \X Seq(Int) /\ Again(id, n)[2] # <<>>
    <2>1. PICK numbers \in Seq(Int) : numbers = id[2]
      BY ONLY <1>1
    <2>2. Append(numbers, n) \in Seq(Int) /\ Append(numbers, n) # <<>>
      BY <1>3, OneMore
    <2>3. id[1] \in GivenNames
      BY ONLY <1>1
    <2>5. PICK longer \in Seq(Int) : longer = Append(numbers, n)
      BY <2>2
    <2>4. Again(id, n) = <<id[1], longer>>
      BY <2>1, <2>5 DEF Again
    <2>6. longer # <<>>
      BY <2>2, <2>5
    <2>7. <<id[1], longer>> \in GivenNames \X Seq(Int)
      BY <2>3
    <2>8. <<id[1], longer>>[2] = longer
      OBVIOUS
    <2> QED BY <2>4, <2>6, <2>7, <2>8
  <1>5. PICK again \in BOOLEAN : again = (\E m \in 1..(n - 1) : calls[m].id = steps[n].id)
    OBVIOUS
  <1>6. PICK new \in GivenNames \X Seq(Int) : new = IF again THEN Again(id, n) ELSE id
    BY <1>4
  <1>7. CallOf(steps, calls, n) = ToolCall(new, steps[n].tool, "envelope")
    BY <1>1, <1>5, <1>6 DEF CallOf
  <1>8. CallOf(steps, calls, n).id = new /\ CallOf(steps, calls, n).tool = steps[n].tool
    BY <1>7 DEF ToolCall
  <1>9. CallOf(steps, calls, n) \in RunCall
    <2>1. CallOf(steps, calls, n) = [id |-> new, tool |-> steps[n].tool, result |-> "envelope"]
      BY <1>7 DEF ToolCall
    <2>2. new \in GivenNames \X Seq(Int)
      BY <1>6
    <2>3. PICK tool \in GivenTools : tool = steps[n].tool
      BY <1>10
    <2>4. [id |-> new, tool |-> tool, result |-> "envelope"] \in RunCall
      BY <2>2 DEF RunCall, CallName
    <2> QED BY <2>1, <2>3, <2>4
  <1> QED BY <1>1, <1>4, <1>5, <1>6, <1>8, <1>9

\* The calls of a chat are named one after another.
LEMMA CallsAreNamed ==
    ASSUME NEW steps \in Seq(ChatStep), NEW k \in 0..Len(steps)
    PROVE  \E calls : NamedTo(steps, k, calls)
  <1> DEFINE T == {n \in 0..Len(steps) : ~\E calls : NamedTo(steps, n, calls)}
  <1>1. SUFFICES ASSUME T # {} PROVE FALSE
    OBVIOUS
  <1>2. T \in SUBSET Nat
    OBVIOUS
  <1>3. PICK n \in T : \A q \in T : n <= q
    <2> HIDE DEF T
    <2> QED BY <1>1, <1>2, LeastNat
  <1>4. n \in 0..Len(steps) /\ ~\E calls : NamedTo(steps, n, calls)
    OBVIOUS
  <1>5. n # 0
    <2>1. ASSUME n = 0 PROVE NamedTo(steps, n, <<>>)
      BY <2>1 DEF NamedTo
    <2> QED BY <1>4, <2>1
  <1>6. PICK p \in 0..Len(steps) : p = n - 1 /\ n \in 1..Len(steps)
    BY <1>4, <1>5
  <1>7. p \notin T
    BY <1>3, <1>6
  <1>8. PICK before : NamedTo(steps, p, before)
    BY <1>6, <1>7
  <1> HIDE DEF T
  <1> DEFINE calls == [m \in 1..n |-> IF m = n THEN CallOf(steps, before, n) ELSE before[m]]
  <1>9. calls \in [1..n -> RunCall]
    <2>1. \A m \in 1..n : m # n => m \in 1..p
      BY <1>6
    <2>2. \A m \in 1..p : before[m] \in RunCall
      BY <1>8 DEF NamedTo
    <2>3. CallOf(steps, before, n) \in RunCall
      BY <1>6, CallOfFacts
    <2> QED BY <2>1, <2>2, <2>3
  <1>10. \A m \in 1..p : calls[m] = before[m]
    BY <1>6
  <1>11. ASSUME NEW m \in 1..n PROVE calls[m] = CallOf(steps, calls, m)
    <2>1. \A l \in 1..(m - 1) : calls[l] = before[l]
      BY <1>6, <1>10
    <2> HIDE DEF calls
    <2>2. CallOf(steps, calls, m) = CallOf(steps, before, m)
      BY <2>1 DEF CallOf
    <2>3. calls[m] = CallOf(steps, before, m)
      <3>1. CASE m = n
        BY <3>1 DEF calls
      <3>2. CASE m # n
        <4>1. m \in 1..p
          BY <1>6, <3>2
        <4> QED BY <1>8, <1>10, <4>1 DEF NamedTo
      <3> QED BY <3>1, <3>2
    <2> QED BY <2>2, <2>3
  <1> QED BY <1>4, <1>9, <1>11 DEF NamedTo

\* The calls of a chat are those of its steps, each named after the calls before it.
LEMMA ChatCallsFacts ==
    ASSUME NEW steps \in Seq(ChatStep)
    PROVE  NamedTo(steps, Len(steps), ChatCalls(steps))
  <1> DEFINE Next(calls) == [n \in DOMAIN steps |-> CallOf(steps, calls, n)]
  <1>1. ChatCalls(steps) = CHOOSE calls : calls = Next(calls)
    BY DEF ChatCalls, CallOf
  <1>2. DOMAIN steps = 1..Len(steps) /\ Len(steps) \in Nat
    OBVIOUS
  <1>3. PICK calls : NamedTo(steps, Len(steps), calls)
    <2>1. Len(steps) \in 0..Len(steps)
      BY <1>2
    <2> QED BY <2>1, CallsAreNamed
  <1>4. calls = Next(calls)
    BY <1>2, <1>3 DEF NamedTo
  <1>5. PICK all : all = ChatCalls(steps)
    OBVIOUS
  <1>6. all = Next(all)
    BY <1>1, <1>4, <1>5
  <1>7. \A n \in 1..Len(steps) : CallOf(steps, all, n) \in RunCall
    BY CallOfFacts
  <1>8. all \in [1..Len(steps) -> RunCall] /\ \A n \in 1..Len(steps) : all[n] = CallOf(steps, all, n)
    BY <1>2, <1>6, <1>7
  <1> QED BY <1>5, <1>8 DEF NamedTo

\* A numbered id is known by its number.
LEMMA NumberedFacts ==
    ASSUME NEW name \in CallName, NEW n \in Int
    PROVE  /\ Numbered(name, n) \in CallName \X Seq(Int)
           /\ \A m \in Int : Numbered(name, n) = Numbered(name, m) => n = m
  <1>1. <<n>> \in Seq(Int)
    OBVIOUS
  <1>2. Numbered(name, n) \in CallName \X Seq(Int)
    BY <1>1 DEF Numbered
  <1>3. ASSUME NEW m \in Int, Numbered(name, n) = Numbered(name, m) PROVE n = m
    <2>1. Numbered(name, n)[2] = <<n>> /\ Numbered(name, m)[2] = <<m>>
      BY DEF Numbered
    <2>2. <<n>> = <<m>>
      BY <1>3, <2>1
    <2> QED BY <2>2
  <1> QED BY <1>2, <1>3

\* The ids of a report are numbers of its steps: the fixed ones, what ran of the plan, and the plan
\* made again.
ReportIds(ids, f, c, g, more) ==
    /\ Len(ids) = f + c + more /\ ids \in Seq(CallName \X Seq(Int))
    /\ \A k \in 1..f : ids[k] = Numbered("call", k)
    /\ \A k \in 1..c : ids[f + k] = Numbered("call", f + g[k])
    /\ \A k \in 1..more : ids[f + c + k] = Numbered("call", f + c + k)

\* A plan is numbered on from its first number.
LEMMA PlanCallsFacts ==
    ASSUME NEW first \in Int, NEW count \in Nat
    PROVE  /\ PlanCalls(first, count) \in Seq(CallName \X Seq(Int)) /\ Len(PlanCalls(first, count)) = count
           /\ \A n \in 1..count : PlanCalls(first, count)[n] = Numbered("call", first + n - 1)
  <1>1. \A n \in 1..count : Numbered("call", first + n - 1) \in CallName \X Seq(Int)
    <2>1. "call" \in CallName /\ \A n \in 1..count : first + n - 1 \in Int
      BY DEF CallName
    <2> QED BY <2>1, NumberedFacts
  <1>2. PICK S : S = CallName \X Seq(Int)
    OBVIOUS
  <1>3. PlanCalls(first, count) \in [1..count -> S] /\ \A n \in 1..count : PlanCalls(first, count)[n] = Numbered("call", first + n - 1)
    BY <1>1, <1>2 DEF PlanCalls
  <1>4. \A s \in [1..count -> S] : s \in Seq(S) /\ Len(s) = count
    OBVIOUS
  <1> QED BY <1>2, <1>3, <1>4

\* Three sequences one behind another.
Joined(S, a, b, c, s) == a \in Seq(S) /\ b \in Seq(S) /\ c \in Seq(S) /\ s = a \o b \o c
LEMMA ThreeInRow ==
    ASSUME NEW S, NEW a, NEW b, NEW c, NEW s, Joined(S, a, b, c, s)
    PROVE  /\ s \in Seq(S) /\ Len(s) = Len(a) + Len(b) + Len(c)
           /\ \A k \in 1..Len(a) : s[k] = a[k]
           /\ \A k \in 1..Len(b) : s[Len(a) + k] = b[k]
           /\ \A k \in 1..Len(c) : s[Len(a) + Len(b) + k] = c[k]
  <1> USE DEF Joined
  <1>1. PICK t \in Seq(S) : t = a \o b
    <2>1. a \o b \in Seq(S)
      BY ConcatProperties
    <2> QED BY <2>1
  <1>2. /\ Len(t) = Len(a) + Len(b) /\ \A k \in 1..Len(a) : t[k] = a[k]
        /\ \A k \in 1..Len(b) : t[Len(a) + k] = b[k]
    BY <1>1
  <1>3. /\ s \in Seq(S) /\ Len(s) = Len(t) + Len(c) /\ \A k \in 1..Len(t) : s[k] = t[k]
        /\ \A k \in 1..Len(c) : s[Len(t) + k] = c[k]
    BY <1>1
  <1>4. /\ \A k \in 1..Len(a) : k \in 1..Len(t)
        /\ \A k \in 1..Len(b) : Len(a) + k \in 1..Len(t)
    BY <1>2
  <1> QED BY <1>2, <1>3, <1>4

\* What runs of a plan is numbered as it was planned; a plan made again is numbered on from there.
LEMMA InsightIdsFacts ==
    ASSUME NEW first \in PlanSizes, NEW more \in PlanSizes, NEW dropped \in SUBSET (1..first),
           NEW ids, ids = InsightIds(FixedCalls, first, dropped, more)
    PROVE  \E c \in 0..first : \E g \in [1..c -> 1..first] :
              /\ ReportIds(ids, FixedCalls, c, g, more)
              /\ \A k, l \in 1..c : k < l => g[k] < g[l]
              /\ dropped = {} => c = first
  <1> DEFINE f == FixedCalls
             plan == PlanCalls(f + 1, first)
             places == (1..first) \ dropped
             c == Cardinality(places)
             S == CallName \X Seq(Int)
  <1>1. f \in Nat /\ first \in Nat /\ more \in Nat
    BY RunsAssumption
  <1>2. /\ plan \in Seq(S) /\ Len(plan) = first
        /\ \A n \in 1..first : plan[n] = Numbered("call", f + n)
    <2>1. \A n \in 1..first : (f + 1) + n - 1 = f + n
      BY <1>1
    <2>2. PICK a \in Int : a = f + 1
      BY <1>1
    <2>3. /\ PlanCalls(a, first) \in Seq(CallName \X Seq(Int)) /\ Len(PlanCalls(a, first)) = first
          /\ \A n \in 1..first : PlanCalls(a, first)[n] = Numbered("call", a + n - 1)
      BY <1>1, PlanCallsFacts
    <2> QED BY <2>1, <2>2, <2>3
  <1>3. PICK ran : ran = Those(plan, places)
    OBVIOUS
  <1> HIDE DEF plan
  <1>4. PickedFrom(first, plan, places, c, ran)
    BY <1>1, <1>3 DEF PickedFrom
  <1>5. c \in 0..first /\ Len(ran) = c /\ ((\A i \in places : plan[i] \in S) => ran \in Seq(S))
    BY <1>4, ThoseFacts
  <1>6. PICK g : LowestFirst(g, c, places, plan, ran)
    BY <1>4, ThoseFacts
  <1>7. ran \in Seq(S)
    <2>1. \A i \in places : plan[i] \in S
      BY <1>2
    <2> QED BY <1>5, <2>1
  <1>8. dropped = {} => c = first
    <2>1. ASSUME dropped = {} PROVE places = 1..first
      BY <2>1
    <2> QED BY <1>1, <2>1, FS_Interval
  <1> HIDE DEF places, S
  <1>9. g \in [1..c -> 1..first] /\ \A k, l \in 1..c : k < l => g[k] < g[l]
    BY <1>6 DEF LowestFirst, places
  <1>10. \A k \in 1..c : ran[k] = Numbered("call", f + g[k])
    <2>1. \A k \in 1..c : ran[k] = plan[g[k]] /\ g[k] \in 1..first
      BY <1>6, <1>9 DEF LowestFirst
    <2> QED BY <1>2, <2>1
  <1> HIDE DEF c
  <1>11. PICK fixed, again : fixed = PlanCalls(1, f) /\ again = PlanCalls(f + c + 1, more)
    OBVIOUS
  <1>12. /\ fixed \in Seq(S) /\ Len(fixed) = f /\ \A k \in 1..f : fixed[k] = Numbered("call", k)
    <2>1. \A n \in 1..f : 1 + n - 1 = n
      BY <1>1
    <2>2. PICK a \in Int : a = 1
      OBVIOUS
    <2>3. /\ PlanCalls(a, f) \in Seq(CallName \X Seq(Int)) /\ Len(PlanCalls(a, f)) = f
          /\ \A n \in 1..f : PlanCalls(a, f)[n] = Numbered("call", a + n - 1)
      BY <1>1, PlanCallsFacts
    <2> QED BY <1>11, <2>1, <2>2, <2>3 DEF S
  <1>13. /\ again \in Seq(S) /\ Len(again) = more
         /\ \A k \in 1..more : again[k] = Numbered("call", f + c + k)
    <2>1. f + c + 1 \in Int /\ \A n \in 1..more : (f + c + 1) + n - 1 = f + c + n
      BY <1>1, <1>5
    <2> QED BY <1>1, <1>11, <2>1, PlanCallsFacts DEF S
  <1>14. ids = fixed \o ran \o again
    BY <1>3, <1>5, <1>11 DEF InsightIds, plan, places
  <1>15. /\ ids \in Seq(S) /\ Len(ids) = f + c + more
         /\ \A k \in 1..f : ids[k] = fixed[k]
         /\ \A k \in 1..c : ids[f + k] = ran[k]
         /\ \A k \in 1..more : ids[f + c + k] = again[k]
    <2>1. ran \in Seq(S) /\ Len(ran) = c
      BY <1>5, <1>7
    <2>2. fixed \in Seq(S) /\ Len(fixed) = f
      BY <1>12
    <2>3. again \in Seq(S) /\ Len(again) = more
      BY <1>13
    <2>4. /\ ids \in Seq(S) /\ Len(ids) = Len(fixed) + Len(ran) + Len(again)
          /\ \A k \in 1..Len(fixed) : ids[k] = fixed[k]
          /\ \A k \in 1..Len(ran) : ids[Len(fixed) + k] = ran[k]
          /\ \A k \in 1..Len(again) : ids[Len(fixed) + Len(ran) + k] = again[k]
      <3>1. Joined(S, fixed, ran, again, ids)
        BY <1>14, <2>1, <2>2, <2>3 DEF Joined
      <3> QED BY <3>1, ThreeInRow
    <2> QED BY <2>1, <2>2, <2>3, <2>4
  <1>16. ReportIds(ids, f, c, g, more)
    BY <1>10, <1>12, <1>13, <1>15 DEF ReportIds, S
  <1> QED BY <1>5, <1>8, <1>9, <1>16

\* Where nothing was dropped, or no plan made again, no two steps of a report have one id.
LEMMA ReportIdsDiffer ==
    ASSUME NEW f \in Nat, NEW first \in Nat, NEW more \in Nat, NEW c \in 0..first, NEW g \in [1..c -> 1..first],
           NEW ids, ReportIds(ids, f, c, g, more), \A k, l \in 1..c : k < l => g[k] < g[l],
           more = 0 \/ c = first, NEW m \in 1..Len(ids), NEW n \in 1..Len(ids), m < n
    PROVE  ids[m] # ids[n]
  <1> DEFINE number(k) == IF k <= f THEN k ELSE IF k <= f + c THEN f + g[k - f] ELSE k
  <1>1. Len(ids) = f + c + more
    BY DEF ReportIds
  <1>2. ASSUME NEW k \in 1..Len(ids) PROVE ids[k] = Numbered("call", number(k)) /\ number(k) \in Int
    <2>1. CASE k <= f
      BY <1>1, <2>1 DEF ReportIds
    <2>2. CASE f < k /\ k <= f + c
      <3>1. PICK l \in 1..c : k = f + l /\ l = k - f
        BY <2>2
      <3>2. ids[k] = Numbered("call", f + g[l]) /\ g[l] \in 1..first
        BY <3>1 DEF ReportIds
      <3>3. number(k) = f + g[l]
        BY <2>2, <3>1
      <3>4. f + g[l] \in Int
        BY <3>2
      <3> HIDE DEF number
      <3> QED BY <3>1, <3>2, <3>3, <3>4
    <2>3. CASE f + c < k
      <3>1. PICK l \in 1..more : k = f + c + l
        <4>1. k - (f + c) \in 1..more /\ k = f + c + (k - (f + c))
          BY <1>1, <2>3
        <4> QED BY <4>1
      <3>2. ids[k] = Numbered("call", k)
        BY <3>1 DEF ReportIds
      <3>3. number(k) = k
        BY <2>3
      <3>4. k \in Int
        OBVIOUS
      <3> HIDE DEF number
      <3> QED BY <3>2, <3>3, <3>4
    <2> QED BY <2>1, <2>2, <2>3
  <1>3. number(m) < number(n)
    <2>1. \A k \in 1..c : g[k] \in 1..first
      OBVIOUS
    <2>2. CASE f < m /\ m <= f + c /\ f < n /\ n <= f + c
      <3>1. PICK k \in 1..c, l \in 1..c : k = m - f /\ l = n - f /\ k < l
        BY <2>2
      <3>2. g[k] < g[l] /\ number(m) = f + g[k] /\ number(n) = f + g[l]
        BY <2>2, <3>1
      <3> QED BY <2>1, <3>1, <3>2
    <2>3. CASE m <= f /\ f < n /\ n <= f + c
      <3>1. PICK l \in 1..c : l = n - f
        BY <2>3
      <3>2. number(m) = m /\ number(n) = f + g[l] /\ g[l] \in 1..first
        BY <2>1, <2>3, <3>1
      <3> QED BY <2>3, <3>2
    <2>4. CASE f < m /\ m <= f + c /\ f + c < n
      <3>1. PICK k \in 1..c : k = m - f
        BY <2>4
      <3>2. number(m) = f + g[k] /\ number(n) = n /\ g[k] \in 1..first
        BY <2>1, <2>4, <3>1
      <3>3. c = first
        BY <1>1, <2>4
      <3> QED BY <2>4, <3>2, <3>3
    <2>5. CASE m <= f /\ (n <= f \/ f + c < n)
      BY <2>5
    <2>6. CASE f + c < m
      BY <2>6
    <2> QED BY <2>2, <2>3, <2>4, <2>5, <2>6
  <1> HIDE DEF number
  <1>4. "call" \in CallName
    BY DEF CallName
  <1>5. PICK a \in Int, b \in Int : a = number(m) /\ b = number(n) /\ a < b
    BY <1>2, <1>3
  <1>6. ids[m] = Numbered("call", a) /\ ids[n] = Numbered("call", b)
    BY <1>2, <1>5
  <1>7. Numbered("call", a) # Numbered("call", b)
    BY <1>4, <1>5, NumberedFacts
  <1> QED BY <1>6, <1>7

\* All of them are named for the plan.
LEMMA ReportIdsName ==
    ASSUME NEW ids, NEW f \in Nat, NEW c \in Nat, NEW g, NEW more \in Nat, ReportIds(ids, f, c, g, more),
           NEW n \in 1..Len(ids)
    PROVE  ids[n][1] = "call"
  <1>1. ASSUME NEW m PROVE Numbered("call", m)[1] = "call"
    BY DEF Numbered
  <1>2. CASE n <= f
    BY <1>1, <1>2 DEF ReportIds
  <1>3. CASE f < n /\ n <= f + c
    <2>1. PICK k \in 1..c : n = f + k
      BY <1>3
    <2> QED BY <1>1, <2>1 DEF ReportIds
  <1>4. CASE f + c < n
    <2>1. PICK k \in 1..more : n = f + c + k
      BY <1>4 DEF ReportIds
    <2> QED BY <1>1, <2>1 DEF ReportIds
  <1> QED BY <1>2, <1>3, <1>4

\* A call that a seat of the program makes is a call the api knows.
LEMMA CallIsKnown ==
    ASSUME NEW name \in CallName, NEW n \in Int, NEW tool \in FitTools,
           NEW result \in {"choice", "envelope", "chunks", "why", None}
    PROVE  /\ ToolCall(Numbered(name, n), tool, result) \in RunCall
           /\ ToolCall(Numbered(name, n), tool, result).tool = tool
           /\ ToolCall(Numbered(name, n), tool, result).id = Numbered(name, n)
           /\ ToolCall(Numbered(name, n), tool, result).id[1] = name
  <1>0. Numbered(name, n)[1] = name
    BY DEF Numbered
  <1>1. PICK id \in CallName \X Seq(Int) : id = Numbered(name, n)
    BY NumberedFacts
  <1>2. ToolCall(id, tool, result) \in RunCall
    BY DEF ToolCall, RunCall
  <1> QED BY <1>0, <1>1, <1>2 DEF ToolCall

\* What a seat records is a record.
LEMMA RecordedFacts ==
    ASSUME NEW seat \in RunSeat, NEW status \in RunStatus, NEW stop \in RunStop, NEW calls \in Seq(RunCall),
           NEW run, run = Recorded(seat, status, stop, calls)
    PROVE  /\ run \in RunRecord /\ run.seat = seat /\ run.status = status /\ run.stop = stop
           /\ run.calls = calls
  <1>1. PICK flow \in {"react", "plan_execute", "direct", "single"} : flow = Flow(seat)
    BY DEF Flow
  <1>2. run = [seat |-> seat, flow |-> flow, status |-> status, stop |-> stop, calls |-> calls, client |-> None]
    BY <1>1 DEF Recorded
  <1> QED BY <1>2 DEF RunRecord

\* The api takes a record whose calls fit and differ.
TakenCalls(calls) ==
    /\ calls \in Seq(RunCall) /\ Len(calls) <= MaxCalls
    /\ \A n \in 1..Len(calls) : calls[n].tool \in FitTools /\ calls[n].id[1] # None
    /\ \A m, n \in 1..Len(calls) : m < n => calls[m].id # calls[n].id

LEMMA CallsAreTaken ==
    ASSUME NEW run, run.status # "aborted", TakenCalls(run.calls)
    PROVE  Accepted(run)
  <1>1. PICK calls \in Seq(RunCall) : calls = run.calls
    BY DEF TakenCalls
  <1>2. DOMAIN calls = 1..Len(calls) /\ Len(calls) <= MaxCalls
    BY <1>1 DEF TakenCalls
  <1>3. ASSUME NEW n \in DOMAIN calls PROVE CallFits(calls[n])
    <2>1. calls[n].tool \in FitTools /\ calls[n].id[1] # None
      BY <1>1, <1>2 DEF TakenCalls
    <2> QED BY <2>1 DEF CallFits
  <1>4. UniqueCalls(calls)
    <2>1. SUFFICES ASSUME NEW m \in DOMAIN calls, NEW n \in DOMAIN calls, calls[m].id = calls[n].id
                   PROVE  m = n
      BY DEF UniqueCalls, IsInjective
    <2>2. ~(m < n) /\ ~(n < m)
      BY <1>1, <1>2, <2>1 DEF TakenCalls
    <2> QED BY <1>2, <2>2
  <1> QED BY <1>1, <1>2, <1>3, <1>4 DEF Accepted

\* A run that ended is recorded so that the api takes it, or may refuse it; a proposal ends with
\* its write.
WellMade(run, again) ==
    /\ run \in RunRecord
    /\ \/ Accepted(run)
       \/ run.seat = "chat" /\ (MisfitCall(run) \/ TooMany(run) \/ NumberedTwice(run))
       \/ run.seat = "insight" /\ again
    /\ run.status = "awaiting" => EndsWithWrite(run.calls) /\ Last(run.calls).result = None
    /\ run.stop \in RecordedStop

\* One call, or none.
LEMMA OneOrNone ==
    ASSUME NEW S, NEW call \in S, NEW calls \in {<<>>, <<call>>}
    PROVE  calls \in Seq(S) /\ Len(calls) \in {0, 1} /\ \A n \in 1..Len(calls) : calls[n] = call
  <1>1. ASSUME calls = <<>> PROVE calls \in Seq(S) /\ Len(calls) = 0
    BY <1>1
  <1>2. ASSUME calls = <<call>> PROVE calls \in Seq(S) /\ Len(calls) = 1 /\ calls[1] = call
    BY <1>2
  <1> QED BY <1>1, <1>2

\* Without a call, and with one, there is nothing to refuse.
LEMMA ShortRuns ==
    ASSUME NEW seat \in RunSeat, NEW status \in RunStatus \ {"awaiting", "aborted"}, NEW stop \in RecordedStop,
           NEW call \in RunCall, call.tool \in FitTools, call.id[1] # None, NEW again
    PROVE  /\ WellMade(Recorded(seat, status, stop, <<>>), again)
           /\ WellMade(Recorded(seat, status, stop, <<call>>), again)
  <1>1. ASSUME NEW calls \in {<<>>, <<call>>} PROVE WellMade(Recorded(seat, status, stop, calls), again)
    <2>1. calls \in Seq(RunCall) /\ Len(calls) \in {0, 1} /\ \A n \in 1..Len(calls) : calls[n] = call
      <3>1. CASE calls = <<>>
        BY <3>1
      <3>2. CASE calls = <<call>>
        BY <3>2
      <3> QED BY <1>1, <3>1, <3>2
    <2>2. PICK run : run = Recorded(seat, status, stop, calls)
      OBVIOUS
    <2>0. stop \in RunStop
      BY DEF RunStop
    <2>3. run \in RunRecord /\ run.status = status /\ run.stop = stop /\ run.calls = calls
      BY <2>0, <2>1, <2>2, RecordedFacts
    <2>4. TakenCalls(calls)
      BY <2>1, RunsAssumption DEF TakenCalls
    <2>5. Accepted(run)
      BY <2>3, <2>4, CallsAreTaken
    <2> QED BY <2>2, <2>3, <2>5 DEF WellMade
  <1> QED BY <1>1

\* A proposal has one call or two, and its write is the last.
LEMMA ProposalIsWellMade ==
    ASSUME NEW chosen \in BOOLEAN, NEW again PROVE WellMade(ProposalRun(chosen), again)
  <1>1. "c" \in CallName /\ "c" # None /\ {"suggest_category", "create_transaction"} \subseteq FitTools
    BY RunsAssumption DEF CallName
  <1>2. PICK suggest \in RunCall :
           suggest = SuggestCall /\ suggest.tool \in FitTools /\ suggest.id = Numbered("c", 1) /\ suggest.id[1] = "c"
    <2>1. PICK n \in Int : n = 1
      OBVIOUS
    <2>2. PICK s : s = ToolCall(Numbered("c", n), "suggest_category", "choice")
      OBVIOUS
    <2>3. s \in RunCall /\ s.tool = "suggest_category" /\ s.id = Numbered("c", n) /\ s.id[1] = "c"
      BY <1>1, <2>2, CallIsKnown
    <2> QED BY <1>1, <2>1, <2>2, <2>3 DEF SuggestCall
  <1>3. PICK before \in Seq(RunCall) : /\ before = IF chosen THEN <<suggest>> ELSE <<>>
                                       /\ Len(before) \in {0, 1}
                                       /\ \A n \in 1..Len(before) : before[n] = suggest
    <2>1. PICK b \in {<<>>, <<suggest>>} : b = IF chosen THEN <<suggest>> ELSE <<>>
      OBVIOUS
    <2> QED BY <2>1, OneOrNone
  <1>4. Len(before) \in {0, 1} /\ \A n \in 1..Len(before) : before[n] = suggest
    BY <1>3
  <1>5. PICK m \in {1, 2} : m = Len(before) + 1
    BY <1>4
  <1>6. PICK write \in RunCall : /\ write = ToolCall(Numbered("c", m), "create_transaction", None)
                                 /\ write.tool = "create_transaction" /\ write.id = Numbered("c", m)
                                 /\ write.id[1] = "c"
    <2>1. m \in Int
      OBVIOUS
    <2>2. PICK w : w = ToolCall(Numbered("c", m), "create_transaction", None)
      OBVIOUS
    <2>3. w \in RunCall /\ w.tool = "create_transaction" /\ w.id = Numbered("c", m) /\ w.id[1] = "c"
      BY <1>1, <2>1, <2>2, CallIsKnown
    <2> QED BY <2>2, <2>3
  <1>7. PICK calls : calls = Append(before, write)
    OBVIOUS
  <1>8. /\ calls \in Seq(RunCall) /\ Len(calls) = m /\ calls[m] = write
        /\ \A n \in 1..(m - 1) : calls[n] = suggest
    BY <1>4, <1>5, <1>7
  <1>9. PICK run : run = ProposalRun(chosen)
    OBVIOUS
  <1>10. run = Recorded("capture", "awaiting", "proposed", calls)
    BY <1>2, <1>3, <1>5, <1>6, <1>7, <1>9 DEF ProposalRun
  <1>11. run \in RunRecord /\ run.status = "awaiting" /\ run.stop \in RecordedStop /\ run.calls = calls
    <2>1. /\ "capture" \in RunSeat /\ "awaiting" \in RunStatus
          /\ "proposed" \in RecordedStop /\ "proposed" \in RunStop
      BY DEF RunSeat, RunStatus, RunStop, RecordedStop
    <2> QED BY <1>8, <1>10, <2>1, RecordedFacts
  <1>12. TakenCalls(calls)
    <2>1. \A n \in 1..Len(calls) : calls[n].tool \in FitTools /\ calls[n].id[1] # None
      BY <1>1, <1>2, <1>6, <1>8
    <2>2. ASSUME NEW k \in 1..Len(calls), NEW n \in 1..Len(calls), k < n PROVE calls[k].id # calls[n].id
      <3>1. k = 1 /\ n = 2 /\ m = 2
        BY <1>8, <2>2
      <3>2. calls[k].id = Numbered("c", 1) /\ calls[n].id = Numbered("c", 2)
        BY <1>2, <1>6, <1>8, <3>1
      <3>3. PICK a \in Int, b \in Int : a = 1 /\ b = 2
        OBVIOUS
      <3>4. Numbered("c", a) # Numbered("c", b)
        BY <1>1, <3>3, NumberedFacts
      <3> QED BY <3>2, <3>3, <3>4
    <2> QED BY <1>8, <2>1, <2>2, RunsAssumption DEF TakenCalls
  <1>13. Accepted(run)
    BY <1>11, <1>12, CallsAreTaken
  <1>14. EndsWithWrite(calls) /\ Last(calls).result = None
    <2>1. write.result = None
      BY <1>6 DEF ToolCall
    <2> QED BY <1>6, <1>8, <2>1 DEF EndsWithWrite, Last
  <1> QED BY <1>9, <1>11, <1>13, <1>14 DEF WellMade

\* The api takes the record of a chat, or a call of it does not fit, or it has too many, or a
\* numbered id meets another.
LEMMA ChatIsWellMade ==
    ASSUME NEW steps \in Chats, NEW again PROVE WellMade(ChatRun(steps), again)
  <1>1. steps \in Seq(ChatStep) /\ Len(steps) \in Nat
    BY RunsAssumption
  <1>2. PICK calls : calls = ChatCalls(steps)
    OBVIOUS
  <1>3. calls \in [1..Len(steps) -> RunCall] /\ \A n \in 1..Len(steps) : calls[n] = CallOf(steps, calls, n)
    BY <1>1, <1>2, ChatCallsFacts DEF NamedTo
  <1>4. calls \in Seq(RunCall) /\ Len(calls) = Len(steps) /\ DOMAIN calls = 1..Len(steps)
    BY <1>1, <1>3
  <1>5. PICK run : run = ChatRun(steps)
    OBVIOUS
  <1>6. /\ run \in RunRecord /\ run.seat = "chat" /\ run.status = "done"
        /\ run.stop \in RecordedStop /\ run.calls = calls
    <2>1. /\ "chat" \in RunSeat /\ "done" \in RunStatus
          /\ "answered" \in RecordedStop /\ "answered" \in RunStop
      BY DEF RunSeat, RunStatus, RunStop, RecordedStop
    <2> QED BY <1>2, <1>4, <1>5, <2>1, RecordedFacts DEF ChatRun
  <1>7. ASSUME ~MisfitCall(run), ~TooMany(run), ~NumberedTwice(run) PROVE Accepted(run)
    <2>1. \A n \in 1..Len(calls) : calls[n].tool \in FitTools /\ calls[n].id[1] # None
      BY <1>4, <1>6, <1>7 DEF MisfitCall, CallFits
    <2>4. Len(calls) <= MaxCalls
      BY <1>4, <1>6, <1>7, RunsAssumption DEF TooMany
    <2>2. ASSUME NEW m \in 1..Len(calls), NEW n \in 1..Len(calls), m < n, calls[m].id = calls[n].id
          PROVE  FALSE
      <3>1. calls[n].id[2] = <<>>
        BY <1>4, <1>6, <1>7, <2>2 DEF NumberedTwice
      <3>2. calls[n] = CallOf(steps, calls, n) /\ n \in 1..Len(steps) /\ m \in 1..(n - 1)
        BY <1>3, <1>4, <2>2
      <3>3. ~(\E k \in 1..(n - 1) : calls[k].id = steps[n].id)
        BY <1>1, <3>1, <3>2, CallOfFacts
      <3>4. calls[n].id = steps[n].id
        BY <1>1, <3>2, <3>3, CallOfFacts
      <3> QED BY <2>2, <3>2, <3>3, <3>4
    <2>3. TakenCalls(calls)
      BY <1>4, <2>1, <2>2, <2>4 DEF TakenCalls
    <2> QED BY <1>6, <2>3, CallsAreTaken
  <1> QED BY <1>5, <1>6, <1>7 DEF WellMade

\* The api takes the record of a report, or a step of it was dropped and a plan made again.
LEMMA InsightIsWellMade ==
    ASSUME NEW first \in PlanSizes, NEW more \in PlanSizes, NEW dropped \in SUBSET (1..first)
    PROVE  WellMade(InsightRun(InsightIds(FixedCalls, first, dropped, more)), more > 0 /\ dropped # {})
  <1>0. first \in Nat /\ more \in Nat /\ FixedCalls \in Nat /\ FixedCalls + first + more <= MaxCalls
    BY RunsAssumption
  <1>1. PICK ids : ids = InsightIds(FixedCalls, first, dropped, more)
    OBVIOUS
  <1>2. PICK c \in 0..first : \E g \in [1..c -> 1..first] :
              /\ ReportIds(ids, FixedCalls, c, g, more)
              /\ \A k, l \in 1..c : k < l => g[k] < g[l]
              /\ dropped = {} => c = first
    BY <1>1, InsightIdsFacts
  <1>3. PICK g \in [1..c -> 1..first] :
              /\ ReportIds(ids, FixedCalls, c, g, more)
              /\ \A k, l \in 1..c : k < l => g[k] < g[l]
              /\ dropped = {} => c = first
    BY <1>2
  <1>4. ids \in Seq(CallName \X Seq(Int)) /\ Len(ids) = FixedCalls + c + more /\ DOMAIN ids = 1..Len(ids)
    BY <1>3 DEF ReportIds
  <1>5. Len(ids) \in Nat /\ Len(ids) <= MaxCalls
    BY <1>0, <1>4, RunsAssumption
  <1> DEFINE told(n) == IF n > FixedCalls THEN "why" ELSE "envelope"
  <1>6. PICK calls : calls = [n \in DOMAIN ids |-> ToolCall(ids[n], "sum", told(n))]
    OBVIOUS
  <1>7. ASSUME NEW n \in 1..Len(ids)
        PROVE  calls[n] \in RunCall /\ calls[n].id = ids[n] /\ calls[n].tool = "sum" /\ calls[n].id[1] # None
    <2>1. PICK id \in CallName \X Seq(Int), t \in {"why", "envelope"} : id = ids[n] /\ t = told(n)
      BY <1>4
    <2>2. calls[n] = [id |-> id, tool |-> "sum", result |-> t]
      BY <1>4, <1>6, <2>1 DEF ToolCall
    <2>3. "sum" \in FitTools /\ "call" # None
      BY RunsAssumption
    <2>4. id[1] = "call"
      BY <1>0, <1>3, <2>1, ReportIdsName
    <2> QED BY <2>1, <2>2, <2>3, <2>4 DEF RunCall
  <1>8. calls \in Seq(RunCall) /\ Len(calls) = Len(ids)
    <2>1. calls \in [1..Len(ids) -> RunCall]
      BY <1>4, <1>6, <1>7
    <2> QED BY <1>5, <2>1
  <1>9. PICK run : run = InsightRun(ids)
    OBVIOUS
  <1>10. /\ run \in RunRecord /\ run.seat = "insight" /\ run.status = "done"
         /\ run.stop \in RecordedStop /\ run.calls = calls
    <2>1. /\ "insight" \in RunSeat /\ "done" \in RunStatus
          /\ "assembled" \in RecordedStop /\ "assembled" \in RunStop
      BY DEF RunSeat, RunStatus, RunStop, RecordedStop
    <2>2. run = Recorded("insight", "done", "assembled", calls)
      BY <1>6, <1>9 DEF InsightRun
    <2> QED BY <1>8, <2>1, <2>2, RecordedFacts
  <1>11. ASSUME ~(more > 0 /\ dropped # {}) PROVE Accepted(run)
    <2>1. more = 0 \/ c = first
      BY <1>0, <1>3, <1>11
    <2>2. \A m, n \in 1..Len(ids) : m < n => ids[m] # ids[n]
      BY <1>0, <1>3, <2>1, ReportIdsDiffer
    <2>3. \A n \in 1..Len(calls) : calls[n].tool \in FitTools /\ calls[n].id[1] # None
      BY <1>7, <1>8, RunsAssumption
    <2>4. \A m, n \in 1..Len(calls) : m < n => calls[m].id # calls[n].id
      BY <1>7, <1>8, <2>2
    <2>5. TakenCalls(calls)
      BY <1>5, <1>8, <2>3, <2>4 DEF TakenCalls
    <2> QED BY <1>10, <2>5, CallsAreTaken
  <1> QED BY <1>1, <1>9, <1>10, <1>11 DEF WellMade

\* Every seat ends with a run that is well made.
EndsWell(r) == \E run, again : WellMade(run, again) /\ again \in BOOLEAN /\ EndRun(r, run, again)

LEMMA SeatsEndWell ==
    ASSUME NEW r \in RunId,
           \/ EndCapture(r) \/ EndProposal(r) \/ EndClassify(r) \/ EndChat(r)
           \/ EndAsk(r) \/ EndInsight(r) \/ EndCall(r)
    PROVE  EndsWell(r)
  <1>1. PICK one \in Int : one = 1
    OBVIOUS
  <1>2. /\ {"c", "run"} \subseteq CallName /\ "c" # None /\ "run" # None
        /\ {"sum", "suggest_category", "search_documents"} \subseteq FitTools
    BY RunsAssumption DEF CallName
  <1>3. PICK suggest \in RunCall : suggest = SuggestCall /\ suggest.tool \in FitTools /\ suggest.id[1] # None
    <2>1. PICK s : s = ToolCall(Numbered("c", one), "suggest_category", "choice")
      OBVIOUS
    <2>2. s \in RunCall /\ s.tool = "suggest_category" /\ s.id[1] = "c"
      BY <1>2, <2>1, CallIsKnown
    <2> QED BY <1>1, <1>2, <2>1, <2>2 DEF SuggestCall
  <1>4. PICK search \in RunCall :
           /\ search = ToolCall(Numbered("c", one), "search_documents", "chunks")
           /\ search.tool \in FitTools /\ search.id[1] # None
    <2>1. PICK s : s = ToolCall(Numbered("c", one), "search_documents", "chunks")
      OBVIOUS
    <2>2. s \in RunCall /\ s.tool = "search_documents" /\ s.id[1] = "c"
      BY <1>2, <2>1, CallIsKnown
    <2> QED BY <1>2, <2>1, <2>2
  <1>5. /\ {"capture", "classify", "chat", "ask", "insight", "mcp"} \subseteq RunSeat
        /\ {"done", "failed"} \subseteq RunStatus \ {"awaiting", "aborted"}
        /\ {"refused", "read", "rule", "none", "answered", "model_unavailable", "ledger_unavailable",
            "internal_error"} \subseteq RecordedStop
        /\ RecordedStop \subseteq RunStop
    BY DEF RunSeat, RunStatus, RunStop, RecordedStop
  <1>6. ASSUME NEW seat \in RunSeat PROVE WellMade(FailedRun(seat), FALSE)
    <2>1. PICK stop \in RecordedStop : stop = IF seat = "classify" THEN "ledger_unavailable" ELSE "model_unavailable"
      BY <1>5
    <2>2. FailedRun(seat) = Recorded(seat, "failed", stop, <<>>)
      BY <2>1 DEF FailedRun
    <2> QED BY <1>3, <1>5, <2>2, ShortRuns
  <1>7. ASSUME EndCapture(r) PROVE EndsWell(r)
    <2>1. PICK run : run \in CaptureRuns \cup {FailedRun("capture")} /\ EndRun(r, run, FALSE)
      BY <1>7 DEF EndCapture
    <2>2. /\ WellMade(Recorded("capture", "done", "refused", <<>>), FALSE)
          /\ WellMade(Recorded("capture", "done", "read", <<suggest>>), FALSE)
      BY <1>3, <1>5, ShortRuns
    <2>3. WellMade(FailedRun("capture"), FALSE)
      BY <1>5, <1>6
    <2>4. WellMade(run, FALSE)
      BY <1>3, <2>1, <2>2, <2>3 DEF CaptureRuns
    <2> QED BY <2>1, <2>4 DEF EndsWell
  <1>8. ASSUME EndProposal(r) PROVE EndsWell(r)
    <2>1. PICK chosen \in BOOLEAN : EndRun(r, ProposalRun(chosen), FALSE)
      BY <1>8 DEF EndProposal
    <2>2. WellMade(ProposalRun(chosen), FALSE)
      BY ProposalIsWellMade
    <2> QED BY <2>1, <2>2 DEF EndsWell
  <1>9. ASSUME EndClassify(r) PROVE EndsWell(r)
    <2>1. PICK run : run \in ClassifyRuns \cup {FailedRun("classify")} /\ EndRun(r, run, FALSE)
      BY <1>9 DEF EndClassify
    <2>2. /\ WellMade(Recorded("classify", "done", "rule", <<suggest>>), FALSE)
          /\ WellMade(Recorded("classify", "done", "none", <<>>), FALSE)
      BY <1>3, <1>5, ShortRuns
    <2>3. WellMade(FailedRun("classify"), FALSE)
      BY <1>5, <1>6
    <2>4. WellMade(run, FALSE)
      BY <1>3, <2>1, <2>2, <2>3 DEF ClassifyRuns
    <2> QED BY <2>1, <2>4 DEF EndsWell
  <1>10. ASSUME EndChat(r) PROVE EndsWell(r)
    <2>1. CASE \E steps \in Chats : EndRun(r, ChatRun(steps), FALSE)
      <3>1. PICK steps \in Chats : EndRun(r, ChatRun(steps), FALSE)
        BY <2>1
      <3>2. WellMade(ChatRun(steps), FALSE)
        BY ChatIsWellMade
      <3> QED BY <3>1, <3>2 DEF EndsWell
    <2>2. CASE EndRun(r, FailedRun("chat"), FALSE)
      <3>1. WellMade(FailedRun("chat"), FALSE)
        BY <1>5, <1>6
      <3> QED BY <2>2, <3>1 DEF EndsWell
    <2> QED BY <1>10, <2>1, <2>2 DEF EndChat
  <1>11. ASSUME EndAsk(r) PROVE EndsWell(r)
    <2>1. EndRun(r, AskRun, FALSE)
      BY <1>11 DEF EndAsk
    <2>2. AskRun = Recorded("ask", "done", "answered", <<search>>)
      BY <1>1, <1>4 DEF AskRun
    <2>3. WellMade(AskRun, FALSE)
      BY <1>4, <1>5, <2>2, ShortRuns
    <2> QED BY <2>1, <2>3 DEF EndsWell
  <1>12. ASSUME EndInsight(r) PROVE EndsWell(r)
    <2>1. CASE EndRun(r, FailedRun("insight"), FALSE)
      <3>1. WellMade(FailedRun("insight"), FALSE)
        BY <1>5, <1>6
      <3> QED BY <2>1, <3>1 DEF EndsWell
    <2>2. CASE \E first, again \in PlanSizes : \E dropped \in SUBSET (1..first) :
                  EndRun(r, InsightRun(InsightIds(FixedCalls, first, dropped, again)), again > 0 /\ dropped # {})
      <3>1. PICK first \in PlanSizes, more \in PlanSizes : \E dropped \in SUBSET (1..first) :
                  EndRun(r, InsightRun(InsightIds(FixedCalls, first, dropped, more)), more > 0 /\ dropped # {})
        BY <2>2
      <3>2. PICK dropped \in SUBSET (1..first) :
                  EndRun(r, InsightRun(InsightIds(FixedCalls, first, dropped, more)), more > 0 /\ dropped # {})
        BY <3>1
      <3>3. WellMade(InsightRun(InsightIds(FixedCalls, first, dropped, more)), more > 0 /\ dropped # {})
        BY InsightIsWellMade
      <3>4. (more > 0 /\ dropped # {}) \in BOOLEAN
        OBVIOUS
      <3> QED BY <3>2, <3>3, <3>4 DEF EndsWell
    <2> QED BY <1>12, <2>1, <2>2 DEF EndInsight
  <1>13. ASSUME EndCall(r) PROVE EndsWell(r)
    <2>0. None # "internal_error" /\ r \in Int
      BY RunsAssumption
    <2>1. PICK code \in {None, "internal_error"} : EndRun(r, EntryRun(r, code), FALSE)
      BY <1>13 DEF EndCall
    <2>2. PICK status \in {"done", "failed"}, stop \in RecordedStop :
             status = (IF code = "internal_error" THEN "failed" ELSE "done") /\ stop = EntryStop(code)
      BY <1>5 DEF EntryStop
    <2>3. PICK call : call = ToolCall(Numbered("run", r), "sum", "envelope")
      OBVIOUS
    <2>4. call \in RunCall /\ call.tool \in FitTools /\ call.id[1] # None
      BY <1>2, <2>0, <2>3, CallIsKnown
    <2>5. PICK plain : plain = Recorded("mcp", status, stop, <<call>>)
      OBVIOUS
    <2>6. WellMade(plain, FALSE) /\ plain.seat = "mcp" /\ plain.status = status
      <3>1. PICK calls \in Seq(RunCall) : calls = <<call>>
        <4>1. call \in RunCall
          BY <2>4
        <4>2. PICK calls \in {<<>>, <<call>>} : calls = <<call>>
          OBVIOUS
        <4> QED BY <4>1, <4>2, OneOrNone
      <3>4. status \in RunStatus /\ "mcp" \in RunSeat
        BY <1>5, <2>2
      <3>2. plain.seat = "mcp" /\ plain.status = status
        <4>1. plain = Recorded("mcp", status, stop, calls)
          BY <2>5, <3>1
        <4> QED BY <1>5, <3>4, <4>1, RecordedFacts
      <3>3. WellMade(plain, FALSE)
        BY <1>5, <2>2, <2>4, <2>5, ShortRuns
      <3> QED BY <3>2, <3>3
    <2>7. PICK run : run = EntryRun(r, code)
      OBVIOUS
    <2>8. run = [plain EXCEPT !.client = "named"]
      BY <2>2, <2>3, <2>5, <2>7 DEF EntryRun
    <2>9. plain \in RunRecord /\ Accepted(plain) /\ plain.stop \in RecordedStop
      BY <2>6 DEF WellMade
    <2>10. /\ run \in RunRecord /\ run.status = plain.status /\ run.calls = plain.calls
           /\ run.status # "awaiting" /\ run.stop \in RecordedStop
      BY <2>6, <2>8, <2>9, <2>2 DEF RunRecord
    <2>11. Accepted(run)
      BY <2>9, <2>10 DEF Accepted
    <2>12. WellMade(run, FALSE)
      BY <2>10, <2>11 DEF WellMade
    <2> QED BY <2>1, <2>7, <2>12 DEF EndsWell
  <1> QED BY <1>7, <1>8, <1>9, <1>10, <1>11, <1>12, <1>13

\* The runs that are filed stand in one strict order.
FiledRuns == {r \in RunId : filed[r] # None}

LEMMA FiledInOrder ==
    ASSUME RunsTypeOK
    PROVE  /\ FiledRuns \in SUBSET RunId /\ IsFiniteSet(FiledRuns)
           /\ \A r \in FiledRuns : r \in Int /\ filed[r].at \in Int /\ filed[r].at \in RunMoment
           /\ \A r \in FiledRuns : ~RunNewer(r, r)
           /\ \A q, r \in FiledRuns : q # r => RunNewer(q, r) \/ RunNewer(r, q)
           /\ \A p, q, r \in FiledRuns : RunNewer(p, q) /\ RunNewer(q, r) => RunNewer(p, r)
  <1>1. FiledRuns \in SUBSET RunId /\ \A r \in FiledRuns : filed[r] \in FiledRun
    BY DEF FiledRuns, RunsTypeOK
  <1>2. IsFiniteSet(FiledRuns)
    BY <1>1, FS_Subset, RunsAssumption
  <1>3. \A r \in FiledRuns : r \in Int /\ filed[r].at \in Int /\ filed[r].at \in RunMoment
    BY <1>1, RunsAssumption DEF FiledRun
  <1>4. /\ \A r \in FiledRuns : ~RunNewer(r, r)
        /\ \A q, r \in FiledRuns : q # r => RunNewer(q, r) \/ RunNewer(r, q)
    BY <1>3 DEF RunNewer
  <1>5. ASSUME NEW p \in FiledRuns, NEW q \in FiledRuns, NEW r \in FiledRuns, RunNewer(p, q), RunNewer(q, r)
        PROVE  RunNewer(p, r)
    <2>1. PICK a \in Int, b \in Int, c \in Int : a = filed[p].at /\ b = filed[q].at /\ c = filed[r].at
      BY <1>3
    <2>2. (a > b \/ (a = b /\ p > q)) /\ (b > c \/ (b = c /\ q > r))
      BY <1>5, <2>1 DEF RunNewer
    <2>3. a > c \/ (a = c /\ p > r)
      BY <1>3, <2>2
    <2> QED BY <2>1, <2>3 DEF RunNewer
  <1> QED BY <1>1, <1>2, <1>3, <1>4, <1>5

\* How many runs are newer says where a run stands: every place is taken, by one run.
RunRank(runs, r) == Cardinality(NewerThan(runs, r))

LEMMA RunRanksAreTaken ==
    ASSUME RunsTypeOK, NEW runs \in SUBSET FiledRuns
    PROVE  /\ Cardinality(runs) \in Nat
           /\ \A r \in runs : RunRank(runs, r) \in 0..(Cardinality(runs) - 1)
           /\ \A q, r \in runs : RunNewer(q, r) => RunRank(runs, q) < RunRank(runs, r)
           /\ \A n \in 0..(Cardinality(runs) - 1) : \E r \in runs : RunRank(runs, r) = n
  <1> DEFINE rank(r) == RunRank(runs, r)
  <1>1. IsFiniteSet(runs) /\ Cardinality(runs) \in Nat
    BY FiledInOrder, FS_Subset, FS_CardinalityType
  <1>2. ASSUME NEW r \in runs PROVE rank(r) \in 0..(Cardinality(runs) - 1) /\ IsFiniteSet(NewerThan(runs, r))
    <2>1. NewerThan(runs, r) \subseteq runs /\ r \notin NewerThan(runs, r)
      BY FiledInOrder DEF NewerThan
    <2>2. NewerThan(runs, r) # runs
      BY <2>1
    <2>3. rank(r) <= Cardinality(runs) /\ (rank(r) = Cardinality(runs) => NewerThan(runs, r) = runs)
          /\ IsFiniteSet(NewerThan(runs, r))
      BY <1>1, <2>1, FS_Subset DEF RunRank
    <2>4. rank(r) \in Nat
      BY <2>3, FS_CardinalityType DEF RunRank
    <2> QED BY <1>1, <2>2, <2>3, <2>4
  <1>3. ASSUME NEW q \in runs, NEW r \in runs, RunNewer(q, r) PROVE rank(q) < rank(r)
    <2>1. NewerThan(runs, q) \subseteq NewerThan(runs, r) /\ q \in NewerThan(runs, r) /\ q \notin NewerThan(runs, q)
      BY <1>3, FiledInOrder DEF NewerThan
    <2>2. NewerThan(runs, q) # NewerThan(runs, r)
      BY <2>1
    <2>3. rank(q) \in Nat /\ rank(r) \in Nat /\ IsFiniteSet(NewerThan(runs, r))
      BY <1>1, <1>2
    <2>4. rank(q) <= rank(r) /\ rank(q) # rank(r)
      BY <2>1, <2>2, <2>3, FS_Subset DEF RunRank
    <2> QED BY <2>3, <2>4
  <1>4. ASSUME NEW n \in 0..(Cardinality(runs) - 1) PROVE \E r \in runs : rank(r) = n
    <2>1. SUFFICES ASSUME \A r \in runs : rank(r) # n PROVE FALSE
      OBVIOUS
    <2> DEFINE places == (0..(Cardinality(runs) - 1)) \ {n}
               f == [r \in runs |-> rank(r)]
    <2>2. IsFiniteSet(places) /\ Cardinality(places) < Cardinality(runs)
      <3>1. IsFiniteSet(0..(Cardinality(runs) - 1)) /\ Cardinality(0..(Cardinality(runs) - 1)) = Cardinality(runs)
        BY <1>1, FS_Interval
      <3>2. PICK all : all = 0..(Cardinality(runs) - 1)
        OBVIOUS
      <3>3. n \in all /\ IsFiniteSet(all) /\ Cardinality(all) = Cardinality(runs)
        BY <3>1, <3>2
      <3>4. IsFiniteSet(all \ {n}) /\ Cardinality(all \ {n}) = Cardinality(runs) - 1
        BY <3>3, FS_RemoveElement
      <3> QED BY <1>1, <3>2, <3>4
    <2>3. f \in [runs -> places]
      BY <1>2, <2>1
    <2>4. \A r \in runs : f[r] = rank(r)
      OBVIOUS
    <2> HIDE DEF places, f
    <2>5. PICK q \in runs, r \in runs : q # r /\ f[q] = f[r]
      BY <1>1, <2>2, <2>3, FS_PigeonHole
    <2>6. rank(q) < rank(r) \/ rank(r) < rank(q)
      BY <1>3, <2>5, FiledInOrder
    <2>7. rank(q) \in Int /\ rank(r) \in Int
      BY <1>1, <1>2
    <2> QED BY <2>4, <2>5, <2>6, <2>7
  <1> QED BY <1>1, <1>2, <1>3, <1>4

\* Where the cursor of a run is, there the run is.
LEMMA CursorOfRun ==
    ASSUME RunsTypeOK, NEW l \in FiledRuns, NEW r \in FiledRuns, NEW c, c = [at |-> filed[l].at, id |-> l]
    PROVE  c \in RunCursor /\ c # None /\ (RunBefore(r, c) <=> RunNewer(l, r))
  <1>1. l \in Int /\ r \in Int /\ filed[l].at \in Int /\ filed[r].at \in Int /\ filed[l].at \in RunMoment /\ l \in RunId
    BY FiledInOrder
  <1>2. c \in RunCursor /\ c # None
    BY <1>1, RunsAssumption DEF RunCursor
  <1> QED BY <1>1, <1>2 DEF RunBefore, RunNewer

\* Below a run that comes below a cursor there are only runs below that cursor.
LEMMA BelowIsBelow ==
    ASSUME RunsTypeOK, NEW l \in FiledRuns, NEW r \in FiledRuns, NEW after \in RunCursor,
           RunBefore(l, after), RunNewer(l, r)
    PROVE  RunBefore(r, after)
  <1>1. l \in Int /\ r \in Int /\ filed[l].at \in Int /\ filed[r].at \in Int
    BY FiledInOrder
  <1>2. PICK at \in Int, id \in Int : at = after.at /\ id = after.id
    BY RunsAssumption DEF RunCursor
  <1>3. PICK a \in Int, b \in Int : a = filed[l].at /\ b = filed[r].at
    BY <1>1
  <1>4. (a < at \/ (a = at /\ l < id)) /\ (a > b \/ (a = b /\ l > r))
    BY <1>2, <1>3 DEF RunBefore, RunNewer
  <1>5. b < at \/ (b = at /\ r < id)
    BY <1>1, <1>4
  <1> QED BY <1>2, <1>3, <1>5 DEF RunBefore

\* The line of a run is of its types.
LEMMA LineFacts ==
    ASSUME RunsTypeOK, NEW r \in FiledRuns
    PROVE  /\ RunLine(r) \in RunLines /\ RunLine(r).id = r
           /\ RunLine(r).count = Len(RowOf(r).calls)
  <1>1. r \in RunId /\ filed[r] \in FiledRun
    BY DEF FiledRuns, RunsTypeOK
  <1>2. PICK row \in RunRecord : row = RowOf(r)
    BY <1>1 DEF FiledRun, RowOf
  <1>3. row.seat \in RunSeat /\ row.status \in RunStatus /\ Len(row.calls) \in Nat
    BY DEF RunRecord
  <1>4. RunLine(r) = [id |-> r, seat |-> row.seat, status |-> row.status, count |-> Len(row.calls)]
    BY <1>2 DEF RunLine
  <1> QED BY <1>1, <1>2, <1>3, <1>4 DEF RunLines

\* A page of the runs shows, each once, those that do not come below its cursor.
PageShows(left, p) ==
    /\ p.lines \in Seq(RunLines) /\ p.next \in RunCursor \cup {None}
    /\ \A n \in 1..Len(p.lines) :
          \E r \in left : p.lines[n] = RunLine(r) /\ (p.next # None => ~RunBefore(r, p.next))
    /\ \A m, n \in 1..Len(p.lines) : p.lines[m].id = p.lines[n].id => m = n
    /\ \A r \in left :
          (\E n \in 1..Len(p.lines) : p.lines[n].id = r) \/ (p.next # None /\ RunBefore(r, p.next))
    /\ p.next # None => \E l \in left : p.next = [at |-> filed[l].at, id |-> l]

\* The lines of the first runs, in their order.
FirstLines(runs, n, lines) ==
    /\ lines \in Seq(RunLines) /\ Len(lines) = n
    /\ \A k \in 1..n : lines[k].id \in runs /\ lines[k] = RunLine(lines[k].id)
                       /\ RunRank(runs, lines[k].id) = k - 1
    /\ \A r \in runs : RunRank(runs, r) < n => \E k \in 1..n : lines[k].id = r

LEMMA FirstRunsFacts ==
    ASSUME RunsTypeOK, NEW runs \in SUBSET FiledRuns, NEW n \in 0..Cardinality(runs),
           NEW lines, lines = FirstRuns(runs, n)
    PROVE  FirstLines(runs, n, lines)
  <1> DEFINE pick(k) == CHOOSE r \in runs : RunRank(runs, r) = k - 1
  <1>1. /\ Cardinality(runs) \in Nat
        /\ \A r \in runs : RunRank(runs, r) \in 0..(Cardinality(runs) - 1)
        /\ \A q, r \in runs : RunNewer(q, r) => RunRank(runs, q) < RunRank(runs, r)
        /\ \A k \in 0..(Cardinality(runs) - 1) : \E r \in runs : RunRank(runs, r) = k
    BY RunRanksAreTaken
  <1>2. ASSUME NEW k \in 1..n PROVE pick(k) \in runs /\ RunRank(runs, pick(k)) = k - 1
    <2>1. k - 1 \in 0..(Cardinality(runs) - 1)
      BY <1>1
    <2>2. \E r \in runs : RunRank(runs, r) = k - 1
      BY <1>1, <2>1
    <2> QED BY <2>2
  <1>3. lines = [k \in 1..n |-> RunLine(pick(k))]
    BY DEF FirstRuns, RunRank
  <1> HIDE DEF pick
  <1>4. ASSUME NEW k \in 1..n
        PROVE  lines[k] \in RunLines /\ lines[k].id = pick(k) /\ lines[k] = RunLine(pick(k))
    <2>1. pick(k) \in FiledRuns
      BY <1>2
    <2> QED BY <1>3, <2>1, LineFacts
  <1>5. lines \in Seq(RunLines) /\ Len(lines) = n
    <2>1. lines \in [1..n -> RunLines]
      BY <1>3, <1>4
    <2> QED BY <1>1, <2>1
  <1>6. \A k \in 1..n : lines[k].id \in runs /\ lines[k] = RunLine(lines[k].id)
                        /\ RunRank(runs, lines[k].id) = k - 1
    BY <1>2, <1>4
  <1>7. ASSUME NEW r \in runs, RunRank(runs, r) < n PROVE \E k \in 1..n : lines[k].id = r
    <2>1. PICK k \in 1..n : RunRank(runs, r) = k - 1
      <3>1. PICK j \in 0..(n - 1) : j = RunRank(runs, r)
        BY <1>1, <1>7
      <3>2. j + 1 \in 1..n /\ j = (j + 1) - 1
        OBVIOUS
      <3> QED BY <3>1, <3>2
    <2>2. PICK q \in runs : q = pick(k) /\ RunRank(runs, q) = k - 1
      BY <1>2
    <2>3. ~RunNewer(q, r) /\ ~RunNewer(r, q)
      <3>1. RunRank(runs, q) = RunRank(runs, r) /\ RunRank(runs, q) \in Int
        BY <2>1, <2>2
      <3> QED BY <1>1, <3>1
    <2>4. q = r
      BY <2>3, FiledInOrder
    <2> QED BY <1>4, <2>2, <2>4
  <1> QED BY <1>5, <1>6, <1>7 DEF FirstLines

\* Two lines of one page are of two runs.
LEMMA LinesDiffer ==
    ASSUME NEW runs, NEW n \in Nat, NEW lines, FirstLines(runs, n, lines), NEW k \in 1..n, NEW m \in 1..n,
           lines[k].id = lines[m].id
    PROVE  k = m
  <1>1. k - 1 = m - 1
    BY DEF FirstLines
  <1> QED BY <1>1

LEMMA RunPageFacts ==
    ASSUME RunsTypeOK, NEW f, NEW after, NEW p, p = RunPage(f, after)
    PROVE  RunsLeft(f, after) \in SUBSET FiledRuns /\ PageShows(RunsLeft(f, after), p)
  <1>1. PICK left \in SUBSET FiledRuns : left = RunsLeft(f, after)
    BY DEF RunsLeft, RunsFor, FiledRuns
  <1>2. /\ Cardinality(left) \in Nat
        /\ \A r \in left : RunRank(left, r) \in 0..(Cardinality(left) - 1)
        /\ \A q, r \in left : RunNewer(q, r) => RunRank(left, q) < RunRank(left, r)
    BY RunRanksAreTaken
  <1>3. RunLimit \in Nat \ {0}
    BY RunsAssumption
  <1>4. CASE Cardinality(left) <= RunLimit
    <2>1. PICK n \in 0..Cardinality(left) : n = Cardinality(left)
      BY <1>2
    <2>9. PICK lines : lines = FirstRuns(left, n)
      OBVIOUS
    <2>2. FirstLines(left, n, lines) /\ n \in Nat
      BY <1>2, <2>1, <2>9, FirstRunsFacts
    <2>3. p = [lines |-> lines, next |-> None]
      BY <1>1, <1>4, <2>1, <2>9 DEF RunPage
    <2>4. p.lines = lines /\ p.next = None
      BY <2>3
    <2>5. lines \in Seq(RunLines) /\ Len(lines) = n /\ \A k \in 1..n : lines[k].id \in left /\ lines[k] = RunLine(lines[k].id)
      BY <2>2 DEF FirstLines
    <2>6. \A k, m \in 1..n : lines[k].id = lines[m].id => k = m
      BY <2>2, LinesDiffer
    <2>7. \A r \in left : \E k \in 1..n : lines[k].id = r
      <3>1. \A r \in left : RunRank(left, r) < n
        BY <1>2, <2>1
      <3> QED BY <2>2, <3>1 DEF FirstLines
    <2>8. PageShows(left, p)
      BY <2>4, <2>5, <2>6, <2>7 DEF PageShows
    <2> QED BY <1>1, <2>8
  <1>5. CASE ~(Cardinality(left) <= RunLimit)
    <2>1. PICK n \in 1..Cardinality(left) : n = RunLimit
      BY <1>2, <1>3, <1>5
    <2>2. PICK lines : lines = FirstRuns(left, n)
      OBVIOUS
    <2>3. FirstLines(left, n, lines) /\ n \in Nat
      BY <1>2, <2>2, FirstRunsFacts
    <2>4. lines \in Seq(RunLines) /\ Len(lines) = n
          /\ \A k \in 1..n : lines[k].id \in left /\ lines[k] = RunLine(lines[k].id) /\ RunRank(left, lines[k].id) = k - 1
      BY <2>3 DEF FirstLines
    <2>5. PICK l \in left : l = lines[n].id /\ RunRank(left, l) = n - 1
      BY <2>4
    <2>6. PICK c : c = [at |-> filed[l].at, id |-> l]
      OBVIOUS
    <2>7. p = [lines |-> lines, next |-> c]
      BY <1>1, <1>5, <2>1, <2>2, <2>5, <2>6 DEF RunPage
    <2>8. p.lines = lines /\ p.next = c
      BY <2>7
    <2>9. c \in RunCursor /\ c # None /\ \A r \in left : RunBefore(r, c) <=> RunNewer(l, r)
      BY <2>6, CursorOfRun
    <2>10. \A r \in left : RunRank(left, r) <= n - 1 => ~RunBefore(r, c)
      BY <1>2, <2>5, <2>9
    <2>11. ASSUME NEW k \in 1..n PROVE \E r \in left : lines[k] = RunLine(r) /\ ~RunBefore(r, c)
      <3>1. PICK r \in left : r = lines[k].id /\ lines[k] = RunLine(r) /\ RunRank(left, r) = k - 1
        BY <2>4
      <3>2. ~RunBefore(r, c)
        BY <2>10, <3>1
      <3> QED BY <3>1, <3>2
    <2>12. \A k, m \in 1..n : lines[k].id = lines[m].id => k = m
      BY <2>3, LinesDiffer
    <2>13. ASSUME NEW r \in left PROVE (\E k \in 1..n : lines[k].id = r) \/ RunBefore(r, c)
      <3>1. CASE RunRank(left, r) < n
        BY <2>3, <3>1 DEF FirstLines
      <3>2. CASE ~(RunRank(left, r) < n)
        <4>1. r # l /\ ~(RunRank(left, r) < RunRank(left, l))
          BY <1>2, <2>5, <3>2
        <4>2. ~RunNewer(r, l)
          BY <1>2, <4>1
        <4>3. RunNewer(l, r)
          BY <4>1, <4>2, FiledInOrder
        <4> QED BY <2>9, <4>3
      <3> QED BY <3>1, <3>2
    <2>14. PageShows(left, p)
      <3>1. p.lines \in Seq(RunLines) /\ Len(p.lines) = n /\ p.next \in RunCursor \cup {None}
        BY <2>4, <2>8, <2>9
      <3>2. \A k \in 1..n : \E r \in left : p.lines[k] = RunLine(r) /\ (p.next # None => ~RunBefore(r, p.next))
        BY <2>8, <2>11
      <3>3. \A r \in left : (\E k \in 1..n : p.lines[k].id = r) \/ (p.next # None /\ RunBefore(r, p.next))
        BY <2>8, <2>9, <2>13
      <3>4. \E q \in left : p.next = [at |-> filed[q].at, id |-> q]
        BY <2>6, <2>8
      <3> QED BY <2>8, <2>12, <3>1, <3>2, <3>3, <3>4 DEF PageShows
    <2> QED BY <1>1, <2>14
  <1> QED BY <1>4, <1>5

\* Nothing has ended at the start.
LEMMA RunsStart == RunsInit => RunsInductive
  <1> SUFFICES ASSUME RunsInit PROVE RunsInductive
    OBVIOUS
  <1>1. RunsTypeOK
    BY DEF RunsInit, RunsTypeOK
  <1>2. \A r \in RunId : Handled(r)
    BY RunsAssumption DEF RunsInit, Handled
  <1>3. WalkShowsRuns
    BY DEF RunsInit, WalkShowsRuns
  <1> QED BY <1>1, <1>2, <1>3 DEF RunsInductive, RunsAreHandled

\* What is known of a run stays known while nothing of it changes.
SameOf(q) ==
    /\ ended'[q] = ended[q] /\ heard'[q] = heard[q] /\ said'[q] = said[q] /\ filed'[q] = filed[q]
    /\ q \in air' <=> q \in air
    /\ q \in lost => q \in lost'

LEMMA RunIsUntouched ==
    ASSUME NEW q \in RunId, SameOf(q), Handled(q) PROVE Handled(q)'
  <1>1. PICK e, f : e = ended[q] /\ f = filed[q]
    OBVIOUS
  <1>2. EndedWell(q) => EndedWell(q)'
    BY DEF SameOf, EndedWell, MayBeRefused
  <1>3. FiledAsEnded(q) => FiledAsEnded(q)'
    BY DEF SameOf, FiledAsEnded, AsRecorded, RowOf
  <1>4. (ended'[q] = ended[q]) /\ (Accepted(ended[q])' <=> Accepted(ended[q]))
    BY DEF SameOf
  <1> QED BY <1>2, <1>3, <1>4 DEF SameOf, Handled

\* An open list stays true while the runs that are filed stay as they are.
LEMMA WalkIsUntouched ==
    ASSUME WalkShowsRuns, walk' = walk, \A q : filed[q] # None => filed'[q] = filed[q],
           walk # None => walk.there \subseteq RunId
    PROVE  WalkShowsRuns'
  <1>1. SUFFICES ASSUME walk # None PROVE WalkShowsRuns'
    BY DEF WalkShowsRuns
  <1>2. ASSUME NEW q, filed[q] # None
        PROVE  /\ (RowOf(q)' = RowOf(q)) /\ (filed'[q] = filed[q])
               /\ \A f : RunFits(q, f)' <=> RunFits(q, f)
               /\ \A c : RunBefore(q, c)' <=> RunBefore(q, c)
    BY <1>2 DEF RowOf, RunFits, RunBefore
  <1>3. /\ \A m, n \in DOMAIN walk'.lines : walk'.lines[m].id = walk'.lines[n].id => m = n
    BY <1>1 DEF WalkShowsRuns
  <1>4. ASSUME NEW n \in DOMAIN walk'.lines, NEW r, r = walk'.lines[n].id
        PROVE  /\ filed'[r] # None /\ walk'.lines[n].count = Len(RowOf(r)'.calls)
               /\ walk'.cursor # None => ~RunBefore(r, walk.cursor)'
    BY <1>1, <1>2, <1>4 DEF WalkShowsRuns
  <1>5. ASSUME NEW r \in walk'.there
        PROVE  /\ filed'[r] # None /\ (RowOf(r)'.status = "awaiting" => RunFits(r, walk.filter)')
               /\ RunFits(r, walk.filter)' =>
                     \/ \E n \in DOMAIN walk'.lines : walk'.lines[n].id = r
                     \/ walk'.cursor # None /\ RunBefore(r, walk.cursor)'
    BY <1>1, <1>2, <1>5 DEF WalkShowsRuns
  <1> QED BY <1>1, <1>3, <1>4, <1>5 DEF WalkShowsRuns

\* A run that ends is the api's to take, or one it may refuse.
LEMMA KeepsEnd ==
    ASSUME RunsInductive, NEW r \in RunId, EndsWell(r) PROVE RunsInductive'
  <1>1. PICK run, again : WellMade(run, again) /\ again \in BOOLEAN /\ EndRun(r, run, again)
    BY DEF EndsWell
  <1>2. RunsTypeOK /\ WalkShowsRuns /\ \A q \in RunId : Handled(q)
    BY DEF RunsInductive, RunsAreHandled
  <1>3. run \in RunRecord /\ run # None
    BY <1>1, RunsAssumption DEF WellMade
  <1>4. /\ ended[r] = None /\ ended' = [ended EXCEPT ![r] = run]
        /\ lost' = (IF again THEN lost \cup {r} ELSE lost) /\ air' = air \cup {r}
        /\ said' = IF run.seat # "chat" THEN said
                   ELSE [said EXCEPT ![r] = IF run.status = "failed" THEN "failed" ELSE "answer"]
        /\ heard' = heard /\ filed' = filed /\ walk' = walk
    BY <1>1 DEF EndRun
  <1>5. heard[r] = None /\ said[r] = None /\ filed[r] = None
    BY <1>2, <1>4 DEF Handled
  <1>6. RunsTypeOK'
    BY <1>2, <1>3, <1>4 DEF RunsTypeOK
  <1>7. ended'[r] = run /\ r \in air' /\ heard'[r] = None /\ filed'[r] = None
        /\ said'[r] = (IF run.seat # "chat" THEN None ELSE IF run.status = "failed" THEN "failed" ELSE "answer")
    BY <1>2, <1>4, <1>5 DEF RunsTypeOK
  <1>8. EndedWell(r)'
    <2>1. ~Accepted(run) => (run.seat = "chat" /\ (MisfitCall(run) \/ TooMany(run) \/ NumberedTwice(run)))
                            \/ (run.seat = "insight" /\ r \in lost')
      BY <1>1, <1>4 DEF WellMade
    <2>2. /\ run.status = "awaiting" => EndsWithWrite(run.calls) /\ Last(run.calls).result = None
          /\ run.stop \in RecordedStop
      BY <1>1 DEF WellMade
    <2> QED BY <1>7, <2>1, <2>2 DEF EndedWell, MayBeRefused
  <1>9. Handled(r)'
    <2>1. said'[r] # "card" /\ (said'[r] # None => (said'[r] = "failed" <=> run.status = "failed"))
      BY <1>7, RunsAssumption
    <2>2. heard'[r] # "stored"
      BY <1>7, RunsAssumption
    <2> QED BY <1>3, <1>7, <1>8, <2>1, <2>2 DEF Handled
  <1>10. ASSUME NEW q \in RunId, q # r PROVE Handled(q)'
    <2>1. SameOf(q)
      BY <1>2, <1>4, <1>10 DEF SameOf, RunsTypeOK
    <2> QED BY <1>2, <2>1, RunIsUntouched
  <1>11. WalkShowsRuns'
    BY <1>2, <1>4, WalkIsUntouched DEF RunsTypeOK, RunWalk
  <1> QED BY <1>6, <1>9, <1>10, <1>11 DEF RunsInductive, RunsAreHandled

\* What the api takes it keeps as it was recorded; what it refuses it may refuse.
LEMMA KeepsStoreRun ==
    ASSUME RunsInductive, NEW r \in RunId, NEW at \in RunMoment, StoreRun(r, at) PROVE RunsInductive'
  <1>1. RunsTypeOK /\ WalkShowsRuns /\ \A q \in RunId : Handled(q)
    BY DEF RunsInductive, RunsAreHandled
  <1>2. PICK taken \in BOOLEAN : taken = Accepted(ended[r])
    BY DEF Accepted
  <1>3. /\ r \in air /\ air' = air \ {r}
        /\ filed' = IF taken THEN [filed EXCEPT ![r] = RunRow(ended[r], at)] ELSE filed
        /\ heard' = IF heard[r] # None THEN heard
                    ELSE [heard EXCEPT ![r] = IF taken THEN "stored" ELSE "refused"]
        /\ ended' = ended /\ lost' = lost /\ said' = said /\ walk' = walk
    BY <1>2 DEF StoreRun
  <1>4. filed[r] = None /\ heard[r] \in {None, "nothing"} /\ ended[r] # None /\ EndedWell(r)
    BY <1>1, <1>3 DEF Handled
  <1>5. ended[r] \in RunRecord
    BY <1>1, <1>4 DEF RunsTypeOK
  <1>6. PICK row \in FiledRun : row = RunRow(ended[r], at) /\ row.run = ended[r] /\ row # None
    <2>1. RunRow(ended[r], at) \in FiledRun /\ RunRow(ended[r], at).run = ended[r]
      BY <1>5 DEF RunRow, FiledRun
    <2> QED BY <2>1, RunsAssumption
  <1>7. /\ filed'[r] = IF taken THEN row ELSE None
        /\ heard'[r] = IF heard[r] # None THEN "nothing" ELSE IF taken THEN "stored" ELSE "refused"
        /\ r \notin air' /\ ended'[r] = ended[r] /\ said'[r] = said[r]
    BY <1>1, <1>3, <1>4, <1>6 DEF RunsTypeOK
  <1>8. RunsTypeOK'
    <2>1. filed' \in [RunId -> FiledRun \cup {None}]
      BY <1>1, <1>3, <1>6 DEF RunsTypeOK
    <2>2. heard' \in [RunId -> {None, "stored", "refused", "nothing"}]
      BY <1>1, <1>3 DEF RunsTypeOK
    <2> QED BY <1>1, <1>3, <2>1, <2>2 DEF RunsTypeOK
  <1>9. EndedWell(r)'
    BY <1>3, <1>4 DEF EndedWell, MayBeRefused
  <1>10. FiledAsEnded(r)' \/ ~taken
    <2>1. SUFFICES ASSUME taken PROVE FiledAsEnded(r)'
      OBVIOUS
    <2>2. RowOf(r)' = ended[r] /\ ended'[r] = ended[r]
      BY <1>6, <1>7, <2>1 DEF RowOf
    <2>4. Accepted(ended'[r])
      BY <1>2, <1>7, <2>1
    <2> QED BY <1>4, <2>2, <2>4 DEF FiledAsEnded, AsRecorded
  <1>11. Handled(r)'
    <2>1. said[r] # "card"
      BY <1>1, <1>4, RunsAssumption DEF Handled
    <2>2. said[r] # None => (said[r] = "failed" <=> ended[r].status = "failed")
      BY <1>1 DEF Handled
    <2>3. filed'[r] # None => taken /\ FiledAsEnded(r)'
      BY <1>7, <1>10
    <2>4. heard'[r] = "stored" => filed'[r] # None
      BY <1>6, <1>7
    <2>5. filed'[r] = None => ~Accepted(ended'[r])
      BY <1>2, <1>6, <1>7
    <2> QED BY <1>4, <1>7, <1>9, <2>1, <2>2, <2>3, <2>4, <2>5 DEF Handled
  <1>12. ASSUME NEW q \in RunId, q # r PROVE Handled(q)'
    <2>1. SameOf(q)
      BY <1>1, <1>3, <1>12 DEF SameOf, RunsTypeOK
    <2> QED BY <1>1, <2>1, RunIsUntouched
  <1>13. WalkShowsRuns'
    <2>1. ASSUME NEW q, filed[q] # None PROVE filed'[q] = filed[q]
      <3>1. q # r
        BY <1>4, <2>1
      <3> QED BY <1>1, <1>3, <3>1 DEF RunsTypeOK
    <2> QED BY <1>1, <1>3, <2>1, WalkIsUntouched DEF RunsTypeOK, RunWalk
  <1> QED BY <1>8, <1>11, <1>12, <1>13 DEF RunsInductive, RunsAreHandled

\* Who hears nothing knows nothing of the record.
LEMMA KeepsHearNothing ==
    ASSUME RunsInductive, NEW r \in RunId, HearNothing(r) PROVE RunsInductive'
  <1>1. RunsTypeOK /\ WalkShowsRuns /\ \A q \in RunId : Handled(q)
    BY DEF RunsInductive, RunsAreHandled
  <1>2. /\ r \in air /\ heard[r] = None /\ heard' = [heard EXCEPT ![r] = "nothing"]
        /\ air' \in {air, air \ {r}}
        /\ ended' = ended /\ lost' = lost /\ said' = said /\ filed' = filed /\ walk' = walk
    BY DEF HearNothing
  <1>3. filed[r] = None /\ ended[r] # None /\ EndedWell(r)
    BY <1>1, <1>2 DEF Handled
  <1>4. heard'[r] = "nothing" /\ filed'[r] = None /\ ended'[r] = ended[r] /\ said'[r] = said[r]
    BY <1>1, <1>2, <1>3 DEF RunsTypeOK
  <1>5. RunsTypeOK'
    BY <1>1, <1>2 DEF RunsTypeOK
  <1>6. Handled(r)'
    <2>1. EndedWell(r)'
      BY <1>2, <1>3 DEF EndedWell, MayBeRefused
    <2>2. said[r] # "card"
      BY <1>1, <1>2, RunsAssumption DEF Handled
    <2>3. said[r] # None => (said[r] = "failed" <=> ended[r].status = "failed")
      BY <1>1 DEF Handled
    <2> QED BY <1>3, <1>4, <2>1, <2>2, <2>3 DEF Handled
  <1>7. ASSUME NEW q \in RunId, q # r PROVE Handled(q)'
    <2>1. SameOf(q)
      BY <1>1, <1>2, <1>7 DEF SameOf, RunsTypeOK
    <2> QED BY <1>1, <2>1, RunIsUntouched
  <1>8. WalkShowsRuns'
    BY <1>1, <1>2, WalkIsUntouched DEF RunsTypeOK, RunWalk
  <1> QED BY <1>5, <1>6, <1>7, <1>8 DEF RunsInductive, RunsAreHandled

\* The user is told of a run as it ended, and is given a card only for what is in the log.
LEMMA KeepsTellUser ==
    ASSUME RunsInductive, NEW r \in RunId, TellUser(r) PROVE RunsInductive'
  <1>1. RunsTypeOK /\ WalkShowsRuns /\ \A q \in RunId : Handled(q)
    BY DEF RunsInductive, RunsAreHandled
  <1> DEFINE word == IF ended[r].status = "awaiting" THEN IF heard[r] = "stored" THEN "card" ELSE "not_saved"
                     ELSE IF ended[r].status = "failed" THEN "failed" ELSE "answer"
  <1>2. /\ heard[r] # None /\ said[r] = None /\ said' = [said EXCEPT ![r] = word]
        /\ ended' = ended /\ lost' = lost /\ air' = air /\ heard' = heard /\ filed' = filed /\ walk' = walk
    BY DEF TellUser
  <1>3. word \in {"answer", "failed", "card", "not_saved"}
    OBVIOUS
  <1>4. RunsTypeOK' /\ said'[r] = word
    BY <1>1, <1>2, <1>3 DEF RunsTypeOK
  <1>5. Handled(r)'
    <2>1. ended[r] # None /\ EndedWell(r)
      BY <1>1, <1>2 DEF Handled
    <2>2. EndedWell(r)'
      BY <1>2, <2>1 DEF EndedWell, MayBeRefused
    <2>3. filed[r] # None => FiledAsEnded(r)'
      BY <1>1, <1>2 DEF Handled, FiledAsEnded, AsRecorded, RowOf
    <2>4. /\ word = "card" => heard[r] = "stored" /\ ended[r].status = "awaiting"
          /\ word = "failed" <=> ended[r].status = "failed"
      OBVIOUS
    <2>5. /\ r \in air => filed[r] = None /\ heard[r] \in {None, "nothing"}
          /\ heard[r] = "stored" => filed[r] # None
          /\ r \notin air /\ heard[r] # "nothing" /\ filed[r] = None => ~Accepted(ended[r])
      BY <1>1, <2>1 DEF Handled
    <2> HIDE DEF word
    <2> QED BY <1>2, <1>4, <2>1, <2>2, <2>3, <2>4, <2>5 DEF Handled
  <1>6. ASSUME NEW q \in RunId, q # r PROVE Handled(q)'
    <2>1. SameOf(q)
      BY <1>1, <1>2, <1>6 DEF SameOf, RunsTypeOK
    <2> QED BY <1>1, <2>1, RunIsUntouched
  <1>7. WalkShowsRuns'
    BY <1>1, <1>2, WalkIsUntouched DEF RunsTypeOK, RunWalk
  <1> QED BY <1>4, <1>5, <1>6, <1>7 DEF RunsInductive, RunsAreHandled

\* The decision on a proposal changes nothing of its run but the status, once.
\* What a decision makes of a run: the calls are those that were made, the write has a result when
\* the entry was written.
DecidedFrom(run, c, new) ==
    /\ new \in RunRecord /\ new.status = c.status /\ new.stop = c.stop /\ new.seat = run.seat
    /\ Len(new.calls) = Len(run.calls) /\ DOMAIN new.calls = DOMAIN run.calls
    /\ \A n \in DOMAIN run.calls : new.calls[n].id = run.calls[n].id /\ new.calls[n].tool = run.calls[n].tool
    /\ run.calls # <<>> =>
           /\ new.calls # <<>>
           /\ Last(new.calls).result = IF c.status = "done" THEN "entry" ELSE Last(run.calls).result

LastHasEntry(calls, new) ==
    /\ new \in Seq(RunCall) /\ Len(new) = Len(calls)
    /\ \A n \in 1..Len(calls) :
          /\ new[n].id = calls[n].id /\ new[n].tool = calls[n].tool
          /\ n = Len(calls) => new[n].result = "entry"

LEMMA WithEntryFacts ==
    ASSUME NEW calls \in Seq(RunCall), NEW new, new = WithEntry(calls)
    PROVE  LastHasEntry(calls, new)
  <1>1. \A n \in 1..Len(calls) : calls[n] \in RunCall
    OBVIOUS
  <1>2. new = [n \in 1..Len(calls) |-> IF n # Len(calls) THEN calls[n]
                                       ELSE [calls[n] EXCEPT !.result = "entry"]]
    BY DEF WithEntry
  <1>3. ASSUME NEW call \in RunCall
        PROVE  /\ [call EXCEPT !.result = "entry"] \in RunCall
               /\ [call EXCEPT !.result = "entry"].id = call.id
               /\ [call EXCEPT !.result = "entry"].tool = call.tool
               /\ [call EXCEPT !.result = "entry"].result = "entry"
    BY DEF RunCall
  <1>4. ASSUME NEW n \in 1..Len(calls)
        PROVE  /\ new[n] \in RunCall /\ new[n].id = calls[n].id /\ new[n].tool = calls[n].tool
               /\ n = Len(calls) => new[n].result = "entry"
    <2>1. PICK call \in RunCall : call = calls[n]
      BY <1>1
    <2>2. new[n] = IF n # Len(calls) THEN call ELSE [call EXCEPT !.result = "entry"]
      BY <1>2, <2>1
    <2> QED BY <1>3, <2>1, <2>2
  <1>5. new \in [1..Len(calls) -> RunCall]
    BY <1>2, <1>4
  <1> QED BY <1>4, <1>5 DEF LastHasEntry

LEMMA DecidedFacts ==
    ASSUME NEW run \in RunRecord, NEW c \in Closings, NEW new, new = Decided(run, c)
    PROVE  DecidedFrom(run, c, new)
  <1>1. PICK calls \in Seq(RunCall) : calls = run.calls
    BY DEF RunRecord
  <1>2. PICK made : made = IF c.status = "done" THEN WithEntry(calls) ELSE calls
    OBVIOUS
  <1>3. /\ made \in Seq(RunCall) /\ Len(made) = Len(calls)
        /\ \A n \in 1..Len(calls) : made[n].id = calls[n].id /\ made[n].tool = calls[n].tool
        /\ Len(calls) \in 1..Len(calls) =>
               made[Len(calls)].result = IF c.status = "done" THEN "entry" ELSE calls[Len(calls)].result
    <2>1. CASE c.status = "done"
      <3>1. made = WithEntry(calls)
        BY <1>2, <2>1
      <3>2. LastHasEntry(calls, made)
        BY <3>1, WithEntryFacts
      <3> QED BY <2>1, <3>2 DEF LastHasEntry
    <2>2. CASE c.status # "done"
      BY <1>2, <2>2
    <2> QED BY <2>1, <2>2
  <1>4. c.status \in RunStatus /\ c.stop \in RunStop
    BY DEF Closings, RunStatus, RunStop
  <1>5. new = [run EXCEPT !.status = c.status, !.stop = c.stop, !.calls = made]
    BY <1>1, <1>2 DEF Decided
  <1>6. /\ new \in RunRecord /\ new.status = c.status /\ new.stop = c.stop /\ new.seat = run.seat
        /\ new.calls = made
    BY <1>3, <1>4, <1>5 DEF RunRecord
  <1>7. calls # <<>> => Len(calls) \in 1..Len(calls) /\ made # <<>>
    BY <1>3
  <1> QED BY <1>1, <1>3, <1>6, <1>7 DEF DecidedFrom, Last

LEMMA KeepsCloseRun ==
    ASSUME RunsInductive, NEW r \in RunId, NEW c \in Closings, CloseRun(r, c)
    PROVE  RunsInductive'
  <1>1. RunsTypeOK /\ WalkShowsRuns /\ \A q \in RunId : Handled(q)
    BY DEF RunsInductive, RunsAreHandled
  <1>2. /\ filed[r] # None /\ RowOf(r).status = "awaiting"
        /\ filed' = [filed EXCEPT ![r].run = Decided(RowOf(r), c)]
        /\ ended' = ended /\ lost' = lost /\ air' = air /\ heard' = heard /\ said' = said /\ walk' = walk
    BY DEF CloseRun
  <1>3. PICK old \in FiledRun : old = filed[r]
    BY <1>1, <1>2 DEF RunsTypeOK
  <1>4. PICK run \in RunRecord, at \in RunMoment : old = [run |-> run, at |-> at] /\ run = old.run /\ at = old.at
    BY DEF FiledRun
  <1>5. PICK closed : closed = Decided(run, c)
    OBVIOUS
  <1>6. /\ closed \in RunRecord /\ closed.status = c.status /\ Len(closed.calls) = Len(run.calls)
        /\ closed.seat = run.seat /\ c.status # "awaiting"
    BY <1>5, DecidedFacts DEF DecidedFrom, Closings
  <1>7. PICK new \in FiledRun : new = [run |-> closed, at |-> at]
    BY <1>6 DEF FiledRun
  <1>8. filed' = [filed EXCEPT ![r] = new]
    <2>1. filed' = [filed EXCEPT ![r] = [filed[r] EXCEPT !.run = Decided(RowOf(r), c)]]
      BY <1>2
    <2>2. Decided(RowOf(r), c) = closed
      BY <1>3, <1>4, <1>5 DEF RowOf
    <2>3. [filed[r] EXCEPT !.run = closed] = new
      BY <1>3, <1>4, <1>7
    <2> QED BY <2>1, <2>2, <2>3
  <1>9. new # None /\ new.run = closed /\ new.at = at
    BY <1>7, RunsAssumption
  <1>10. filed'[r] = new /\ \A q \in RunId : q # r => filed'[q] = filed[q]
    BY <1>1, <1>8 DEF RunsTypeOK
  <1>11. RunsTypeOK'
    BY <1>1, <1>2, <1>8 DEF RunsTypeOK
  <1>12. RowOf(r) = run /\ RowOf(r)' = closed
    BY <1>3, <1>4, <1>9, <1>10 DEF RowOf
  <1>13. Handled(r)'
    <2>1. FiledAsEnded(r) /\ ended[r] # None /\ EndedWell(r)
      BY <1>1, <1>2 DEF Handled, FiledAsEnded
    <2>2. ended[r] \in RunRecord
      BY <1>1, <2>1 DEF RunsTypeOK
    <2>3. run = ended[r] /\ ended[r].status = "awaiting"
      <3>1. ASSUME NEW d \in Closings, run = Decided(ended[r], d) PROVE FALSE
        <4>1. run.status = d.status
          BY <2>2, <3>1, DecidedFacts DEF DecidedFrom
        <4> QED BY <1>2, <1>12, <4>1 DEF Closings
      <3>2. run = ended[r]
        BY <1>12, <2>1, <3>1 DEF FiledAsEnded, AsRecorded
      <3> QED BY <1>2, <1>12, <3>2
    <2>4. closed = Decided(ended[r], c)
      BY <1>5, <2>3
    <2>5. FiledAsEnded(r)'
      BY <1>2, <1>12, <2>1, <2>3, <2>4 DEF FiledAsEnded, AsRecorded
    <2>6. EndedWell(r)'
      BY <1>2, <2>1 DEF EndedWell, MayBeRefused
    <2>7. /\ r \notin air /\ heard[r] = heard[r]' /\ said[r] = said[r]'
          /\ said[r] = "card" => heard[r] = "stored" /\ ended[r].status = "awaiting"
          /\ said[r] # None => (said[r] = "failed" <=> ended[r].status = "failed")
      BY <1>1, <1>2 DEF Handled
    <2>8. filed'[r] # None /\ ended'[r] = ended[r] /\ r \notin air'
      BY <1>2, <1>9, <1>10, <2>7
    <2> QED BY <1>2, <2>1, <2>5, <2>6, <2>7, <2>8 DEF Handled
  <1>14. ASSUME NEW q \in RunId, q # r PROVE Handled(q)'
    <2>1. SameOf(q)
      BY <1>1, <1>2, <1>10, <1>14 DEF SameOf
    <2> QED BY <1>1, <2>1, RunIsUntouched
  <1>15. WalkShowsRuns'
    <2>1. SUFFICES ASSUME walk # None PROVE WalkShowsRuns'
      BY <1>2 DEF WalkShowsRuns
    <2>2. walk \in RunWalk
      BY <1>1, <2>1 DEF RunsTypeOK
    <2>3. \A n \in DOMAIN walk.lines : walk.lines[n].id \in RunId
      <3>1. PICK lines \in Seq(RunLines) : lines = walk.lines
        BY <2>2 DEF RunWalk
      <3>2. \A n \in DOMAIN lines : lines[n] \in RunLines
        OBVIOUS
      <3> QED BY <3>1, <3>2 DEF RunLines
    <2>4. \A q \in RunId : filed[q] # None => filed'[q] # None
      BY <1>9, <1>10
    <2>5. \A q \in RunId : Len(RowOf(q)'.calls) = Len(RowOf(q).calls)
      BY <1>6, <1>10, <1>12 DEF RowOf
    <2>6. \A q \in RunId : filed'[q].at = filed[q].at
      BY <1>3, <1>4, <1>9, <1>10
    <2>7. \A q \in RunId : RunBefore(q, walk.cursor)' <=> RunBefore(q, walk.cursor)
      BY <1>2, <2>6 DEF RunBefore
    <2>8. \A q \in RunId : q # r => RowOf(q)' = RowOf(q)
      BY <1>10 DEF RowOf
    <2>9. ASSUME NEW n \in DOMAIN walk'.lines, NEW q, q = walk'.lines[n].id
          PROVE  /\ filed'[q] # None /\ walk'.lines[n].count = Len(RowOf(q)'.calls)
                 /\ walk'.cursor # None => ~RunBefore(q, walk.cursor)'
      BY <1>1, <1>2, <2>1, <2>3, <2>4, <2>5, <2>7, <2>9 DEF WalkShowsRuns
    <2>10. ASSUME NEW q \in walk'.there
           PROVE  /\ filed'[q] # None /\ (RowOf(q)'.status = "awaiting" => RunFits(q, walk.filter)')
                  /\ RunFits(q, walk.filter)' =>
                        \/ \E n \in DOMAIN walk'.lines : walk'.lines[n].id = q
                        \/ walk'.cursor # None /\ RunBefore(q, walk.cursor)'
      <3>1. q \in RunId /\ q \in walk.there
        BY <1>2, <2>2, <2>10 DEF RunWalk
      <3>2. /\ filed[q] # None /\ (RowOf(q).status = "awaiting" => RunFits(q, walk.filter))
            /\ RunFits(q, walk.filter) =>
                  \/ \E n \in DOMAIN walk.lines : walk.lines[n].id = q
                  \/ walk.cursor # None /\ RunBefore(q, walk.cursor)
        BY <1>1, <2>1, <3>1 DEF WalkShowsRuns
      <3>3. filed'[q] # None /\ (RunBefore(q, walk.cursor)' <=> RunBefore(q, walk.cursor))
        BY <2>4, <2>7, <3>1, <3>2
      <3>4. CASE q = r
        <4>1. RunFits(q, walk.filter)
          BY <1>2, <3>2, <3>4
        <4>2. RowOf(q)'.status # "awaiting"
          BY <1>6, <1>12, <3>4
        <4> QED BY <1>2, <3>2, <3>3, <4>1, <4>2
      <3>5. CASE q # r
        <4>1. RowOf(q)' = RowOf(q)
          BY <2>8, <3>1, <3>5
        <4>2. RunFits(q, walk.filter)' <=> RunFits(q, walk.filter)
          BY <1>2, <4>1 DEF RunFits
        <4> QED BY <1>2, <3>2, <3>3, <4>1, <4>2
      <3> QED BY <3>4, <3>5
    <2>11. \A m, n \in DOMAIN walk'.lines : walk'.lines[m].id = walk'.lines[n].id => m = n
      BY <1>1, <1>2, <2>1 DEF WalkShowsRuns
    <2> QED BY <1>2, <2>9, <2>10, <2>11 DEF WalkShowsRuns
  <1> QED BY <1>11, <1>13, <1>14, <1>15 DEF RunsInductive, RunsAreHandled

\* What is known of the runs stays known while only the list changes.
LEMMA RunsAreUntouched ==
    ASSUME RunsInductive, UNCHANGED <<ended, lost, air, heard, said, filed>>
    PROVE  \A q \in RunId : Handled(q)'
  <1>1. \A q \in RunId : Handled(q) /\ SameOf(q)
    BY DEF RunsInductive, RunsAreHandled, SameOf
  <1> QED BY <1>1, RunIsUntouched

\* A list opens with its first page.
LEMMA KeepsOpenRuns ==
    ASSUME RunsInductive, NEW f \in RunFilters, OpenRuns(f) PROVE RunsInductive'
  <1>1. RunsTypeOK
    BY DEF RunsInductive
  <1>2. PICK p : p = RunPage(f, None)
    OBVIOUS
  <1>3. /\ walk' = [filter |-> f, lines |-> p.lines, cursor |-> p.next, there |-> RunsFor(f)]
        /\ UNCHANGED <<ended, lost, air, heard, said, filed>>
    BY <1>2 DEF OpenRuns
  <1>4. PICK left : left = RunsLeft(f, None)
    OBVIOUS
  <1>5. left \in SUBSET FiledRuns /\ PageShows(left, p)
    BY <1>1, <1>2, <1>4, RunPageFacts
  <1>6. left = RunsFor(f)
    BY <1>4 DEF RunsLeft
  <1>7. p.lines \in Seq(RunLines) /\ p.next \in RunCursor \cup {None} /\ left \in SUBSET RunId
    BY <1>5 DEF PageShows, FiledRuns
  <1>8. walk' \in RunWalk
    BY <1>3, <1>6, <1>7 DEF RunWalk
  <1>9. RunsTypeOK'
    BY <1>1, <1>3, <1>8 DEF RunsTypeOK
  <1>10. /\ walk'.filter = f /\ walk'.lines = p.lines /\ walk'.cursor = p.next /\ walk'.there = left
         /\ DOMAIN p.lines = 1..Len(p.lines)
    BY <1>3, <1>6, <1>7
  <1>11. ASSUME NEW n \in DOMAIN walk'.lines, NEW r, r = walk'.lines[n].id
         PROVE  /\ filed'[r] # None /\ walk'.lines[n].count = Len(RowOf(r)'.calls)
                /\ walk'.cursor # None => ~RunBefore(r, p.next)'
    <2>1. PICK q \in left : p.lines[n] = RunLine(q) /\ (p.next # None => ~RunBefore(q, p.next))
      BY <1>5, <1>10, <1>11 DEF PageShows
    <2>2. q \in FiledRuns
      BY <1>5
    <2>3. q = r /\ p.lines[n].count = Len(RowOf(r).calls) /\ filed[r] # None
      BY <1>1, <1>10, <1>11, <2>1, <2>2, LineFacts DEF FiledRuns
    <2>4. filed' = filed
      BY <1>3
    <2> QED BY <1>10, <2>1, <2>3, <2>4 DEF RowOf, RunBefore
  <1>12. ASSUME NEW r \in walk'.there
         PROVE  /\ filed'[r] # None /\ (RowOf(r)'.status = "awaiting" => RunFits(r, f)')
                /\ RunFits(r, f)' =>
                      \/ \E n \in DOMAIN walk'.lines : walk'.lines[n].id = r
                      \/ walk'.cursor # None /\ RunBefore(r, p.next)'
    <2>1. r \in left /\ filed[r] # None /\ RunFits(r, f)
      BY <1>6, <1>10, <1>12 DEF RunsFor
    <2>2. (\E n \in 1..Len(p.lines) : p.lines[n].id = r) \/ (p.next # None /\ RunBefore(r, p.next))
      BY <1>5, <2>1 DEF PageShows
    <2>3. filed' = filed
      BY <1>3
    <2> QED BY <1>10, <2>1, <2>2, <2>3 DEF RowOf, RunBefore, RunFits
  <1>13. \A m, n \in DOMAIN walk'.lines : walk'.lines[m].id = walk'.lines[n].id => m = n
    BY <1>5, <1>10 DEF PageShows
  <1>14. WalkShowsRuns'
    BY <1>10, <1>11, <1>12, <1>13 DEF WalkShowsRuns, RunBefore, RunFits
  <1> QED BY <1>3, <1>9, <1>14, RunsAreUntouched DEF RunsInductive, RunsAreHandled

\* The next page is drawn below the last: what it shows was not shown yet.
LEMMA KeepsMoreRuns ==
    ASSUME RunsInductive, MoreRuns PROVE RunsInductive'
  <1>1. RunsTypeOK /\ WalkShowsRuns /\ walk # None /\ walk.cursor # None
    BY DEF RunsInductive, MoreRuns
  <1>2. walk \in RunWalk
    BY <1>1 DEF RunsTypeOK
  <1>3. PICK f \in RunFilters, above \in Seq(RunLines), after \in RunCursor, there \in SUBSET RunId :
           f = walk.filter /\ above = walk.lines /\ after = walk.cursor /\ there = walk.there
    BY <1>1, <1>2 DEF RunWalk
  <1>4. PICK p : p = RunPage(f, after)
    OBVIOUS
  <1>5. walk' = [walk EXCEPT !.lines = above \o p.lines, !.cursor = p.next]
        /\ UNCHANGED <<ended, lost, air, heard, said, filed>>
    BY <1>3, <1>4 DEF MoreRuns
  <1>6. PICK left : left = RunsLeft(f, after)
    OBVIOUS
  <1>7. left \in SUBSET FiledRuns /\ PageShows(left, p)
    BY <1>1, <1>4, <1>6, RunPageFacts
  <1>8. PICK below \in Seq(RunLines), next \in RunCursor \cup {None} : below = p.lines /\ next = p.next
    BY <1>7 DEF PageShows
  <1>9. PICK lines \in Seq(RunLines) : lines = above \o below
    <2>1. above \o below \in Seq(RunLines)
      BY ConcatProperties
    <2> QED BY <2>1
  <1>10. /\ walk' = [filter |-> f, lines |-> lines, cursor |-> next, there |-> there]
         /\ walk' \in RunWalk /\ walk' # None
    BY <1>2, <1>3, <1>5, <1>8, <1>9, RunsAssumption DEF RunWalk
  <1>11. walk'.filter = f /\ walk'.lines = lines /\ walk'.cursor = next /\ walk'.there = there
    BY <1>10
  <1>12. RunsTypeOK'
    BY <1>1, <1>5, <1>10 DEF RunsTypeOK
  <1>13. /\ Len(lines) = Len(above) + Len(below) /\ DOMAIN lines = 1..Len(lines)
         /\ \A k \in 1..Len(above) : lines[k] = above[k]
         /\ \A k \in 1..Len(below) : lines[Len(above) + k] = below[k]
    BY <1>9
  <1>14. \A k \in 1..Len(lines) : k \in 1..Len(above) \/ \E l \in 1..Len(below) : k = Len(above) + l
    <2>1. ASSUME NEW k \in 1..Len(lines), ~(k \in 1..Len(above)) PROVE \E l \in 1..Len(below) : k = Len(above) + l
      <3>1. k - Len(above) \in 1..Len(below) /\ k = Len(above) + (k - Len(above))
        BY <1>13, <2>1
      <3> QED BY <3>1
    <2> QED BY <2>1
  <1>15. ASSUME NEW k \in 1..Len(above)
         PROVE  /\ above[k].id \in FiledRuns /\ above[k].count = Len(RowOf(above[k].id).calls)
                /\ ~RunBefore(above[k].id, after)
    <2>1. above[k].id \in RunId
      <3>1. above[k] \in RunLines
        OBVIOUS
      <3> QED BY <3>1 DEF RunLines
    <2>2. k \in DOMAIN walk.lines
      BY <1>3
    <2> QED BY <1>1, <1>3, <2>1, <2>2 DEF WalkShowsRuns, FiledRuns
  <1>16. ASSUME NEW k \in 1..Len(below)
         PROVE  /\ below[k].id \in left /\ below[k].count = Len(RowOf(below[k].id).calls)
                /\ next # None => ~RunBefore(below[k].id, next)
    <2>1. PICK r \in left : below[k] = RunLine(r) /\ (next # None => ~RunBefore(r, next))
      BY <1>7, <1>8 DEF PageShows
    <2>2. r \in FiledRuns
      BY <1>7
    <2> QED BY <1>1, <2>1, <2>2, LineFacts
  <1>17. ASSUME NEW r \in left PROVE RunBefore(r, after)
    BY <1>6, RunsAssumption DEF RunsLeft
  <1>18. ASSUME NEW r \in FiledRuns, next # None, RunBefore(r, next) PROVE RunBefore(r, after)
    <2>1. PICK l \in left : next = [at |-> filed[l].at, id |-> l]
      BY <1>7, <1>8, <1>18 DEF PageShows
    <2>2. l \in FiledRuns /\ RunBefore(l, after)
      BY <1>7, <1>17
    <2>3. RunNewer(l, r)
      BY <1>1, <1>18, <2>1, <2>2, CursorOfRun
    <2> QED BY <1>1, <2>2, <2>3, BelowIsBelow
  <1>19. ASSUME NEW k \in 1..Len(lines)
         PROVE  /\ filed[lines[k].id] # None /\ lines[k].count = Len(RowOf(lines[k].id).calls)
                /\ next # None => ~RunBefore(lines[k].id, next)
    <2>1. CASE k \in 1..Len(above)
      <3>1. lines[k] = above[k]
        BY <1>13, <2>1
      <3> QED BY <1>15, <1>18, <2>1, <3>1 DEF FiledRuns
    <2>2. CASE \E l \in 1..Len(below) : k = Len(above) + l
      <3>1. PICK l \in 1..Len(below) : k = Len(above) + l
        BY <2>2
      <3>2. lines[k] = below[l]
        BY <1>13, <3>1
      <3>3. below[l].id \in FiledRuns
        BY <1>7, <1>16
      <3> QED BY <1>16, <3>2, <3>3 DEF FiledRuns
    <2> QED BY <1>14, <2>1, <2>2
  <1>20. ASSUME NEW m \in 1..Len(lines), NEW n \in 1..Len(lines), lines[m].id = lines[n].id PROVE m = n
    <2>1. \A k \in 1..Len(above), l \in 1..Len(below) : above[k].id # below[l].id
      BY <1>15, <1>16, <1>17
    <2>2. \A k, l \in 1..Len(above) : above[k].id = above[l].id => k = l
      <3>1. DOMAIN walk.lines = 1..Len(above)
        BY <1>3
      <3> QED BY <1>1, <1>3, <3>1 DEF WalkShowsRuns
    <2>3. \A k, l \in 1..Len(below) : below[k].id = below[l].id => k = l
      BY <1>7, <1>8 DEF PageShows
    <2>4. CASE m \in 1..Len(above) /\ n \in 1..Len(above)
      <3>1. lines[m] = above[m] /\ lines[n] = above[n]
        BY <1>13, <2>4
      <3> QED BY <1>20, <2>2, <2>4, <3>1
    <2>5. CASE m \in 1..Len(above) /\ \E l \in 1..Len(below) : n = Len(above) + l
      <3>1. PICK l \in 1..Len(below) : n = Len(above) + l
        BY <2>5
      <3>2. lines[m] = above[m] /\ lines[n] = below[l]
        BY <1>13, <2>5, <3>1
      <3> QED BY <1>20, <2>1, <2>5, <3>2
    <2>6. CASE n \in 1..Len(above) /\ \E l \in 1..Len(below) : m = Len(above) + l
      <3>1. PICK l \in 1..Len(below) : m = Len(above) + l
        BY <2>6
      <3>2. lines[n] = above[n] /\ lines[m] = below[l]
        BY <1>13, <2>6, <3>1
      <3> QED BY <1>20, <2>1, <2>6, <3>2
    <2>7. CASE (\E l \in 1..Len(below) : m = Len(above) + l) /\ \E l \in 1..Len(below) : n = Len(above) + l
      <3>1. PICK k \in 1..Len(below), l \in 1..Len(below) : m = Len(above) + k /\ n = Len(above) + l
        BY <2>7
      <3>2. lines[m] = below[k] /\ lines[n] = below[l]
        BY <1>13, <3>1
      <3>3. k = l
        BY <1>20, <2>3, <3>2
      <3> QED BY <3>1, <3>3
    <2> QED BY <1>14, <2>4, <2>5, <2>6, <2>7
  <1>21. ASSUME NEW r \in there
         PROVE  /\ filed[r] # None /\ (RowOf(r).status = "awaiting" => RunFits(r, f))
                /\ RunFits(r, f) =>
                      (\E n \in 1..Len(lines) : lines[n].id = r) \/ (next # None /\ RunBefore(r, next))
    <2>1. /\ filed[r] # None /\ (RowOf(r).status = "awaiting" => RunFits(r, f))
          /\ RunFits(r, f) => (\E n \in DOMAIN above : above[n].id = r) \/ RunBefore(r, after)
      BY <1>1, <1>3 DEF WalkShowsRuns
    <2>2. ASSUME NEW n \in DOMAIN above, above[n].id = r PROVE \E k \in 1..Len(lines) : lines[k].id = r
      <3>1. n \in 1..Len(above) /\ n \in 1..Len(lines)
        BY <1>13
      <3> QED BY <1>13, <2>2, <3>1
    <2>3. ASSUME RunFits(r, f), RunBefore(r, after), ~(next # None /\ RunBefore(r, next))
          PROVE  \E k \in 1..Len(lines) : lines[k].id = r
      <3>1. r \in left
        BY <1>6, <2>1, <2>3 DEF RunsLeft, RunsFor
      <3>2. PICK l \in 1..Len(below) : below[l].id = r
        BY <1>7, <1>8, <2>3, <3>1 DEF PageShows
      <3>3. Len(above) + l \in 1..Len(lines) /\ lines[Len(above) + l] = below[l]
        BY <1>13
      <3> QED BY <3>2, <3>3
    <2> QED BY <2>1, <2>2, <2>3
  <1>22. WalkShowsRuns'
    <2>1. filed' = filed
      BY <1>5
    <2>2. \A m, n \in DOMAIN walk'.lines : walk'.lines[m].id = walk'.lines[n].id => m = n
      BY <1>11, <1>13, <1>20
    <2>3. ASSUME NEW n \in DOMAIN walk'.lines, NEW r, r = walk'.lines[n].id
          PROVE  /\ filed'[r] # None /\ walk'.lines[n].count = Len(RowOf(r)'.calls)
                 /\ walk'.cursor # None => ~RunBefore(r, next)'
      BY <1>11, <1>13, <1>19, <2>1, <2>3 DEF RowOf, RunBefore
    <2>4. ASSUME NEW r \in walk'.there
          PROVE  /\ filed'[r] # None /\ (RowOf(r)'.status = "awaiting" => RunFits(r, f)')
                 /\ RunFits(r, f)' =>
                       \/ \E n \in DOMAIN walk'.lines : walk'.lines[n].id = r
                       \/ walk'.cursor # None /\ RunBefore(r, next)'
      BY <1>11, <1>13, <1>21, <2>1, <2>4 DEF RowOf, RunBefore, RunFits
    <2> QED BY <1>11, <2>2, <2>3, <2>4 DEF WalkShowsRuns, RunBefore, RunFits
  <1> QED BY <1>5, <1>12, <1>22, RunsAreUntouched DEF RunsInductive, RunsAreHandled

LEMMA RunsStep == RunsInductive /\ [RunsNext]_run_vars => RunsInductive'
  <1> SUFFICES ASSUME RunsInductive, [RunsNext]_run_vars PROVE RunsInductive'
    OBVIOUS
  <1>1. ASSUME NEW r \in RunId, \/ EndCapture(r) \/ EndProposal(r) \/ EndClassify(r) \/ EndChat(r)
                                \/ EndAsk(r) \/ EndInsight(r) \/ EndCall(r)
        PROVE  RunsInductive'
    <2>1. EndsWell(r)
      BY <1>1, SeatsEndWell
    <2> QED BY <2>1, KeepsEnd
  <1>2. ASSUME NEW r \in RunId, NEW at \in RunMoment, StoreRun(r, at) PROVE RunsInductive'
    BY <1>2, KeepsStoreRun
  <1>3. ASSUME NEW r \in RunId, HearNothing(r) PROVE RunsInductive'
    BY <1>3, KeepsHearNothing
  <1>4. ASSUME NEW r \in RunId, TellUser(r) PROVE RunsInductive'
    BY <1>4, KeepsTellUser
  <1>5. ASSUME NEW r \in RunId, NEW c \in Closings, CloseRun(r, c) PROVE RunsInductive'
    BY <1>5, KeepsCloseRun
  <1>6. ASSUME NEW f \in RunFilters, OpenRuns(f) PROVE RunsInductive'
    BY <1>6, KeepsOpenRuns
  <1>7. CASE MoreRuns
    BY <1>7, KeepsMoreRuns
  <1>8. CASE UNCHANGED run_vars
    <2>1. walk' = walk /\ filed' = filed /\ UNCHANGED <<ended, lost, air, heard, said, filed>>
      BY <1>8 DEF run_vars
    <2>2. RunsTypeOK'
      BY <2>1 DEF RunsInductive, RunsTypeOK
    <2>3. WalkShowsRuns'
      BY <2>1, WalkIsUntouched DEF RunsInductive, RunsTypeOK, RunWalk
    <2> QED BY <2>1, <2>2, <2>3, RunsAreUntouched DEF RunsInductive, RunsAreHandled
  <1> QED BY <1>1, <1>2, <1>3, <1>4, <1>5, <1>6, <1>7, <1>8 DEF RunsNext

\* Whatever runs end in, are filed, decided and listed, what was heard, told and shown of them is
\* what the log has of them.
THEOREM RunsInvariant == RunsSpec => []RunsInductive
  BY RunsStart, RunsStep, PTL DEF RunsSpec

\* A card is shown only for a proposal that is in the log with its write last; the api refuses no
\* run but a chat of a call with no fitting name, of more calls than it takes or of a numbered id
\* that meets another, and a report that dropped a step and planned again; a row is what its seat recorded, or what one decision
\* made of a proposal, whose write has a result when it is done and not before; and a list read
\* to its end shows every run that was there once (propose_record.py, RunWrite, SqlRunLog).
THEOREM RunsStayKept == RunsSpec => []RunsAreKept
  <1>1. ASSUME RunsInductive PROVE RunsAreKept
    <2>1. RunsTypeOK /\ WalkShowsRuns /\ \A r \in RunId : Handled(r)
      BY <1>1 DEF RunsInductive, RunsAreHandled
    <2>2. ASSUME NEW r \in RunId, filed[r] # None
          PROVE  /\ AsRecorded(r) /\ UniqueCalls(RowOf(r).calls)
                 /\ ended[r].status = "awaiting" =>
                        /\ RowOf(r).status = "done" <=> Last(RowOf(r).calls).result # None
                        /\ EndsWithWrite(RowOf(r).calls)
                 /\ ended[r].status = "failed" <=> RowOf(r).status = "failed" /\ RowOf(r).stop # "rejected"
      <3>1. FiledAsEnded(r)
        BY <2>1, <2>2 DEF Handled
      <3>2. PICK run \in RunRecord : run = ended[r]
        BY <2>1, <3>1 DEF RunsTypeOK, FiledAsEnded
      <3>3. UniqueCalls(run.calls) /\ AsRecorded(r)
        BY <3>1, <3>2 DEF FiledAsEnded, Accepted
      <3>4. /\ run.stop \in RecordedStop
            /\ run.status = "awaiting" => EndsWithWrite(run.calls) /\ Last(run.calls).result = None
        BY <2>1, <3>1, <3>2 DEF Handled, EndedWell, FiledAsEnded
      <3>5. run.stop # "rejected"
        BY <3>4 DEF RecordedStop
      <3>6. CASE RowOf(r) = run
        BY <3>2, <3>3, <3>4, <3>5, <3>6
      <3>7. ASSUME run.status = "awaiting", NEW c \in Closings, RowOf(r) = Decided(run, c)
            PROVE  /\ UniqueCalls(RowOf(r).calls) /\ EndsWithWrite(RowOf(r).calls)
                   /\ RowOf(r).status = "done" <=> Last(RowOf(r).calls).result # None
                   /\ ~(RowOf(r).status = "failed" /\ RowOf(r).stop # "rejected")
        <4>1. PICK new : new = RowOf(r) /\ DecidedFrom(run, c, new)
          BY <3>7, DecidedFacts
        <4>2. PICK before, calls : before = run.calls /\ calls = new.calls
          OBVIOUS
        <4>3. /\ Len(calls) = Len(before) /\ DOMAIN calls = DOMAIN before
              /\ \A n \in DOMAIN before : calls[n].id = before[n].id /\ calls[n].tool = before[n].tool
          BY <4>1, <4>2 DEF DecidedFrom
        <4>4. UniqueCalls(calls)
          <5>1. [n \in DOMAIN calls |-> calls[n].id] = [n \in DOMAIN before |-> before[n].id]
            BY <4>3
          <5> QED BY <3>3, <4>2, <5>1 DEF UniqueCalls
        <4>5. EndsWithWrite(before) /\ Last(before).result = None
          BY <3>4, <3>7, <4>2
        <4>6. calls # <<>> /\ Last(calls).result = IF c.status = "done" THEN "entry" ELSE None
          BY <4>1, <4>2, <4>5 DEF DecidedFrom, EndsWithWrite
        <4>7. EndsWithWrite(calls)
          <5>1. PICK given \in Seq(RunCall) : given = before
            BY <4>2 DEF RunRecord
          <5>2. Len(before) \in DOMAIN before
            BY <4>5, <5>1 DEF EndsWithWrite
          <5> QED BY <4>3, <4>5, <4>6, <5>2 DEF EndsWithWrite, Last
        <4>8. /\ new.status = c.status /\ new.stop = c.stop /\ None # "entry"
              /\ c.status = "failed" => c.stop = "rejected"
          BY <4>1, RunsAssumption DEF DecidedFrom, Closings
        <4> QED BY <4>1, <4>2, <4>4, <4>6, <4>7, <4>8
      <3> QED BY <3>2, <3>3, <3>6, <3>7 DEF AsRecorded
    <2>3. ASSUME NEW r \in RunId, said[r] = "card" PROVE filed[r] # None /\ EndsWithWrite(RowOf(r).calls)
      <3>1. filed[r] # None /\ ended[r].status = "awaiting" /\ ended[r] # None
        BY <2>1, <2>3, RunsAssumption DEF Handled
      <3> QED BY <2>2, <3>1
    <2>4. ASSUME NEW r \in RunId, ended[r] # None, r \notin air, heard[r] # "nothing", filed[r] = None
          PROVE  MayBeRefused(r)
      BY <2>1, <2>4 DEF Handled, EndedWell
    <2>5. ASSUME NEW r \in RunId, filed[r] # None
          PROVE  said[r] = "failed" <=>
                     (said[r] # None /\ RowOf(r).status = "failed" /\ RowOf(r).stop # "rejected")
      <3>1. said[r] # None => (said[r] = "failed" <=> ended[r].status = "failed")
        BY <2>1 DEF Handled
      <3>2. None # "failed"
        BY RunsAssumption
      <3> QED BY <2>2, <2>5, <3>1, <3>2
    <2>6. ASSUME walk # None, NEW r \in RunId
          PROVE  LinesOf(r) <= 1 /\ ((\E n \in DOMAIN walk.lines : walk.lines[n].id = r) => LinesOf(r) = 1)
      <3> DEFINE at == {n \in DOMAIN walk.lines : walk.lines[n].id = r}
      <3>1. \A m, n \in at : m = n
        BY <2>1, <2>6 DEF WalkShowsRuns
      <3>2. at = {} \/ \E n \in at : at = {n}
        BY <3>1
      <3> HIDE DEF at
      <3>3. Cardinality(at) <= 1 /\ (at # {} => Cardinality(at) = 1)
        <4>1. ASSUME at = {} PROVE Cardinality(at) = 0
          <5>1. Cardinality({}) = 0
            BY FS_EmptySet
          <5> QED BY <4>1, <5>1
        <4>2. ASSUME NEW n, at = {n} PROVE Cardinality(at) = 1
          <5>1. Cardinality({n}) = 1
            BY FS_Singleton
          <5> QED BY <4>2, <5>1
        <4> QED BY <3>2, <4>1, <4>2
      <3>4. LinesOf(r) = Cardinality(at) /\ ((\E n \in DOMAIN walk.lines : walk.lines[n].id = r) => at # {})
        BY DEF LinesOf, at
      <3> QED BY <3>3, <3>4
    <2>7. walk # None =>
            /\ walk.cursor = None =>
                  \A r \in walk.there : RunFits(r, walk.filter) => \E n \in DOMAIN walk.lines : walk.lines[n].id = r
            /\ \A n \in DOMAIN walk.lines : walk.lines[n].count = Len(RowOf(walk.lines[n].id).calls)
            /\ walk.there \subseteq RunId
      BY <2>1 DEF WalkShowsRuns, RunsTypeOK, RunWalk
    <2> QED BY <2>2, <2>3, <2>4, <2>5, <2>6, <2>7 DEF RunsAreKept
  <1> QED BY <1>1, RunsInvariant, PTL

-----------------------------------------------------------------------------
(* The schema: revisions *)

\* What a revision fills in is what the program asks for.
LEMMA FillIsSearchable ==
    ASSUME NEW t
    PROVE  LET Fill(e) == [e EXCEPT !.hash = SearchableText(e.name)] IN
           SearchableTextUp(t) = OnEntries(t, Fill)
  BY DEF SearchableTextUp, OnEntries, SearchableText

\* A column of a row may be filled, dated or dropped.
SameBut(e, row, hash, updated) ==
    /\ row \in EntryRows /\ row.name = e.name /\ row.created = e.created
    /\ row.hash = hash /\ row.updated = updated

LEMMA DatedEntry ==
    ASSUME NEW e \in EntryRows, NEW updated \in Nat \cup {None}
    PROVE  SameBut(e, [e EXCEPT !.updated = updated], e.hash, updated)
  BY DEF EntryRows, SameBut

LEMMA FilledEntry ==
    ASSUME NEW e \in EntryRows, NEW hash, hash \in {SearchableText(e.name), None}
    PROVE  SameBut(e, [e EXCEPT !.hash = hash], hash, e.updated)
  <1>1. hash \in {SearchableText(name) : name \in ShopName} \cup {None}
    BY DEF EntryRows
  <1> QED BY <1>1 DEF EntryRows, SameBut

\* Rows that are given in place of the rows that are there.
Replaced(t, u, rows) ==
    /\ rows \in [EntryId -> EntryRows \cup {None}]
    /\ u.entries = rows /\ u.limits = t.limits /\ u.runs = t.runs /\ u.catalog = t.catalog
    /\ u.reports = t.reports /\ u \in SchemaTables

LEMMA EntriesReplaced ==
    ASSUME NEW t \in SchemaTables, NEW rows \in [EntryId -> EntryRows \cup {None}]
    PROVE  Replaced(t, [t EXCEPT !.entries = rows], rows)
  BY DEF Replaced, SchemaTables

\* The names stay when every row keeps its own.
LEMMA NamesStay ==
    ASSUME NEW t \in SchemaTables, NEW u \in SchemaTables,
           \A i \in EntryId : t.entries[i] = None <=> u.entries[i] = None,
           \A i \in EntryId : t.entries[i] # None => t.entries[i].name = u.entries[i].name
    PROVE  NamesIn(t) = NamesIn(u) /\ There(t) = There(u)
  BY DEF NamesIn, There

\* Rows that keep their names and the moment they were made.
SameRows(t, rows) ==
    /\ rows \in [EntryId -> EntryRows \cup {None}]
    /\ \A i \in EntryId : t.entries[i] = None <=> rows[i] = None
    /\ \A i \in EntryId : t.entries[i] # None => SameBut(t.entries[i], rows[i], rows[i].hash, rows[i].updated)

LEMMA SameRowsStay ==
    ASSUME NEW t \in SchemaTables, NEW rows, SameRows(t, rows), NEW u, u = [t EXCEPT !.entries = rows]
    PROVE  Replaced(t, u, rows) /\ NamesIn(t) = NamesIn(u) /\ There(t) = There(u)
  <1>1. Replaced(t, u, rows)
    BY EntriesReplaced DEF SameRows
  <1>2. u \in SchemaTables /\ u.entries = rows
    BY <1>1 DEF Replaced
  <1>3. /\ \A i \in EntryId : t.entries[i] = None <=> u.entries[i] = None
        /\ \A i \in EntryId : t.entries[i] # None => t.entries[i].name = u.entries[i].name
    BY <1>2 DEF SameRows, SameBut
  <1> QED BY ONLY <1>1, <1>2, <1>3, t \in SchemaTables, NamesStay

\* The rows of tables that fit are typed.
LEMMA RowsOfTables ==
    ASSUME NEW t \in SchemaTables
    PROVE  /\ t.entries \in [EntryId -> EntryRows \cup {None}]
           /\ \A i \in There(t) : i \in EntryId /\ t.entries[i] # None /\ t.entries[i] \in EntryRows
           /\ \A i \in EntryId \ There(t) : t.entries[i] = None
           /\ t # None
  BY SchemaAssumption DEF SchemaTables, There

LEMMA FilledFits ==
    ASSUME NEW w \in Nat, NEW o, NEW t, TablesFit(t, 3, w, o)
    PROVE  TablesFit(SearchableTextUp(t), 4, w, o) /\ SearchableTextUp(t).runs = t.runs
  <1> DEFINE rows == [i \in EntryId |-> IF t.entries[i] = None THEN None
                                        ELSE [t.entries[i] EXCEPT !.hash = SearchableText(t.entries[i].name)]]
  <1>1. t \in SchemaTables
    BY DEF TablesFit
  <1>2. ASSUME NEW i \in EntryId, t.entries[i] # None
        PROVE  SameBut(t.entries[i], rows[i], SearchableText(t.entries[i].name), t.entries[i].updated)
    <2>1. PICK e \in EntryRows : e = t.entries[i]
      BY <1>1, <1>2, RowsOfTables
    <2>2. rows[i] = [e EXCEPT !.hash = SearchableText(e.name)]
      BY <1>2, <2>1
    <2> HIDE DEF rows
    <2> QED BY <2>1, <2>2, FilledEntry
  <1>3. SameRows(t, rows)
    BY <1>2, SchemaAssumption DEF SameRows, SameBut
  <1>4. SearchableTextUp(t) = [t EXCEPT !.entries = rows]
    BY FillIsSearchable DEF OnEntries
  <1> HIDE DEF rows
  <1>5. PICK u : u = SearchableTextUp(t)
    OBVIOUS
  <1>6. Replaced(t, u, rows) /\ NamesIn(t) = NamesIn(u) /\ There(t) = There(u)
    BY <1>1, <1>3, <1>4, <1>5, SameRowsStay
  <1>7. ASSUME NEW i \in There(u) PROVE RowFits(u.entries[i], 4, w)
    <2>1. i \in EntryId /\ t.entries[i] # None /\ u.entries[i] = rows[i] /\ RowFits(t.entries[i], 3, w)
      BY <1>1, <1>6, RowsOfTables DEF Replaced, TablesFit
    <2> QED BY <1>2, <2>1 DEF RowFits, SameBut
  <1> QED BY <1>5, <1>6, <1>7 DEF Replaced, TablesFit

LEMMA TextDropped ==
    ASSUME NEW w \in Nat, NEW o, NEW t, TablesFit(t, 4, w, o)
    PROVE  TablesFit(SearchableTextDown(t), 3, w, o)
  <1> DEFINE rows == [i \in EntryId |-> IF t.entries[i] = None THEN None
                                        ELSE [t.entries[i] EXCEPT !.hash = None]]
  <1>1. t \in SchemaTables
    BY DEF TablesFit
  <1>2. ASSUME NEW i \in EntryId, t.entries[i] # None
        PROVE  SameBut(t.entries[i], rows[i], None, t.entries[i].updated)
    <2>1. PICK e \in EntryRows : e = t.entries[i]
      BY <1>1, <1>2, RowsOfTables
    <2>2. rows[i] = [e EXCEPT !.hash = None]
      BY <1>2, <2>1
    <2> HIDE DEF rows
    <2> QED BY <2>1, <2>2, FilledEntry
  <1>3. SameRows(t, rows)
    BY <1>2, SchemaAssumption DEF SameRows, SameBut
  <1>4. SearchableTextDown(t) = [t EXCEPT !.entries = rows]
    BY DEF SearchableTextDown, OnEntries
  <1> HIDE DEF rows
  <1>5. PICK u : u = SearchableTextDown(t)
    OBVIOUS
  <1>6. Replaced(t, u, rows) /\ NamesIn(t) = NamesIn(u) /\ There(t) = There(u)
    BY <1>1, <1>3, <1>4, <1>5, SameRowsStay
  <1>7. ASSUME NEW i \in There(u) PROVE RowFits(u.entries[i], 3, w)
    <2>1. i \in EntryId /\ t.entries[i] # None /\ u.entries[i] = rows[i] /\ RowFits(t.entries[i], 4, w)
      BY <1>1, <1>6, RowsOfTables DEF Replaced, TablesFit
    <2> QED BY <1>2, <2>1 DEF RowFits, SameBut
  <1> QED BY <1>5, <1>6, <1>7 DEF Replaced, TablesFit

LEMMA DatedFits ==
    ASSUME NEW w \in Nat, NEW o, NEW t, TablesFit(t, 7, w, o)
    PROVE  TablesFit(ReportCacheUp(t), 8, w, o) /\ ReportCacheUp(t).runs = t.runs
  <1> DEFINE rows == [i \in EntryId |-> IF t.entries[i] = None THEN None
                                        ELSE [t.entries[i] EXCEPT !.updated = t.entries[i].created]]
  <1>1. t \in SchemaTables
    BY DEF TablesFit
  <1>2. ASSUME NEW i \in EntryId, t.entries[i] # None
        PROVE  SameBut(t.entries[i], rows[i], t.entries[i].hash, t.entries[i].created)
    <2>1. PICK e \in EntryRows : e = t.entries[i]
      BY <1>1, <1>2, RowsOfTables
    <2>2. rows[i] = [e EXCEPT !.updated = e.created] /\ e.created \in Nat
      BY <1>2, <2>1 DEF EntryRows
    <2> HIDE DEF rows
    <2> QED BY <2>1, <2>2, DatedEntry
  <1>3. SameRows(t, rows)
    BY <1>2, SchemaAssumption DEF SameRows, SameBut
  <1>4. ReportCacheUp(t) = [t EXCEPT !.entries = rows]
    BY DEF ReportCacheUp, OnEntries
  <1> HIDE DEF rows
  <1>5. PICK u : u = ReportCacheUp(t)
    OBVIOUS
  <1>6. Replaced(t, u, rows) /\ NamesIn(t) = NamesIn(u) /\ There(t) = There(u)
    BY <1>1, <1>3, <1>4, <1>5, SameRowsStay
  <1>7. ASSUME NEW i \in There(u) PROVE RowFits(u.entries[i], 8, w)
    <2>1. i \in EntryId /\ t.entries[i] # None /\ u.entries[i] = rows[i] /\ RowFits(t.entries[i], 7, w)
      BY <1>1, <1>6, RowsOfTables DEF Replaced, TablesFit
    <2> QED BY <1>2, <2>1 DEF RowFits, SameBut
  <1>8. t.reports = {}
    BY DEF TablesFit
  <1> QED BY <1>5, <1>6, <1>7, <1>8 DEF Replaced, TablesFit

LEMMA ReportsDropped ==
    ASSUME NEW w \in Nat, NEW o, NEW t, TablesFit(t, 8, w, o)
    PROVE  TablesFit(ReportCacheDown(t), 7, w, o)
  <1> DEFINE rows == [i \in EntryId |-> IF t.entries[i] = None THEN None
                                        ELSE [t.entries[i] EXCEPT !.updated = None]]
  <1>1. t \in SchemaTables
    BY DEF TablesFit
  <1>2. ASSUME NEW i \in EntryId, t.entries[i] # None
        PROVE  SameBut(t.entries[i], rows[i], t.entries[i].hash, None)
    <2>1. PICK e \in EntryRows : e = t.entries[i]
      BY <1>1, <1>2, RowsOfTables
    <2>2. rows[i] = [e EXCEPT !.updated = None]
      BY <1>2, <2>1
    <2> HIDE DEF rows
    <2> QED BY <2>1, <2>2, DatedEntry
  <1>3. SameRows(t, rows)
    BY <1>2, SchemaAssumption DEF SameRows, SameBut
  <1>4. ReportCacheDown(t) = [[t EXCEPT !.entries = rows] EXCEPT !.reports = {}]
    BY DEF ReportCacheDown, OnEntries
  <1> HIDE DEF rows
  <1>5. PICK v : v = [t EXCEPT !.entries = rows]
    OBVIOUS
  <1>6. Replaced(t, v, rows) /\ NamesIn(t) = NamesIn(v) /\ There(t) = There(v)
    BY <1>1, <1>3, <1>5, SameRowsStay
  <1>7. PICK u : u = [v EXCEPT !.reports = {}]
    OBVIOUS
  <1>8. u \in SchemaTables /\ u.entries = rows /\ u.reports = {} /\ u.runs = t.runs
    BY <1>6, <1>7 DEF Replaced, SchemaTables
  <1>9. NamesIn(u) = NamesIn(t) /\ There(u) = There(t)
    BY <1>6, <1>8 DEF Replaced, NamesIn, There
  <1>10. ASSUME NEW i \in There(u) PROVE RowFits(u.entries[i], 7, w)
    <2>1. i \in EntryId /\ t.entries[i] # None /\ u.entries[i] = rows[i] /\ RowFits(t.entries[i], 8, w)
      BY <1>1, <1>8, <1>9, RowsOfTables DEF TablesFit
    <2> QED BY <1>2, <2>1 DEF RowFits, SameBut
  <1> QED BY <1>4, <1>5, <1>7, <1>8, <1>9, <1>10 DEF TablesFit

\* Tables that hold the same entries and reports.
SameEntries(t, u) == u \in SchemaTables /\ u.entries = t.entries /\ u.reports = t.reports

LEMMA SameEntriesFit ==
    ASSUME NEW k \in 1..10, NEW m \in 1..10, NEW w \in Nat, NEW o, NEW t, NEW u,
           TablesFit(t, k, w, o), SameEntries(t, u), k >= 4 <=> m >= 4, k >= 8 <=> m >= 8,
           m >= 6 => \A run \in u.runs : run.seat # None
    PROVE  TablesFit(u, m, w, o)
  <1>1. There(u) = There(t) /\ NamesIn(u) = NamesIn(t)
    BY DEF SameEntries, There, NamesIn
  <1>2. ASSUME NEW i \in There(u) PROVE RowFits(u.entries[i], m, w)
    BY <1>1 DEF SameEntries, TablesFit, RowFits
  <1>3. ASSUME m >= 8, NEW r \in u.reports PROVE ReportStands(r, u, w)
    BY <1>1, <1>3 DEF SameEntries, TablesFit, ReportStands
  <1>4. m < 8 => u.reports = {}
    BY DEF SameEntries, TablesFit
  <1> QED BY <1>1, <1>2, <1>3, <1>4 DEF SameEntries, TablesFit

\* Limits, runs and places of the reference rows may change beside them.
LEMMA OthersChange ==
    ASSUME NEW t \in SchemaTables, NEW limits \in [BudgetMonth -> {"absent", "none", "some"}],
           NEW runs \in SUBSET [seat : KeptSeat \cup {None}, status : KeptStatus],
           NEW catalog \in {"none", "unplaced", "placed"}
    PROVE  /\ SameEntries(t, [t EXCEPT !.limits = limits]) /\ [t EXCEPT !.limits = limits].runs = t.runs
           /\ SameEntries(t, [t EXCEPT !.runs = runs]) /\ [t EXCEPT !.runs = runs].runs = runs
           /\ SameEntries(t, [t EXCEPT !.catalog = catalog]) /\ [t EXCEPT !.catalog = catalog].runs = t.runs
  BY DEF SchemaTables, SameEntries

\* The empty tables fit before the first revision and after it.
LEMMA EmptyFits ==
    ASSUME NEW k \in {0, 1}, NEW w \in Nat
    PROVE  /\ InitialSchema \in SchemaTables /\ InitialSchema.runs = {} /\ There(InitialSchema) = {}
           /\ TablesFit(InitialSchema, k, w, NamesIn(InitialSchema))
  <1>1. InitialSchema \in SchemaTables
    BY DEF InitialSchema, SchemaTables
  <1>2. InitialSchema.runs = {} /\ InitialSchema.reports = {}
    BY DEF InitialSchema
  <1>3. There(InitialSchema) = {}
    BY DEF InitialSchema, There
  <1> QED BY <1>1, <1>2, <1>3 DEF TablesFit

\* A revision up keeps what the tables owe; the one that may be refused is 0006, where runs are kept.
LEMMA RevisionUpKeeps ==
    ASSUME NEW n \in 1..10, NEW w \in Nat, NEW o, NEW t, TablesFit(t, n - 1, w, o),
           n = 1 => o = NamesIn(InitialSchema)
    PROVE  \/ RevisionUp(t, n) = None /\ n = 6 /\ t.runs # {}
           \/ TablesFit(RevisionUp(t, n), n, w, o) /\ RevisionUp(t, n).runs = t.runs
  <1>1. t \in SchemaTables
    BY DEF TablesFit
  <1>2. CASE n = 1
    <2>1. t = InitialSchema /\ RevisionUp(t, n) = InitialSchema
      BY <1>2 DEF TablesFit, RevisionUp
    <2> QED BY <1>2, <2>1, EmptyFits
  <1>3. CASE n = 2
    <2>1. PICK catalog \in {"none", "unplaced", "placed"} :
              RevisionUp(t, n) = [t EXCEPT !.catalog = catalog]
      BY <1>3 DEF RevisionUp, DisplayOrderUp
    <2>2. PICK u : u = [t EXCEPT !.catalog = catalog]
      OBVIOUS
    <2>3. SameEntries(t, u) /\ u.runs = t.runs
      BY <1>1, <2>2, OthersChange DEF SchemaTables
    <2>4. TablesFit(u, n, w, o)
      BY <1>3, <2>3, SameEntriesFit
    <2> QED BY <2>1, <2>2, <2>3, <2>4
  <1>4. CASE n \in {3, 5, 7, 9, 10}
    <2>1. RevisionUp(t, n) = t
      BY <1>4 DEF RevisionUp
    <2>2. n >= 6 => \A run \in t.runs : run.seat # None
      BY <1>4 DEF TablesFit
    <2>3. SameEntries(t, t)
      BY <1>1 DEF SameEntries
    <2>4. TablesFit(t, n, w, o)
      BY <1>4, <2>2, <2>3, SameEntriesFit
    <2> QED BY <2>1, <2>4
  <1>5. CASE n = 4
    <2>1. RevisionUp(t, n) = SearchableTextUp(t)
      BY <1>5 DEF RevisionUp
    <2> QED BY <1>5, <2>1, FilledFits
  <1>6. CASE n = 6
    <2>1. CASE t.runs = {}
      <3>1. RevisionUp(t, n) = t
        BY <1>6, <2>1 DEF RevisionUp, AuditColumnsUp
      <3>2. SameEntries(t, t)
        BY <1>1 DEF SameEntries
      <3>3. TablesFit(t, n, w, o)
        BY <1>6, <2>1, <3>2, SameEntriesFit
      <3> QED BY <3>1, <3>3
    <2>2. CASE t.runs # {}
      BY <1>6, <2>2 DEF RevisionUp, AuditColumnsUp
    <2> QED BY <2>1, <2>2
  <1>7. CASE n = 8
    <2>1. RevisionUp(t, n) = ReportCacheUp(t)
      BY <1>7 DEF RevisionUp
    <2> QED BY <1>7, <2>1, DatedFits
  <1> QED BY <1>2, <1>3, <1>4, <1>5, <1>6, <1>7

\* A revision down keeps it too, unless the database refuses it.
LEMMA RevisionDownKeeps ==
    ASSUME NEW n \in 1..10, NEW w \in Nat, NEW o, NEW t, TablesFit(t, n, w, o)
    PROVE  RevisionDown(t, n) = None \/ TablesFit(RevisionDown(t, n), n - 1, w, o)
  <1>1. t \in SchemaTables
    BY DEF TablesFit
  <1>2. CASE n = 1
    <2>1. RevisionDown(t, n) = InitialSchema
      BY <1>2 DEF RevisionDown
    <2> QED BY <1>2, <2>1, EmptyFits DEF TablesFit
  <1>3. CASE n = 3
    <2>1. PICK limits \in [BudgetMonth -> {"absent", "none", "some"}] :
              RevisionDown(t, n) = [t EXCEPT !.limits = limits]
      <3> DEFINE limits == [m \in BudgetMonth |-> IF t.limits[m] = "none" THEN "absent" ELSE t.limits[m]]
      <3>1. t.limits \in [BudgetMonth -> {"absent", "none", "some"}]
        BY <1>1 DEF SchemaTables
      <3>2. limits \in [BudgetMonth -> {"absent", "none", "some"}]
        BY <3>1
      <3>3. RevisionDown(t, n) = [t EXCEPT !.limits = limits]
        BY <1>3 DEF RevisionDown, CarriesForwardDown
      <3> QED BY <3>2, <3>3
    <2>2. PICK u : u = [t EXCEPT !.limits = limits]
      OBVIOUS
    <2>3. SameEntries(t, u)
      BY <1>1, <2>2, OthersChange DEF SchemaTables
    <2>4. TablesFit(u, 2, w, o)
      BY <1>3, <2>3, SameEntriesFit
    <2> QED BY <1>3, <2>1, <2>2, <2>4
  <1>4. CASE n \in {2, 5, 7, 9, 10}
    <2>1. RevisionDown(t, n) \in {t, None}
      BY <1>4 DEF RevisionDown
    <2>2. n >= 6 => \A run \in t.runs : run.seat # None
      BY <1>4 DEF TablesFit
    <2>3. SameEntries(t, t)
      BY <1>1 DEF SameEntries
    <2>4. TablesFit(t, n - 1, w, o)
      BY <1>4, <2>2, <2>3, SameEntriesFit
    <2> QED BY <2>1, <2>4
  <1>5. CASE n = 4
    <2>1. RevisionDown(t, n) = SearchableTextDown(t)
      BY <1>5 DEF RevisionDown
    <2> QED BY <1>5, <2>1, TextDropped
  <1>6. CASE n = 6
    <2>1. PICK runs \in SUBSET [seat : KeptSeat \cup {None}, status : KeptStatus] :
              RevisionDown(t, n) = [t EXCEPT !.runs = runs]
      <3> DEFINE runs == {[k EXCEPT !.seat = None] : k \in t.runs}
      <3>1. t.runs \in SUBSET [seat : KeptSeat \cup {None}, status : KeptStatus]
        BY <1>1 DEF SchemaTables
      <3>2. runs \in SUBSET [seat : KeptSeat \cup {None}, status : KeptStatus]
        BY <3>1
      <3>3. RevisionDown(t, n) = [t EXCEPT !.runs = runs]
        BY <1>6 DEF RevisionDown, AuditColumnsDown
      <3> QED BY <3>2, <3>3
    <2>2. PICK u : u = [t EXCEPT !.runs = runs]
      OBVIOUS
    <2>3. SameEntries(t, u)
      BY <1>1, <2>2, OthersChange DEF SchemaTables
    <2>4. TablesFit(u, 5, w, o)
      BY <1>6, <2>3, SameEntriesFit
    <2> QED BY <1>6, <2>1, <2>2, <2>4
  <1>7. CASE n = 8
    <2>1. RevisionDown(t, n) = ReportCacheDown(t)
      BY <1>7 DEF RevisionDown
    <2> QED BY <1>7, <2>1, ReportsDropped
  <1> QED BY <1>2, <1>3, <1>4, <1>5, <1>6, <1>7

-----------------------------------------------------------------------------
(* The schema: commands *)

\* The revision a command has reached after n steps.
Reached(from, to, n) == IF from < to THEN from + n ELSE from - n

StepOf(t, from, to, moved, n) ==
    IF n = 0 THEN t
    ELSE LET u == moved[n - 1] IN IF u = None THEN None ELSE Revision(u, from, to, n)

\* What a step of a command keeps of tables that fit.
Keeps(from, to, w, o, t, u, n) ==
    IF u = None THEN n # 0 /\ (from < to => from < 6 /\ t.runs # {})
    ELSE TablesFit(u, Reached(from, to, n), w, o) /\ (from < to => u.runs = t.runs)

LEMMA StepKeeps ==
    ASSUME NEW from \in 0..10, NEW to \in 0..10, NEW w \in Nat, NEW o, NEW t, NEW u,
           NEW n \in 1..Between(from, to), from = 0 => o = NamesIn(InitialSchema),
           Keeps(from, to, w, o, t, u, n - 1), u # None
    PROVE  Keeps(from, to, w, o, t, Revision(u, from, to, n), n)
  <1>1. PICK v : v = Revision(u, from, to, n)
    OBVIOUS
  <1>2. CASE from < to
    <2>1. PICK m \in 1..10 : m = from + n /\ Reached(from, to, n) = m /\ Reached(from, to, n - 1) = m - 1
      BY <1>2 DEF Between, Reached
    <2>2. TablesFit(u, m - 1, w, o) /\ u.runs = t.runs
      BY <1>2, <2>1 DEF Keeps
    <2>3. v = RevisionUp(u, m)
      BY <1>1, <1>2, <2>1 DEF Revision
    <2>4. m = 1 => o = NamesIn(InitialSchema)
      BY <2>1 DEF Between
    <2>5. \/ v = None /\ m = 6 /\ u.runs # {}
          \/ TablesFit(v, m, w, o) /\ v.runs = u.runs
      <3>1. m \in 1..10 /\ w \in Nat /\ TablesFit(u, m - 1, w, o) /\ (m = 1 => o = NamesIn(InitialSchema))
        BY <2>2, <2>4
      <3>2. \/ RevisionUp(u, m) = None /\ m = 6 /\ u.runs # {}
            \/ TablesFit(RevisionUp(u, m), m, w, o) /\ RevisionUp(u, m).runs = u.runs
        BY ONLY <3>1, RevisionUpKeeps
      <3> QED BY <2>3, <3>2
    <2>6. m = 6 => from < 6
      BY <2>1
    <2>7. TablesFit(v, m, w, o) => v # None
      BY RowsOfTables DEF TablesFit
    <2> QED BY <1>1, <2>1, <2>2, <2>5, <2>6, <2>7 DEF Keeps
  <1>3. CASE ~(from < to)
    <2>1. PICK m \in 1..10 : m = from + 1 - n /\ Reached(from, to, n) = m - 1 /\ Reached(from, to, n - 1) = m
      BY <1>3 DEF Between, Reached
    <2>2. TablesFit(u, m, w, o)
      BY <1>3, <2>1 DEF Keeps
    <2>3. v = RevisionDown(u, m)
      BY <1>1, <1>3, <2>1 DEF Revision
    <2>4. v = None \/ TablesFit(v, m - 1, w, o)
      BY <2>2, <2>3, RevisionDownKeeps
    <2> QED BY <1>1, <1>3, <2>1, <2>4 DEF Keeps
  <1> QED BY <1>2, <1>3

\* There are tables for every step of a command.
LEMMA StepsExist ==
    ASSUME NEW t, NEW from \in 0..10, NEW to \in 0..10, NEW k \in 0..Between(from, to)
    PROVE  \E moved : moved = [n \in 0..k |-> StepOf(t, from, to, moved, n)]
  <1> DEFINE Made(j) == \E moved : moved = [n \in 0..j |-> StepOf(t, from, to, moved, n)]
             T == {j \in Nat : ~Made(j)}
  <1>1. SUFFICES ASSUME T # {} PROVE FALSE
    <2>1. k \in Nat
      BY DEF Between
    <2>2. ~Made(k) => k \in T
      BY <2>1
    <2> HIDE DEF T
    <2> QED BY <2>2
  <1>2. T \in SUBSET Nat
    OBVIOUS
  <1>3. PICK j \in T : \A q \in T : j <= q
    <2> HIDE DEF T
    <2> QED BY <1>1, <1>2, LeastNat
  <1>4. j \in Nat /\ ~Made(j)
    OBVIOUS
  <1>5. j # 0
    <2>1. ASSUME j = 0 PROVE Made(j)
      <3> DEFINE moved == [n \in 0..0 |-> t]
      <3>1. moved = [n \in 0..j |-> StepOf(t, from, to, moved, n)]
        BY <2>1 DEF StepOf
      <3> QED BY <3>1
    <2> QED BY <1>4, <2>1
  <1>6. PICK p \in Nat : p = j - 1 /\ j = p + 1
    BY <1>4, <1>5
  <1>7. p \notin T
    BY <1>3, <1>6
  <1>8. Made(p)
    BY <1>7
  <1>9. PICK before : before = [n \in 0..p |-> StepOf(t, from, to, before, n)]
    BY <1>8
  <1> HIDE DEF T, Made
  <1> DEFINE moved == [n \in 0..j |-> StepOf(t, from, to, before, n)]
  <1>10. \A n \in 0..p : moved[n] = before[n]
    <2>1. \A n \in 0..p : before[n] = StepOf(t, from, to, before, n)
      BY <1>9
    <2>2. \A n \in 0..p : n \in 0..j
      BY <1>6
    <2> HIDE DEF StepOf
    <2> QED BY <2>1, <2>2
  <1>11. ASSUME NEW n \in 0..j PROVE StepOf(t, from, to, before, n) = StepOf(t, from, to, moved, n)
    <2>1. CASE n = 0
      BY <2>1 DEF StepOf
    <2>2. CASE n # 0
      <3>1. PICK m \in 0..p : m = n - 1
        BY <1>6, <2>2
      <3>2. moved[m] = before[m]
        BY <1>10, <3>1
      <3> HIDE DEF moved
      <3> QED BY <2>2, <3>1, <3>2 DEF StepOf
    <2> QED BY <2>1, <2>2
  <1>12. moved = [n \in 0..j |-> StepOf(t, from, to, moved, n)]
    <2>1. PICK new : new = moved
      OBVIOUS
    <2>2. \A n \in 0..j : StepOf(t, from, to, before, n) = StepOf(t, from, to, new, n)
      BY <1>11, <2>1
    <2>3. new = [n \in 0..j |-> StepOf(t, from, to, before, n)]
      BY <2>1
    <2> HIDE DEF moved
    <2> QED BY <2>1, <2>2, <2>3
  <1>13. Made(j)
    BY <1>12 DEF Made
  <1> QED BY <1>4, <1>13

\* A command that is not refused leaves tables that fit, and one up to a later revision is refused
\* only where there are runs and 0006 is still to come.
LEMMA CommandKeeps ==
    ASSUME NEW from \in 0..10, NEW to \in 0..10, NEW w \in Nat, NEW o, NEW t,
           TablesFit(t, from, w, o), from = 0 => o = NamesIn(InitialSchema)
    PROVE  Keeps(from, to, w, o, t, Moved(t, from, to), Between(from, to))
  <1> DEFINE last == Between(from, to)
             moved == CHOOSE f : f = [n \in 0..last |-> StepOf(t, from, to, f, n)]
  <1>1. last \in Nat
    BY DEF Between
  <1>2. Moved(t, from, to) = moved[last]
    BY DEF Moved, StepOf
  <1>3. moved = [n \in 0..last |-> StepOf(t, from, to, moved, n)]
    <2>1. last \in 0..last
      BY <1>1
    <2>2. \E f : f = [n \in 0..last |-> StepOf(t, from, to, f, n)]
      BY <2>1, StepsExist
    <2> HIDE DEF last
    <2> QED BY <2>2
  <1>4. \A n \in 0..last : moved[n] = StepOf(t, from, to, moved, n)
    <2>1. PICK f : f = moved
      OBVIOUS
    <2>2. f = [n \in 0..last |-> StepOf(t, from, to, f, n)]
      BY <1>3, <2>1
    <2> HIDE DEF moved, last
    <2> QED BY ONLY <2>1, <2>2
  <1> HIDE DEF moved, last
  <1> DEFINE T == {n \in 0..last : ~Keeps(from, to, w, o, t, moved[n], n)}
  <1>5. T = {}
    <2> SUFFICES ASSUME T # {} PROVE FALSE
      OBVIOUS
    <2>1. T \in SUBSET Nat
      BY <1>1
    <2>2. PICK n \in T : \A q \in T : n <= q
      <3> HIDE DEF T
      <3> QED BY <2>1, LeastNat
    <2>3. n \in 0..last /\ ~Keeps(from, to, w, o, t, moved[n], n)
      OBVIOUS
    <2>4. CASE n = 0
      <3>1. moved[0] = t
        BY <1>4, <2>3, <2>4 DEF StepOf
      <3>2. Reached(from, to, 0) = from /\ t # None
        BY RowsOfTables DEF Reached, TablesFit
      <3> QED BY <2>3, <2>4, <3>1, <3>2 DEF Keeps
    <2>5. CASE n # 0
      <3>1. PICK p \in 0..last : p = n - 1
        BY <1>1, <2>3, <2>5
      <3>2. p \notin T
        BY <2>2, <3>1
      <3>3. PICK u : u = moved[p]
        OBVIOUS
      <3>4. Keeps(from, to, w, o, t, u, n - 1)
        BY <3>1, <3>2, <3>3
      <3>5. moved[n] = IF u = None THEN None ELSE Revision(u, from, to, n)
        BY <1>4, <2>3, <2>5, <3>1, <3>3 DEF StepOf
      <3>6. CASE u = None
        BY <2>3, <2>5, <3>4, <3>5, <3>6 DEF Keeps
      <3>7. CASE u # None
        <4>1. n \in 1..Between(from, to)
          BY <1>1, <2>3, <2>5 DEF last
        <4>2. Keeps(from, to, w, o, t, Revision(u, from, to, n), n)
          BY <3>4, <3>7, <4>1, StepKeeps
        <4> QED BY <2>3, <3>5, <3>7, <4>2
      <3> QED BY <3>6, <3>7
    <2> QED BY <2>4, <2>5
  <1>6. last \in 0..last /\ last = Between(from, to)
    BY <1>1 DEF last
  <1> QED BY <1>2, <1>5, <1>6

-----------------------------------------------------------------------------
(* The schema: writes *)

\* A row of a table is as it was, gone, or written now.
Written(t, rows, w) ==
    \A i \in EntryId :
        \/ rows[i] = t.entries[i]
        \/ rows[i] = None
        \/ /\ rows[i].created \in 1..(w + 1) /\ rows[i].updated = w + 1
           /\ rows[i].hash = SearchableText(rows[i].name)

\* A write keeps every report: what it touches has changed since.
LEMMA WriteKeeps ==
    ASSUME NEW w \in Nat, NEW o, NEW p, NEW t, NEW u \in SchemaTables, TablesFit(t, 10, w, o),
           Written(t, u.entries, w), u.reports = t.reports, \A run \in u.runs : run.seat # None,
           NamesIn(u) = p
    PROVE  TablesFit(u, 10, w + 1, p)
  <1>1. t \in SchemaTables
    BY DEF TablesFit
  <1>2. ASSUME NEW i \in There(u), u.entries[i] = t.entries[i] PROVE i \in There(t)
    BY <1>1, <1>2, RowsOfTables
  <1>3. ASSUME NEW i \in There(u) PROVE RowFits(u.entries[i], 10, w + 1)
    <2>1. i \in EntryId /\ u.entries[i] # None
      BY <1>3, RowsOfTables
    <2>2. CASE u.entries[i] = t.entries[i]
      <3>1. RowFits(t.entries[i], 10, w)
        BY <1>2, <1>3, <2>2 DEF TablesFit
      <3> QED BY <2>2, <3>1 DEF RowFits
    <2>3. CASE u.entries[i] # t.entries[i]
      BY <2>1, <2>3 DEF Written, RowFits
    <2> QED BY <2>2, <2>3
  <1>4. ASSUME NEW r \in u.reports PROVE ReportStands(r, u, w + 1)
    <2>1. ReportStands(r, t, w) /\ r.version[2] \in Nat
      BY <1>1, <1>4 DEF TablesFit, SchemaTables, KeptReport
    <2>2. ASSUME NEW i \in There(u), u.entries[i].updated <= r.version[2]
          PROVE  i \in DOMAIN r.of /\ r.of[i] = u.entries[i].name
      <3>1. i \in EntryId /\ u.entries[i] # None
        BY <2>2, RowsOfTables
      <3>2. u.entries[i] = t.entries[i]
        BY <2>1, <2>2, <3>1 DEF Written, ReportStands
      <3> QED BY <1>2, <2>1, <2>2, <3>2 DEF ReportStands
    <2> QED BY <2>1, <2>2 DEF ReportStands
  <1> QED BY <1>3, <1>4 DEF TablesFit

\* A row as the program writes it.
LEMMA NewRow ==
    ASSUME NEW name \in ShopName, writes \in Nat, NEW created \in 1..(writes + 1)
    PROVE  LET row == [EntryRow(name) EXCEPT !.created = created] IN
           /\ row \in EntryRows /\ row.name = name /\ row.hash = SearchableText(name)
           /\ row.created = created /\ row.updated = writes + 1 /\ row # None
  BY SchemaAssumption DEF EntryRow, EntryRows, WriteTime

LEMMA KeepsSeedReference == SchemaInductive /\ SeedReference => SchemaInductive'
  <1> SUFFICES ASSUME SchemaInductive, SeedReference PROVE SchemaInductive'
    OBVIOUS
  <1>1. TablesFit(tables, 10, writes, owed) /\ revision = 10
    BY DEF SchemaInductive, SeedReference, Latest
  <1>2. tables \in SchemaTables
    BY <1>1 DEF TablesFit
  <1>3. PICK u : u = [tables EXCEPT !.catalog = "placed"]
    OBVIOUS
  <1>4. SameEntries(tables, u) /\ u.runs = tables.runs
    BY <1>2, <1>3, OthersChange DEF SchemaTables
  <1>5. \A run \in u.runs : run.seat # None
    BY <1>1, <1>4 DEF TablesFit
  <1>6. TablesFit(u, 10, writes, owed)
    BY <1>1, <1>4, <1>5, SameEntriesFit DEF SchemaInductive
  <1> QED BY <1>1, <1>3, <1>6 DEF SchemaInductive, SeedReference, Latest

LEMMA KeepsMigrate ==
    ASSUME NEW to \in 0..Latest, SchemaInductive, Migrate(to) PROVE SchemaInductive'
  <1>1. PICK u : u = Moved(tables, revision, to) /\ u # None /\ tables' = u
    BY DEF Migrate
  <1>2. /\ revision \in 0..10 /\ to \in 0..10 /\ writes \in Nat
        /\ TablesFit(tables, revision, writes, owed) /\ (revision = 0 => owed = NamesIn(InitialSchema))
    BY DEF SchemaInductive, Latest
  <1>3. Keeps(revision, to, writes, owed, tables, u, Between(revision, to))
    BY <1>1, <1>2, CommandKeeps
  <1>4. Reached(revision, to, Between(revision, to)) = to
    BY <1>2 DEF Reached, Between
  <1>5. TablesFit(u, to, writes, owed)
    BY <1>1, <1>3, <1>4 DEF Keeps
  <1>6. revision' = to /\ writes' = writes /\ owed' = IF to = 0 THEN [i \in EntryId |-> None] ELSE owed
    BY DEF Migrate
  <1>7. owed' \in [EntryId -> ShopName \cup {None}]
    BY <1>6 DEF SchemaInductive
  <1>8. to = 0 => owed' = NamesIn(InitialSchema)
    BY <1>6 DEF NamesIn, InitialSchema
  <1>9. TablesFit(u, to, writes, owed')
    BY <1>5, <1>6 DEF TablesFit
  <1> QED BY <1>1, <1>2, <1>6, <1>7, <1>8, <1>9 DEF SchemaInductive, Latest

\* What a write of the program begins with.
LEMMA Running ==
    ASSUME SchemaInductive, Runs
    PROVE  /\ revision = 10 /\ Latest = 10 /\ writes \in Nat /\ tables \in SchemaTables
           /\ TablesFit(tables, 10, writes, owed) /\ NamesIn(tables) = owed
           /\ \A run \in tables.runs : run.seat # None
  BY DEF SchemaInductive, Runs, Latest, TablesFit

\* What it leaves is kept.
LEMMA RanWell ==
    ASSUME SchemaInductive, Runs, revision' = revision, writes' = writes + 1,
           tables' \in SchemaTables, Written(tables, tables'.entries, writes),
           tables'.reports = tables.reports, \A run \in tables'.runs : run.seat # None,
           NamesIn(tables') = owed', owed' \in [EntryId -> ShopName \cup {None}]
    PROVE  SchemaInductive'
  <1>1. PICK u : u = tables'
    OBVIOUS
  <1>2. TablesFit(u, 10, writes + 1, owed')
    BY <1>1, Running, WriteKeeps
  <1> QED BY <1>1, <1>2, Running DEF SchemaInductive

LEMMA KeepsSeedDemo ==
    ASSUME NEW name \in ShopName, SchemaInductive, SeedDemo(name) PROVE SchemaInductive'
  <1> DEFINE rows == [i \in EntryId |-> EntryRow(name)]
  <1>1. PICK row : row = EntryRow(name)
    OBVIOUS
  <1>2. /\ row \in EntryRows /\ row.name = name /\ row.hash = SearchableText(name)
        /\ row.created = writes + 1 /\ row.updated = writes + 1 /\ row # None
    BY <1>1, Running, SchemaAssumption DEF SeedDemo, EntryRow, EntryRows, WriteTime
  <1>3. rows \in [EntryId -> EntryRows \cup {None}] /\ \A i \in EntryId : rows[i] = row
    BY <1>1, <1>2
  <1>4. PICK limits \in [BudgetMonth -> {"absent", "none", "some"}] :
            tables' = [tables EXCEPT !.entries = rows, !.limits = limits]
    <2>1. tables.limits \in [BudgetMonth -> {"absent", "none", "some"}]
      BY Running DEF SeedDemo, SchemaTables
    <2>2. [tables.limits EXCEPT ![Min(BudgetMonth)] = "some"] \in [BudgetMonth -> {"absent", "none", "some"}]
      BY <2>1
    <2>3. tables' = [tables EXCEPT !.entries = rows, !.limits = [tables.limits EXCEPT ![Min(BudgetMonth)] = "some"]]
      BY DEF SeedDemo
    <2> QED BY <2>2, <2>3
  <1> HIDE DEF rows
  <1>5. /\ tables' \in SchemaTables /\ tables'.entries = rows /\ tables'.reports = tables.reports
        /\ tables'.runs = tables.runs
    <2>1. tables \in SchemaTables
      BY Running DEF SeedDemo
    <2> QED BY ONLY <1>3, <1>4, <2>1 DEF SchemaTables
  <1>6. Written(tables, rows, writes)
    BY <1>2, <1>3, Running DEF SeedDemo, Written
  <1>7. NamesIn(tables') = owed' /\ owed' \in [EntryId -> ShopName \cup {None}]
    <2>1. owed' = [i \in EntryId |-> name]
      BY DEF SeedDemo
    <2> QED BY <1>2, <1>3, <1>5, <2>1 DEF NamesIn
  <1> QED BY <1>5, <1>6, <1>7, Running, RanWell DEF SeedDemo, WriteTime

\* One row is written, or goes.
LEMMA OneRow ==
    ASSUME SchemaInductive, Runs, NEW i \in EntryId, NEW row \in EntryRows \cup {None}, NEW name,
           \/ row = None /\ name = None
           \/ /\ row # None /\ row.name = name /\ name \in ShopName /\ row.hash = SearchableText(name)
              /\ row.created \in 1..(writes + 1) /\ row.updated = writes + 1,
           tables' = [tables EXCEPT !.entries[i] = row], owed' = [owed EXCEPT ![i] = name],
           writes' = writes + 1, revision' = revision
    PROVE  SchemaInductive'
  <1> DEFINE rows == [tables.entries EXCEPT ![i] = row]
  <1>1. tables.entries \in [EntryId -> EntryRows \cup {None}] /\ owed \in [EntryId -> ShopName \cup {None}]
    BY Running, RowsOfTables DEF SchemaInductive
  <1>2. /\ rows \in [EntryId -> EntryRows \cup {None}] /\ rows[i] = row
        /\ \A j \in EntryId : j # i => rows[j] = tables.entries[j]
    BY <1>1
  <1>3. tables' = [tables EXCEPT !.entries = rows]
    OBVIOUS
  <1> HIDE DEF rows
  <1>4. /\ tables' \in SchemaTables /\ tables'.entries = rows /\ tables'.reports = tables.reports
        /\ tables'.runs = tables.runs
    BY <1>2, <1>3, Running DEF SchemaTables
  <1>5. Written(tables, rows, writes)
    BY <1>2 DEF Written
  <1>6. owed' \in [EntryId -> ShopName \cup {None}] /\ owed'[i] = name /\ \A j \in EntryId : j # i => owed'[j] = owed[j]
    BY <1>1
  <1>7. NamesIn(tables') = owed'
    <2>1. \A j \in EntryId : owed[j] = IF tables.entries[j] = None THEN None ELSE tables.entries[j].name
      BY Running DEF NamesIn
    <2>2. ASSUME NEW j \in EntryId PROVE owed'[j] = IF rows[j] = None THEN None ELSE rows[j].name
      BY <1>2, <1>6, <2>1
    <2> QED BY <1>4, <1>6, <2>2 DEF NamesIn
  <1> QED BY <1>4, <1>5, <1>6, <1>7, Running, RanWell

LEMMA KeepsWriteEntry ==
    ASSUME NEW i \in EntryId, NEW name \in ShopName, SchemaInductive, WriteEntry(i, name)
    PROVE  SchemaInductive'
  <1>1. PICK created \in 1..(writes + 1) :
            created = IF tables.entries[i] = None THEN writes + 1 ELSE tables.entries[i].created
    <2>1. tables.entries[i] # None => i \in There(tables)
      BY DEF There
    <2>2. tables.entries[i] # None => RowFits(tables.entries[i], 10, writes)
      BY <2>1, Running DEF WriteEntry, TablesFit
    <2> QED BY <2>2, Running DEF WriteEntry, RowFits
  <1>2. PICK row : row = [EntryRow(name) EXCEPT !.created = created]
    OBVIOUS
  <1>3. /\ row \in EntryRows /\ row.name = name /\ row.hash = SearchableText(name)
        /\ row.created = created /\ row.updated = writes + 1 /\ row # None
    BY <1>2, Running, NewRow DEF WriteEntry
  <1>4. /\ tables' = [tables EXCEPT !.entries[i] = row] /\ owed' = [owed EXCEPT ![i] = name]
        /\ writes' = writes + 1 /\ revision' = revision
    BY <1>1, <1>2 DEF WriteEntry, WriteTime
  <1>5. row.created \in 1..(writes + 1) /\ row \in EntryRows \cup {None} /\ Runs
    BY <1>3 DEF WriteEntry
  <1> QED BY ONLY SchemaInductive, <1>3, <1>4, <1>5, OneRow

LEMMA KeepsRemoveEntry ==
    ASSUME NEW i \in EntryId, SchemaInductive, RemoveEntry(i) PROVE SchemaInductive'
  <1>1. /\ tables' = [tables EXCEPT !.entries[i] = None] /\ owed' = [owed EXCEPT ![i] = None]
        /\ writes' = writes + 1 /\ revision' = revision
    BY DEF RemoveEntry, WriteTime
  <1> QED BY <1>1, OneRow DEF RemoveEntry

\* A limit or a run is written beside the entries.
LEMMA Beside ==
    ASSUME SchemaInductive, Runs, NEW u, u = tables', SameEntries(tables, u),
           \A run \in u.runs : run.seat # None,
           owed' = owed, writes' = writes + 1, revision' = revision
    PROVE  SchemaInductive'
  <1>1. u \in SchemaTables /\ u.reports = tables.reports /\ Written(tables, u.entries, writes)
    BY DEF SameEntries, Written
  <1>2. NamesIn(u) = NamesIn(tables)
    BY DEF SameEntries, NamesIn
  <1>3. owed \in [EntryId -> ShopName \cup {None}]
    BY DEF SchemaInductive
  <1> QED BY <1>1, <1>2, <1>3, Running, RanWell

LEMMA KeepsSetLimit ==
    ASSUME NEW m \in BudgetMonth, NEW limit \in {"none", "some"}, SchemaInductive, SetLimit(m, limit)
    PROVE  SchemaInductive'
  <1>1. PICK limits \in [BudgetMonth -> {"absent", "none", "some"}] : tables' = [tables EXCEPT !.limits = limits]
    <2>1. tables.limits \in [BudgetMonth -> {"absent", "none", "some"}]
      BY Running DEF SetLimit, SchemaTables
    <2>2. [tables.limits EXCEPT ![m] = limit] \in [BudgetMonth -> {"absent", "none", "some"}]
      BY <2>1
    <2>3. tables' = [tables EXCEPT !.limits = [tables.limits EXCEPT ![m] = limit]]
      BY DEF SetLimit
    <2> QED BY <2>2, <2>3
  <1>2. PICK u : u = [tables EXCEPT !.limits = limits]
    OBVIOUS
  <1>3. SameEntries(tables, u) /\ u.runs = tables.runs
    BY <1>2, Running, OthersChange DEF SetLimit, SchemaTables
  <1> QED BY <1>1, <1>2, <1>3, Running, Beside DEF SetLimit, WriteTime

LEMMA KeepsKeepRun ==
    ASSUME NEW kind \in RunKind, SchemaInductive, KeepRun(kind) PROVE SchemaInductive'
  <1>1. PICK runs \in SUBSET [seat : KeptSeat \cup {None}, status : KeptStatus] : runs = tables.runs \cup {kind}
    BY Running, SchemaAssumption DEF KeepRun, SchemaTables
  <1>2. PICK u : u = [tables EXCEPT !.runs = runs]
    OBVIOUS
  <1>3. SameEntries(tables, u) /\ u.runs = runs
    BY <1>2, Running, OthersChange DEF KeepRun, SchemaTables
  <1>4. kind.seat # None
    BY SchemaAssumption
  <1>5. \A run \in u.runs : run.seat # None
    BY <1>1, <1>3, <1>4, Running DEF KeepRun
  <1>6. tables' = u
    BY <1>1, <1>2 DEF KeepRun
  <1> QED BY <1>3, <1>5, <1>6, Beside DEF KeepRun, WriteTime

\* The version of the data: how many entries there are, and none changed after its moment.
LEMMA VersionFacts ==
    ASSUME SchemaInductive, revision = 10
    PROVE  /\ IsFiniteSet(There(tables))
           /\ DataVersion(tables) \in Nat \X Nat
           /\ DataVersion(tables)[1] = Cardinality(There(tables)) /\ DataVersion(tables)[2] <= writes
           /\ \A i \in There(tables) : tables.entries[i].updated <= DataVersion(tables)[2]
  <1> DEFINE dates == {0} \cup {tables.entries[i].updated : i \in There(tables)}
  <1>1. ASSUME NEW i \in There(tables) PROVE tables.entries[i].updated \in 1..writes
    <2>1. RowFits(tables.entries[i], 10, writes)
      BY DEF SchemaInductive, TablesFit
    <2> QED BY <2>1 DEF RowFits
  <1>2. writes \in Nat
    BY DEF SchemaInductive
  <1>3. dates \in SUBSET Nat /\ dates # {} /\ \A x \in dates : x <= writes
    BY <1>1, <1>2
  <1>4. Max(dates) \in dates /\ \A x \in dates : x <= Max(dates)
    <2> HIDE DEF dates
    <2> QED BY <1>2, <1>3, MaxOfBounded
  <1>5. IsFiniteSet(There(tables)) /\ Cardinality(There(tables)) \in Nat
    BY SchemaAssumption, FS_Subset, FS_CardinalityType DEF There
  <1>6. DataVersion(tables) = <<Cardinality(There(tables)), Max(dates)>>
    BY DEF DataVersion
  <1>7. \A i \in There(tables) : tables.entries[i].updated \in dates
    OBVIOUS
  <1> HIDE DEF dates
  <1>8. PICK count \in Nat : count = Cardinality(There(tables))
    BY <1>5
  <1>9. PICK last \in Nat : last = Max(dates)
    BY <1>3, <1>4
  <1>10. DataVersion(tables) = <<count, last>> /\ last <= writes
    BY <1>3, <1>4, <1>6, <1>8, <1>9
  <1> QED BY <1>4, <1>5, <1>7, <1>8, <1>9, <1>10

LEMMA KeepsKeepReport == SchemaInductive /\ KeepReport => SchemaInductive'
  <1> SUFFICES ASSUME SchemaInductive, KeepReport PROVE SchemaInductive'
    OBVIOUS
  <1>1. PICK r : r = [version |-> DataVersion(tables), of |-> Content(tables)]
    OBVIOUS
  <1>2. revision = 10
    BY Running DEF KeepReport
  <1>3. r.version = DataVersion(tables) /\ r.of = Content(tables)
    BY <1>1
  <1>4. DOMAIN r.of = There(tables) /\ \A i \in There(tables) : r.of[i] = tables.entries[i].name
    BY <1>3 DEF Content
  <1>5. r \in KeptReport
    <2>1. There(tables) \in SUBSET EntryId
      BY DEF There
    <2>2. \A i \in There(tables) : tables.entries[i].name \in ShopName
      BY Running, RowsOfTables DEF KeepReport, EntryRows
    <2>3. Content(tables) \in [There(tables) -> ShopName]
      BY <2>2 DEF Content
    <2>4. DataVersion(tables) \in Nat \X Nat
      BY <1>2, VersionFacts
    <2> QED BY <1>1, <2>1, <2>3, <2>4 DEF KeptReport
  <1>6. PICK u : u = tables'
    OBVIOUS
  <1>7. u = [tables EXCEPT !.reports = tables.reports \cup {r}]
    BY <1>1, <1>6 DEF KeepReport
  <1>8. /\ u \in SchemaTables /\ u.entries = tables.entries /\ u.runs = tables.runs
        /\ u.reports = tables.reports \cup {r}
    BY <1>5, <1>7, Running DEF KeepReport, SchemaTables
  <1>9. There(u) = There(tables) /\ NamesIn(u) = NamesIn(tables)
    BY <1>8 DEF There, NamesIn
  <1>10. ReportStands(r, u, writes)
    BY <1>2, <1>3, <1>4, <1>8, <1>9, VersionFacts DEF ReportStands
  <1>11. \A q \in tables.reports : ReportStands(q, u, writes)
    BY <1>8, <1>9, Running DEF KeepReport, TablesFit, ReportStands
  <1>12. \A i \in There(u) : RowFits(u.entries[i], 10, writes)
    BY <1>8, <1>9, Running DEF KeepReport, TablesFit
  <1>13. TablesFit(u, 10, writes, owed)
    BY <1>8, <1>9, <1>10, <1>11, <1>12, Running DEF KeepReport, TablesFit
  <1> QED BY <1>6, <1>13, Running DEF KeepReport, SchemaInductive

LEMMA SchemaStart == SchemaInit => SchemaInductive
  <1> SUFFICES ASSUME SchemaInit PROVE SchemaInductive
    OBVIOUS
  <1>1. owed = NamesIn(InitialSchema) /\ owed \in [EntryId -> ShopName \cup {None}]
    BY DEF SchemaInit, NamesIn, InitialSchema
  <1>2. revision = 0 /\ tables = InitialSchema /\ writes = 0
    BY DEF SchemaInit
  <1>3. TablesFit(tables, 0, writes, owed)
    BY <1>1, <1>2, EmptyFits
  <1> QED BY <1>1, <1>2, <1>3 DEF SchemaInductive, Latest

LEMMA SchemaStep == SchemaInductive /\ [SchemaNext]_schema_vars => SchemaInductive'
  <1> SUFFICES ASSUME SchemaInductive, [SchemaNext]_schema_vars PROVE SchemaInductive'
    OBVIOUS
  <1>1. CASE UNCHANGED schema_vars
    BY <1>1 DEF schema_vars, SchemaInductive
  <1>2. ASSUME NEW to \in 0..Latest, Migrate(to) PROVE SchemaInductive'
    BY <1>2, KeepsMigrate
  <1>3. CASE SeedReference
    BY <1>3, KeepsSeedReference
  <1>4. ASSUME NEW name \in ShopName, SeedDemo(name) PROVE SchemaInductive'
    BY <1>4, KeepsSeedDemo
  <1>5. ASSUME NEW i \in EntryId, RemoveEntry(i) PROVE SchemaInductive'
    BY <1>5, KeepsRemoveEntry
  <1>6. ASSUME NEW i \in EntryId, NEW name \in ShopName, WriteEntry(i, name) PROVE SchemaInductive'
    BY <1>6, KeepsWriteEntry
  <1>7. ASSUME NEW m \in BudgetMonth, NEW limit \in {"none", "some"}, SetLimit(m, limit) PROVE SchemaInductive'
    BY <1>7, KeepsSetLimit
  <1>8. ASSUME NEW kind \in RunKind, KeepRun(kind) PROVE SchemaInductive'
    BY <1>8, KeepsKeepRun
  <1>9. CASE KeepReport
    BY <1>9, KeepsKeepReport
  <1> QED BY <1>1, <1>2, <1>3, <1>4, <1>5, <1>6, <1>7, <1>8, <1>9 DEF SchemaNext

\* A report of today's version is of today's entries.
LEMMA VersionTells ==
    ASSUME SchemaInductive, revision = 10, NEW r \in tables.reports, r.version = DataVersion(tables)
    PROVE  r.of = Content(tables)
  <1>1. ReportStands(r, tables, writes)
    BY DEF SchemaInductive, TablesFit
  <1>2. PICK there \in SUBSET EntryId : r.of \in [there -> ShopName]
    BY DEF SchemaInductive, TablesFit, SchemaTables, KeptReport
  <1>3. DOMAIN r.of = there
    BY <1>2
  <1>4. IsFiniteSet(there) /\ There(tables) \subseteq there
    BY <1>1, <1>3, VersionFacts, SchemaAssumption, FS_Subset DEF ReportStands
  <1>5. Cardinality(there) = Cardinality(There(tables))
    BY <1>1, <1>3, VersionFacts DEF ReportStands
  <1>6. there = There(tables)
    BY <1>4, <1>5, FS_Subset
  <1>7. \A i \in There(tables) : r.of[i] = tables.entries[i].name
    BY <1>1, VersionFacts DEF ReportStands
  <1> QED BY <1>2, <1>6, <1>7 DEF Content

LEMMA InductiveIsWhole == SchemaInductive => SchemaIsWhole
  <1> SUFFICES ASSUME SchemaInductive PROVE SchemaIsWhole
    OBVIOUS
  <1>1. /\ revision \in 0..10 /\ 10 \in 0..10 /\ Latest = 10 /\ writes \in Nat
        /\ TablesFit(tables, revision, writes, owed) /\ (revision = 0 => owed = NamesIn(InitialSchema))
    BY DEF SchemaInductive, Latest
  <1>2. revision > 0 => NamesIn(tables) = owed
    BY <1>1 DEF TablesFit
  <1>3. ASSUME revision = 10, NEW i \in There(tables)
        PROVE  tables.entries[i].hash = SearchableText(tables.entries[i].name)
    BY <1>1, <1>3 DEF TablesFit, RowFits
  <1>4. revision >= 6 => \A k \in tables.runs : k.seat # None
    BY <1>1 DEF TablesFit
  <1>5. EmptyAtLatest # None
    <2>1. TablesFit(InitialSchema, 0, 0, NamesIn(InitialSchema)) /\ InitialSchema.runs = {}
      BY EmptyFits
    <2>2. Keeps(0, 10, 0, NamesIn(InitialSchema), InitialSchema, EmptyAtLatest, Between(0, 10))
      BY <1>1, <2>1, CommandKeeps DEF EmptyAtLatest
    <2> QED BY <2>1, <2>2 DEF Keeps
  <1>6. ASSUME Moved(tables, revision, Latest) = None PROVE revision < 6 /\ tables.runs # {}
    <2>1. Keeps(revision, 10, writes, owed, tables, None, Between(revision, 10))
      BY <1>1, <1>6, CommandKeeps
    <2>2. Between(revision, 10) # 0 /\ (revision < 10 => revision < 6 /\ tables.runs # {})
      BY <2>1 DEF Keeps
    <2> QED BY <1>1, <2>2 DEF Between
  <1> QED BY <1>1, <1>2, <1>3, <1>4, <1>5, <1>6, VersionTells DEF SchemaIsWhole

\* Whatever commands, seeds and writes there were, the rows fit their revision, and a report holds
\* every entry that has not changed since it was made (the revisions' upgrade and downgrade).
THEOREM SchemaInvariant == SchemaSpec => []SchemaInductive
  BY SchemaStart, SchemaStep, PTL DEF SchemaSpec

\* For any rows, names, months and runs, whatever way the schema has gone, the last revision holds
\* what the program relies on, and only runs kept across 0006 stop it from going up again
\* (SchemaIsWhole).
THEOREM SchemaStaysWhole == SchemaSpec => []SchemaIsWhole
  BY SchemaInvariant, InductiveIsWhole, PTL
==============================================================================
