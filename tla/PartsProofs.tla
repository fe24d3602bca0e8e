---------------------------- MODULE PartsProofs -----------------------------
(***************************************************************************)
(* Theorems about CallLimit, CategoryIndex, Reading, ModelOutput, Forms,   *)
(* Periods and ToolArguments for every value of their constants.           *)
(***************************************************************************)
EXTENDS Forms, CallLimit, CategoryIndex, Reading, ModelOutput, ToolArguments, NumberFacts,
        SequenceTheorems

-----------------------------------------------------------------------------
(* The limit of calls *)

\* The window is a second at least.
LEMMA WindowIsPositive == WindowTicks \in Nat /\ WindowTicks > 0 /\ WindowTicks >= TicksPerSecond
  <1>1. \A w, t \in Nat \ {0} : w * t \in Nat /\ w * t > 0 /\ w * t >= t
    OBVIOUS
  <1> QED BY <1>1, LimitAssumption DEF WindowTicks

\* Seconds that are rounded up cover the ticks, and the next lower number of them does not.
LEMMA CeilCovers ==
    ASSUME NEW ticks \in Int
    PROVE  /\ CeilSeconds(ticks) \in Int
           /\ CeilSeconds(ticks) * TicksPerSecond >= ticks
           /\ CeilSeconds(ticks) * TicksPerSecond < ticks + TicksPerSecond
  <1> DEFINE n == ticks + TicksPerSecond - 1
             q == n \div TicksPerSecond
             r == n % TicksPerSecond
  <1>1. TicksPerSecond \in Int /\ TicksPerSecond > 0 /\ n \in Int
    BY LimitAssumption
  <1>2. q \in Int /\ n = TicksPerSecond * q + r /\ r \in 0..(TicksPerSecond - 1)
    BY <1>1
  <1>3. TicksPerSecond * q = q * TicksPerSecond
    BY <1>1, <1>2
  <1>4. CeilSeconds(ticks) = q
    BY DEF CeilSeconds
  <1> HIDE DEF q, r
  <1> QED BY <1>1, <1>2, <1>3, <1>4

\* The wait that is told covers what is missing of the window, and no more than a window.
LEMMA WaitCovers ==
    ASSUME NEW calls \in Seq(Nat), calls # <<>>, tick \in Nat, calls[1] \in Nat, calls[1] <= tick
    PROVE  /\ Wait(calls) \in Nat
           /\ Wait(calls) * TicksPerSecond \in Nat
           /\ tick + Wait(calls) * TicksPerSecond >= calls[1] + WindowTicks
           /\ Wait(calls) * TicksPerSecond <= WindowTicks
  <1> DEFINE left == WindowTicks - (tick - calls[1])
             seconds == CeilSeconds(left)
  <1>1. left \in Int /\ left <= WindowTicks
    BY WindowIsPositive
  <1>2. /\ seconds \in Int
        /\ seconds * TicksPerSecond >= left
        /\ seconds * TicksPerSecond < left + TicksPerSecond
    BY <1>1, CeilCovers
  <1>3. Wait(calls) = IF seconds < 1 THEN 1 ELSE seconds
    BY DEF Wait
  <1> HIDE DEF left, seconds
  <1>4. CASE seconds < 1
    <2>1. Wait(calls) = 1 /\ Wait(calls) * TicksPerSecond = TicksPerSecond
      BY <1>3, <1>4, LimitAssumption
    <2>2. seconds * TicksPerSecond <= 0
      <3>1. \A a \in Int, t \in Nat : a < 1 => a * t <= 0
        OBVIOUS
      <3> QED BY <1>2, <1>4, <3>1, LimitAssumption
    <2>3. left <= 0
      <3>1. seconds * TicksPerSecond \in Int
        BY <1>2, LimitAssumption
      <3> QED BY <1>1, <1>2, <2>2, <3>1
    <2> QED BY <1>1, <2>1, <2>3, WindowIsPositive, LimitAssumption DEF left
  <1>5. CASE seconds >= 1
    <2>1. Wait(calls) = seconds /\ seconds \in Nat
      BY <1>2, <1>3, <1>5
    <2>2. seconds * TicksPerSecond \in Nat
      BY <2>1, LimitAssumption
    <2>3. seconds <= WindowSeconds
      <3>1. seconds * TicksPerSecond < (WindowSeconds + 1) * TicksPerSecond
        <4>1. \A w, t \in Nat : (w + 1) * t = w * t + t
          OBVIOUS
        <4>2. (WindowSeconds + 1) * TicksPerSecond = WindowTicks + TicksPerSecond
          BY <4>1, LimitAssumption DEF WindowTicks
        <4> QED BY <1>1, <1>2, <2>2, <4>2, WindowIsPositive, LimitAssumption
      <3>2. \A a, b, t \in Nat : a * t < b * t => a < b
        OBVIOUS
      <3> QED BY <2>1, <3>1, <3>2, LimitAssumption
    <2>4. seconds * TicksPerSecond <= WindowTicks
      <3>1. \A a, b, t \in Nat : a <= b => a * t <= b * t
        OBVIOUS
      <3> QED BY <2>1, <2>3, <3>1, LimitAssumption DEF WindowTicks
    <2> QED BY <1>1, <1>2, <2>1, <2>2, <2>4, WindowIsPositive DEF left
  <1> QED BY <1>2, <1>4, <1>5

\* What stays of the calls is the end of them; what goes is as old as the window.
LEMMA LiveIsEnd ==
    ASSUME NEW calls \in Seq(Nat), tick \in Nat
    PROVE  /\ Live(calls) \in Seq(Nat)
           /\ \E gone \in 0..Len(calls) :
                 /\ Len(Live(calls)) = Len(calls) - gone
                 /\ \A i \in 1..Len(Live(calls)) : Live(calls)[i] = calls[gone + i]
                 /\ \A i \in 1..gone : tick - calls[i] >= WindowTicks
                 /\ gone < Len(calls) => tick - calls[gone + 1] < WindowTicks
  <1> DEFINE young == {i \in DOMAIN calls : tick - calls[i] < WindowTicks}
  <1>1. DOMAIN calls = 1..Len(calls) /\ Len(calls) \in Nat /\ \A i \in DOMAIN calls : calls[i] \in Nat
    OBVIOUS
  <1>2. Live(calls) = IF young = {} THEN <<>> ELSE SubSeq(calls, Min(young), Len(calls))
    BY DEF Live, From
  <1>3. CASE young = {}
    <2>1. Live(calls) = <<>>
      BY <1>2, <1>3
    <2>2. \A i \in 1..Len(calls) : tick - calls[i] >= WindowTicks
      BY <1>1, <1>3, WindowIsPositive, SMTT(40)
    <2>3. Live(calls) \in Seq(Nat) /\ Len(Live(calls)) = Len(calls) - Len(calls) /\ Len(calls) \in 0..Len(calls)
      BY <1>1, <2>1
    <2>4. \A i \in 1..Len(Live(calls)) : Live(calls)[i] = calls[Len(calls) + i]
      BY <1>1, <2>3
    <2> HIDE DEF young
    <2>5. PICK n \in Nat : n = Len(calls)
      BY <1>1
    <2>6. /\ n \in 0..Len(calls) /\ Len(Live(calls)) = Len(calls) - n
          /\ \A i \in 1..Len(Live(calls)) : Live(calls)[i] = calls[n + i]
          /\ \A i \in 1..n : tick - calls[i] >= WindowTicks
          /\ ~(n < Len(calls))
      BY <2>2, <2>3, <2>4, <2>5
    <2> QED BY <2>3, <2>6
  <1>4. CASE young # {}
    <2>1. young \in SUBSET Nat
      BY <1>1
    <2> DEFINE m == Min(young)
    <2>2. m \in young /\ \A y \in young : m <= y
      <3>1. \E x \in young : \A y \in young : x <= y
        BY <1>4, <2>1, LeastNat
      <3> HIDE DEF young
      <3> QED BY <3>1 DEF Min
    <2>3. m \in 1..Len(calls) /\ tick - calls[m] < WindowTicks
      BY <1>1, <2>2
    <2>4. \A i \in 1..(m - 1) : tick - calls[i] >= WindowTicks
      <3>1. ASSUME NEW i \in 1..(m - 1) PROVE i \in DOMAIN calls /\ i \notin young
        <4>1. i \in 1..Len(calls) /\ m \in Nat /\ i \in Nat /\ i < m
          BY <1>1, <2>3
        <4>2. i \notin young
          <5> HIDE DEF young, m
          <5> QED BY <2>2, <4>1
        <4> QED BY <1>1, <4>1, <4>2
      <3> QED BY <1>1, <3>1, WindowIsPositive
    <2> HIDE DEF young, m
    <2>5. Live(calls) = SubSeq(calls, m, Len(calls))
      BY <1>2, <1>4 DEF m
    <2>6. /\ SubSeq(calls, m, Len(calls)) \in Seq(Nat)
          /\ Len(SubSeq(calls, m, Len(calls))) = Len(calls) - m + 1
          /\ \A i \in 1..(Len(calls) - m + 1) : SubSeq(calls, m, Len(calls))[i] = calls[m + i - 1]
      <3>1. PICK k, n : k = m /\ n = Len(calls)
        OBVIOUS
      <3>2. calls \in Seq(Nat) /\ k \in 1..(Len(calls) + 1) /\ n \in (k - 1)..Len(calls)
        BY <1>1, <2>3, <3>1
      <3>3. /\ SubSeq(calls, k, n) \in Seq(Nat) /\ Len(SubSeq(calls, k, n)) = n - k + 1
            /\ \A i \in 1..(n - k + 1) : SubSeq(calls, k, n)[i] = calls[k + i - 1]
        BY <3>2, SubSeqProperties
      <3> QED BY <3>1, <3>3
    <2>7. /\ Live(calls) \in Seq(Nat)
          /\ Len(Live(calls)) = Len(calls) - (m - 1)
          /\ \A i \in 1..Len(Live(calls)) : Live(calls)[i] = calls[(m - 1) + i]
      BY <1>1, <2>3, <2>5, <2>6
    <2>8. m - 1 \in 0..Len(calls) /\ (m - 1) + 1 = m
      BY <1>1, <2>3
    <2> QED BY <2>3, <2>4, <2>7, <2>8
  <1> QED BY <1>3, <1>4

\* The same of the calls that are counted, beside all that were let through.
LEMMA LiveIsLast ==
    ASSUME LimitInductive, NEW live, live = Live(counted)
    PROVE  /\ live \in Seq(Nat) /\ Len(live) <= PerMinute /\ Len(live) <= Len(accepted)
           /\ \A i \in 1..Len(live) : live[i] = accepted[Len(accepted) - Len(live) + i]
           /\ \A i \in 1..(Len(accepted) - Len(live)) : tick - accepted[i] >= WindowTicks
           /\ Len(live) = PerMinute => Len(counted) = PerMinute /\ live[1] = counted[1]
           /\ Len(live) > 0 => tick - live[1] < WindowTicks
  <1>1. /\ counted \in Seq(Nat) /\ accepted \in Seq(Nat) /\ tick \in Nat
        /\ Len(counted) \in Nat /\ Len(accepted) \in Nat /\ PerMinute \in Nat
    BY LimitAssumption DEF LimitInductive, LimitTypeOK
  <1>2. PICK gone \in 0..Len(counted) :
                 /\ Len(live) = Len(counted) - gone
                 /\ \A i \in 1..Len(live) : live[i] = counted[gone + i]
                 /\ \A i \in 1..gone : tick - counted[i] >= WindowTicks
                 /\ gone < Len(counted) => tick - counted[gone + 1] < WindowTicks
    BY <1>1, LiveIsEnd
  <1>3. live \in Seq(Nat)
    BY <1>1, LiveIsEnd
  <1> DEFINE before == Len(accepted) - Len(counted)
  <1>4. /\ before >= 0 /\ Len(counted) <= PerMinute
        /\ \A i \in 1..Len(counted) : counted[i] = accepted[before + i]
        /\ \A i \in 1..before : tick - accepted[i] >= WindowTicks
    BY DEF LimitInductive, CountedAreLast
  <1>5. ASSUME NEW i \in 1..Len(live) PROVE live[i] = accepted[Len(accepted) - Len(live) + i]
    <2>1. gone + i \in 1..Len(counted) /\ before + (gone + i) = Len(accepted) - Len(live) + i
      BY <1>1, <1>2
    <2> QED BY <1>2, <1>4, <2>1
  <1>6. ASSUME NEW i \in 1..(Len(accepted) - Len(live)) PROVE tick - accepted[i] >= WindowTicks
    <2>1. CASE i <= before
      BY <1>1, <1>2, <1>4, <2>1
    <2>2. CASE i > before
      <3>1. i - before \in 1..gone /\ i - before \in 1..Len(counted) /\ before + (i - before) = i
        <4>1. before \in Nat /\ i \in Nat /\ gone \in Nat /\ i <= Len(accepted) - Len(live)
          BY <1>1, <1>2, <1>4
        <4>2. Len(accepted) - Len(live) = before + gone /\ gone <= Len(counted)
          BY <1>1, <1>2
        <4> HIDE DEF before
        <4> QED BY <1>1, <2>2, <4>1, <4>2
      <3>2. accepted[i] = counted[i - before]
        BY <1>4, <3>1
      <3> QED BY <1>2, <3>1, <3>2
    <2> QED BY <1>1, <1>2, <2>1, <2>2
  <1>7. ASSUME Len(live) = PerMinute PROVE Len(counted) = PerMinute /\ live[1] = counted[1]
    <2>1. gone = 0 /\ Len(counted) = PerMinute /\ 1 \in 1..Len(live)
      BY <1>1, <1>2, <1>4, <1>7, LimitAssumption, SMTT(40)
    <2> QED BY <1>2, <2>1
  <1>8. ASSUME Len(live) > 0 PROVE tick - live[1] < WindowTicks
    <2>1. gone < Len(counted) /\ 1 \in 1..Len(live)
      BY <1>1, <1>2, <1>8
    <2> QED BY <1>2, <2>1
  <1> HIDE DEF before
  <1>9. Len(live) <= PerMinute /\ Len(live) <= Len(accepted)
    BY <1>1, <1>2, <1>4 DEF before
  <1> QED BY <1>3, <1>5, <1>6, <1>7, <1>8, <1>9

-----------------------------------------------------------------------------

\* No call is counted at the start.
LEMMA LimitStart == LimitInit => LimitInductive
  BY LimitAssumption, WindowIsPositive
  DEF LimitInit, LimitInductive, LimitTypeOK, CountedAreLast, CallsAreSpread, WaitIsEnough

\* A refused call leaves the window as it is but for the calls that fell out of it.
LEMMA KeepsRefuse ==
    ASSUME LimitInductive, NEW c \in CallId, Refuse(c)
    PROVE  LimitInductive'
  <1>1. PICK live : live = Live(counted)
    OBVIOUS
  <1>2. /\ live \in Seq(Nat) /\ Len(live) <= PerMinute /\ Len(live) <= Len(accepted)
        /\ \A i \in 1..Len(live) : live[i] = accepted[Len(accepted) - Len(live) + i]
        /\ \A i \in 1..(Len(accepted) - Len(live)) : tick - accepted[i] >= WindowTicks
    BY <1>1, LiveIsLast
  <1>3. /\ counted' = live /\ tick' = tick /\ accepted' = accepted /\ Len(live) >= PerMinute
        /\ told' = [until |-> tick + Wait(live) * TicksPerSecond, after |-> Len(accepted)]
    BY <1>1 DEF Refuse, Full
  <1>4. /\ accepted \in Seq(Nat) /\ tick \in Nat /\ Len(accepted) \in Nat /\ Len(live) \in Nat
        /\ PerMinute \in Nat /\ PerMinute > 0
    BY <1>2, LimitAssumption DEF LimitInductive, LimitTypeOK
  <1>5. live # <<>> /\ live[1] \in Nat /\ live[1] <= tick
    <2>1. 1 \in 1..Len(live)
      BY <1>3, <1>4
    <2>2. Len(accepted) - Len(live) + 1 \in DOMAIN accepted
      BY <1>2, <1>4, <2>1
    <2>3. live[1] = accepted[Len(accepted) - Len(live) + 1]
      BY <1>2, <2>1
    <2> QED BY <1>2, <1>4, <2>1, <2>2, <2>3 DEF LimitInductive, CallsAreSpread
  <1> DEFINE wait == Wait(live) * TicksPerSecond
  <1>6. /\ wait \in Nat /\ tick + wait >= live[1] + WindowTicks /\ wait <= WindowTicks
    BY <1>2, <1>4, <1>5, WaitCovers
  <1> HIDE DEF wait
  <1>7. told' = [until |-> tick + wait, after |-> Len(accepted)]
    BY <1>3 DEF wait
  <1>8. LimitTypeOK'
    <2>1. told' \in [until : Nat, after : Nat]
      BY <1>4, <1>6, <1>7
    <2>2. call' \in [CallId -> {"none", "rate_limited", "running", "ok", "validation_error", "rejected",
                                "internal_error", "recorded", "unrecorded"}]
      BY DEF Refuse, LimitInductive, LimitTypeOK
    <2> QED BY <1>2, <1>3, <1>4, <2>1, <2>2 DEF LimitTypeOK
  <1>9. CountedAreLast'
    BY <1>2, <1>3, <1>4 DEF CountedAreLast
  <1>10. CallsAreSpread'
    BY <1>3 DEF LimitInductive, CallsAreSpread
  <1>11. WaitIsEnough'
    BY <1>3, <1>4, <1>6, <1>7, WindowIsPositive DEF WaitIsEnough
  <1> QED BY <1>8, <1>9, <1>10, <1>11 DEF LimitInductive

\* A counted call is the last of the window.
LEMMA KeepsAccept ==
    ASSUME LimitInductive, NEW c \in CallId, Accept(c)
    PROVE  LimitInductive'
  <1>1. PICK live : live = Live(counted)
    OBVIOUS
  <1>2. /\ live \in Seq(Nat) /\ Len(live) <= Len(accepted)
        /\ \A i \in 1..Len(live) : live[i] = accepted[Len(accepted) - Len(live) + i]
        /\ \A i \in 1..(Len(accepted) - Len(live)) : tick - accepted[i] >= WindowTicks
    BY <1>1, LiveIsLast
  <1>3. /\ counted' = Append(live, tick) /\ tick' = tick /\ accepted' = Append(accepted, tick)
        /\ ~(Len(live) >= PerMinute) /\ told' = told
    BY <1>1 DEF Accept, Full
  <1>4. /\ accepted \in Seq(Nat) /\ tick \in Nat /\ Len(accepted) \in Nat /\ Len(live) \in Nat
        /\ PerMinute \in Nat /\ PerMinute > 0
    BY <1>2, LimitAssumption DEF LimitInductive, LimitTypeOK
  <1>5. /\ counted' \in Seq(Nat) /\ Len(counted') = Len(live) + 1
        /\ counted'[Len(live) + 1] = tick /\ \A i \in 1..Len(live) : counted'[i] = live[i]
    BY <1>2, <1>3, <1>4, AppendProperties
  <1>6. /\ accepted' \in Seq(Nat) /\ Len(accepted') = Len(accepted) + 1
        /\ accepted'[Len(accepted) + 1] = tick /\ \A i \in 1..Len(accepted) : accepted'[i] = accepted[i]
        /\ DOMAIN accepted' = 1..(Len(accepted) + 1)
    BY <1>3, <1>4, AppendProperties
  <1>7. LimitTypeOK'
    <2>1. call' \in [CallId -> {"none", "rate_limited", "running", "ok", "validation_error", "rejected",
                                "internal_error", "recorded", "unrecorded"}]
      BY DEF Accept, LimitInductive, LimitTypeOK
    <2> QED BY <1>3, <1>4, <1>5, <1>6, <2>1 DEF LimitInductive, LimitTypeOK
  <1>8. CountedAreLast'
    <2> DEFINE gone == Len(accepted) - Len(live)
    <2>1. Len(accepted') - Len(counted') = gone /\ gone \in Nat
      BY <1>2, <1>4, <1>5, <1>6
    <2>2. Len(counted') <= PerMinute
      BY <1>3, <1>4, <1>5
    <2>3. ASSUME NEW i \in 1..Len(counted') PROVE counted'[i] = accepted'[gone + i]
      <3>1. CASE i = Len(live) + 1
        BY <1>2, <1>4, <1>5, <1>6, <3>1
      <3>2. CASE i # Len(live) + 1
        <4>1. i \in 1..Len(live) /\ gone + i \in 1..Len(accepted)
          BY <1>2, <1>4, <1>5, <3>2
        <4> QED BY <1>2, <1>5, <1>6, <4>1
      <3> QED BY <3>1, <3>2
    <2>4. ASSUME NEW i \in 1..gone PROVE tick' - accepted'[i] >= WindowTicks
      <3>1. i \in 1..Len(accepted)
        BY <1>4, <2>1
      <3> QED BY <1>2, <1>3, <1>6, <3>1
    <2>5. PICK g \in Nat : g = gone
      BY <2>1
    <2> HIDE DEF gone
    <2>6. /\ Len(accepted') - Len(counted') = g /\ g >= 0
          /\ \A i \in 1..Len(counted') : counted'[i] = accepted'[g + i]
          /\ \A i \in 1..g : tick' - accepted'[i] >= WindowTicks
      BY <2>1, <2>3, <2>4, <2>5
    <2> QED BY <2>2, <2>6 DEF CountedAreLast
  <1>9. CallsAreSpread'
    <2>1. DOMAIN accepted = 1..Len(accepted) /\ \A i \in DOMAIN accepted : accepted[i] \in Nat /\ accepted[i] <= tick
      BY <1>4 DEF LimitInductive, CallsAreSpread
    <2>2. \A i \in DOMAIN accepted' : accepted'[i] <= tick'
      BY <1>3, <1>4, <1>6, <2>1
    <2>3. ASSUME NEW i \in DOMAIN accepted', NEW j \in DOMAIN accepted', i <= j
          PROVE  accepted'[i] <= accepted'[j]
      <3>1. CASE j = Len(accepted) + 1
        BY <1>3, <1>6, <2>2, <3>1
      <3>2. CASE j # Len(accepted) + 1
        <4>1. i \in DOMAIN accepted /\ j \in DOMAIN accepted
          BY <1>4, <1>6, <2>1, <2>3, <3>2, SMTT(40)
        <4> QED BY <1>6, <2>1, <2>3, <4>1 DEF LimitInductive, CallsAreSpread
      <3> QED BY <3>1, <3>2
    <2>4. ASSUME NEW i \in DOMAIN accepted', NEW j \in DOMAIN accepted', j = i + PerMinute
          PROVE  accepted'[j] - accepted'[i] >= WindowTicks
      <3>1. CASE j = Len(accepted) + 1
        <4>1. i \in 1..(Len(accepted) - Len(live)) /\ i \in 1..Len(accepted)
          BY <1>2, <1>3, <1>4, <1>6, <2>4, <3>1
        <4> QED BY <1>2, <1>6, <3>1, <4>1
      <3>2. CASE j # Len(accepted) + 1
        <4>1. i \in DOMAIN accepted /\ j \in DOMAIN accepted
          BY <1>4, <1>6, <2>1, <2>4, <3>2, SMTT(40)
        <4> QED BY <1>6, <2>1, <2>4, <4>1 DEF LimitInductive, CallsAreSpread
      <3> QED BY <3>1, <3>2
    <2> QED BY <2>2, <2>3, <2>4 DEF CallsAreSpread
  <1>10. WaitIsEnough'
    <2>1. told.after \in Nat /\ told.after <= Len(accepted) /\ told.until - tick <= WindowTicks
      BY DEF LimitInductive, LimitTypeOK, WaitIsEnough
    <2> QED BY <1>3, <1>4, <1>6, <2>1 DEF WaitIsEnough
  <1> QED BY <1>7, <1>8, <1>9, <1>10 DEF LimitInductive

\* A call is one or the other.
LEMMA KeepsCall ==
    ASSUME LimitInductive, NEW c \in CallId,
           \/ \E code \in {"ok", "validation_error", "rejected", "internal_error"} : Answer(c, code)
           \/ \E ok \in BOOLEAN : RecordRun(c, ok)
    PROVE  LimitInductive'
  <1>1. /\ UNCHANGED <<tick, counted, accepted, told>>
        /\ call' \in [CallId -> {"none", "rate_limited", "running", "ok", "validation_error", "rejected",
                                 "internal_error", "recorded", "unrecorded"}]
    BY DEF Answer, RecordRun, LimitInductive, LimitTypeOK
  <1> QED BY <1>1 DEF LimitInductive, LimitTypeOK, CountedAreLast, CallsAreSpread, WaitIsEnough

\* Time passes up to the wait that was told.
LEMMA KeepsTick ==
    ASSUME LimitInductive, Tick
    PROVE  LimitInductive'
  <1>1. /\ tick' = tick + 1 /\ UNCHANGED <<counted, call, accepted, told>>
        /\ tick \in Nat /\ accepted \in Seq(Nat) /\ told \in [until : Nat, after : Nat]
    BY DEF Tick, LimitInductive, LimitTypeOK
  <1>2. LimitTypeOK'
    BY <1>1 DEF LimitInductive, LimitTypeOK
  <1>3. CountedAreLast'
    <2> DEFINE gone == Len(accepted) - Len(counted)
    <2>1. ASSUME NEW i \in 1..gone PROVE tick' - accepted[i] >= WindowTicks
      <3>1. tick - accepted[i] >= WindowTicks
        BY DEF LimitInductive, CountedAreLast
      <3>2. i \in 1..Len(accepted)
        BY <1>1 DEF LimitInductive, LimitTypeOK
      <3>3. accepted[i] \in Nat
        BY <1>1, <3>2
      <3> QED BY <1>1, <3>1, <3>3, WindowIsPositive, SMTT(40)
    <2> QED BY <1>1, <2>1 DEF LimitInductive, CountedAreLast
  <1>4. CallsAreSpread'
    <2>1. \A i \in DOMAIN accepted : accepted[i] \in Nat /\ accepted[i] <= tick
      BY <1>1 DEF LimitInductive, CallsAreSpread
    <2> QED BY <1>1, <2>1 DEF LimitInductive, CallsAreSpread
  <1>5. WaitIsEnough'
    BY <1>1, WindowIsPositive DEF LimitInductive, WaitIsEnough
  <1> QED BY <1>2, <1>3, <1>4, <1>5 DEF LimitInductive

\* Each step keeps it.
LEMMA LimitStep == LimitInductive /\ [LimitNext]_limit_vars => LimitInductive'
  <1> SUFFICES ASSUME LimitInductive, [LimitNext]_limit_vars PROVE LimitInductive'
    OBVIOUS
  <1>1. ASSUME NEW c \in CallId, Refuse(c) PROVE LimitInductive'
    BY <1>1, KeepsRefuse
  <1>2. ASSUME NEW c \in CallId, Accept(c) PROVE LimitInductive'
    BY <1>2, KeepsAccept
  <1>3. ASSUME NEW c \in CallId,
               \/ \E code \in {"ok", "validation_error", "rejected", "internal_error"} : Answer(c, code)
               \/ \E ok \in BOOLEAN : RecordRun(c, ok)
        PROVE  LimitInductive'
    BY <1>3, KeepsCall
  <1>4. CASE Tick
    BY <1>4, KeepsTick
  <1>5. CASE UNCHANGED limit_vars
    BY <1>5 DEF limit_vars, LimitInductive, LimitTypeOK, CountedAreLast, CallsAreSpread, WaitIsEnough
  <1> QED BY <1>1, <1>2, <1>3, <1>4, <1>5 DEF LimitNext

\* A window that begins with any call holds no more calls than the limit.
LEMMA WindowHolds ==
    ASSUME LimitInductive, NEW i \in DOMAIN accepted
    PROVE  Cardinality({j \in DOMAIN accepted :
               accepted[j] - accepted[i] \in 0..(WindowTicks - 1)}) <= PerMinute
  <1> DEFINE within == {j \in DOMAIN accepted : accepted[j] - accepted[i] \in 0..(WindowTicks - 1)}
  <1>1. /\ DOMAIN accepted = 1..Len(accepted) /\ Len(accepted) \in Nat /\ PerMinute \in Nat /\ PerMinute > 0
        /\ \A k \in DOMAIN accepted : accepted[k] \in Nat
    BY LimitAssumption DEF LimitInductive, LimitTypeOK
  <1>2. within # {} /\ within \in SUBSET Nat
    BY <1>1, WindowIsPositive
  <1> HIDE DEF within
  <1>3. PICK k \in within : \A j \in within : k <= j
    BY <1>2, LeastNat
  <1>4. ASSUME NEW j \in within PROVE j \in k..(k + PerMinute - 1)
    <2>1. /\ k \in DOMAIN accepted /\ j \in DOMAIN accepted
          /\ accepted[k] - accepted[i] >= 0 /\ accepted[j] - accepted[i] < WindowTicks
      BY <1>1, <1>3, WindowIsPositive DEF within
    <2>2. k <= j
      BY <1>3
    <2>3. SUFFICES ASSUME j > k + PerMinute - 1 PROVE FALSE
      BY <1>1, <2>1, <2>2
    <2>4. k + PerMinute \in DOMAIN accepted /\ k + PerMinute <= j
      BY <1>1, <2>1, <2>3
    <2>5. accepted[k + PerMinute] - accepted[k] >= WindowTicks /\ accepted[k + PerMinute] <= accepted[j]
      BY <2>1, <2>4 DEF LimitInductive, CallsAreSpread
    <2> QED BY <1>1, <2>1, <2>4, <2>5, WindowIsPositive, SMTT(40)
  <1>5. k \in Nat /\ within \in SUBSET (k..(k + PerMinute - 1))
    BY <1>2, <1>4
  <1>6. IsFiniteSet(k..(k + PerMinute - 1)) /\ Cardinality(k..(k + PerMinute - 1)) = PerMinute
    <2>1. PICK b \in Int : b = k + PerMinute - 1
      BY <1>1, <1>5
    <2>2. k \in Int /\ ~(k > b) /\ b - k + 1 = PerMinute
      BY <1>1, <1>5, <2>1
    <2>3. IsFiniteSet(k..b) /\ Cardinality(k..b) = PerMinute
      BY <2>2, FS_Interval
    <2> QED BY <2>1, <2>3
  <1>7. Cardinality(within) <= Cardinality(k..(k + PerMinute - 1))
    BY <1>5, <1>6, FS_Subset
  <1> QED BY <1>6, <1>7 DEF within

\* Whatever calls come and whenever, the window holds the last ones counted and the wait told is enough
\* (LimitInductive: RateLimit.take).
THEOREM LimitInvariant == LimitSpec => []LimitInductive
  BY LimitStart, LimitStep, PTL DEF LimitSpec

\* However the calls come, no stretch of a minute has more of them than the limit, and a wait
\* that is told is enough (RateLimit.take).
THEOREM LimitHolds == LimitSpec => []MinuteHolds
  <1>1. ASSUME LimitInductive PROVE MinuteHolds
    <2> USE <1>1
    <2>1. \A i \in DOMAIN accepted :
              Cardinality({j \in DOMAIN accepted :
                  accepted[j] - accepted[i] \in 0..(WindowTicks - 1)}) <= PerMinute
      BY WindowHolds
    <2>2. told.until - tick <= WindowTicks
      BY DEF LimitInductive, WaitIsEnough
    <2>3. ASSUME told.until <= tick, told.after = Len(accepted) PROVE ~Full(Live(counted))
      <3>1. PICK live : live = Live(counted)
        OBVIOUS
      <3>2. /\ live \in Seq(Nat) /\ Len(live) <= PerMinute
            /\ Len(live) = PerMinute => Len(counted) = PerMinute /\ live[1] = counted[1]
            /\ Len(live) > 0 => tick - live[1] < WindowTicks
        BY <3>1, LiveIsLast
      <3>3. PerMinute \in Nat /\ PerMinute > 0 /\ tick \in Nat /\ told.until \in Nat
        BY LimitAssumption DEF LimitInductive, LimitTypeOK
      <3>4. SUFFICES ASSUME Len(live) = PerMinute PROVE FALSE
        BY <3>1, <3>2, <3>3 DEF Full
      <3>5. live[1] \in Nat
        BY <3>2, <3>3, <3>4
      <3>6. live[1] + WindowTicks <= told.until
        BY <2>3, <3>2, <3>4 DEF LimitInductive, WaitIsEnough
      <3> QED BY <2>3, <3>2, <3>3, <3>4, <3>5, <3>6, WindowIsPositive
    <2> QED BY <2>1, <2>2, <2>3 DEF MinuteHolds
  <1> QED BY <1>1, LimitInvariant, PTL

-----------------------------------------------------------------------------
(* The index of categories and articles *)

-----------------------------------------------------------------------------
(* Orders and their fusion *)

\* An order of a set lists each of it once.
LEMMA OrderFacts ==
    ASSUME NEW S, IsFiniteSet(S), NEW o \in Orders(S)
    PROVE  /\ DOMAIN o = 1..Cardinality(S) /\ o \in Seq(S) /\ Len(o) = Cardinality(S)
           /\ ToSet(o) = S
           /\ \A i \in DOMAIN o : Position(o, o[i]) = i
           /\ \A x \in S : Position(o, x) \in DOMAIN o /\ o[Position(o, x)] = x
           /\ \A x : x \notin S => Position(o, x) = 0
  <1>1. Cardinality(S) \in Nat
    BY FS_CardinalityType
  <1>2. /\ o \in [1..Cardinality(S) -> S]
        /\ \A i, j \in 1..Cardinality(S) : o[i] = o[j] => i = j
        /\ \A x \in S : \E i \in 1..Cardinality(S) : o[i] = x
    BY DEF Orders, Bijection, Injection, Surjection, IsInjective
  <1>3. DOMAIN o = 1..Cardinality(S) /\ o \in Seq(S) /\ Len(o) = Cardinality(S)
    BY <1>1, <1>2, SeqDef
  <1>4. ToSet(o) = S
    BY <1>2 DEF ToSet
  <1>5. ASSUME NEW x \in S PROVE Position(o, x) \in DOMAIN o /\ o[Position(o, x)] = x
    <2>1. Position(o, x) = CHOOSE i \in DOMAIN o : o[i] = x
      BY <1>4 DEF Position
    <2>2. \E i \in DOMAIN o : o[i] = x
      BY <1>2
    <2> QED BY <2>1, <2>2
  <1>6. ASSUME NEW i \in DOMAIN o PROVE Position(o, o[i]) = i
    <2>1. o[i] \in S
      BY <1>2
    <2> QED BY <1>2, <1>5, <2>1
  <1>7. \A x : x \notin S => Position(o, x) = 0
    BY <1>4 DEF Position
  <1> QED BY <1>3, <1>4, <1>5, <1>6, <1>7

\* Of two fractions 1/a + 1/b and 1/c + 1/d the one of the smaller numbers is the larger.
LEMMA SmallerRanksScoreMore ==
    ASSUME NEW a \in Nat \ {0}, NEW b \in Nat \ {0}, NEW c \in Nat, NEW d \in Nat, a < c, b < d
    PROVE  (a + b) * (c * d) > (c + d) * (a * b)
  <1>1. PICK k \in Nat \ {0}, l \in Nat \ {0} : c = a + k /\ d = b + l
    <2>1. c - a \in Nat \ {0} /\ d - b \in Nat \ {0} /\ c = a + (c - a) /\ d = b + (d - b)
      OBVIOUS
    <2> QED BY <2>1
  <1>2. (a + b) * (c * d) - (c + d) * (a * b) = (a * (a * l) + (a * k) * l) + (b * (b * k) + (b * k) * l)
    BY <1>1
  <1>3. \A x, y \in Nat \ {0} : x * y \in Nat /\ x * y > 0
    OBVIOUS
  <1>4. /\ a * (a * l) > 0 /\ (a * k) * l > 0 /\ b * (b * k) > 0 /\ (b * k) * l > 0
        /\ a * (a * l) \in Nat /\ (a * k) * l \in Nat /\ b * (b * k) \in Nat /\ (b * k) * l \in Nat
    BY <1>1, <1>3
  <1>5. (a + b) * (c * d) \in Int /\ (c + d) * (a * b) \in Int
    OBVIOUS
  <1> QED BY <1>2, <1>4, <1>5

\* What is ahead in both orders has the larger score.
LEMMA AheadInBoth ==
    ASSUME NEW a, NEW b, NEW x, NEW y,
           Position(a, x) \in Nat \ {0}, Position(b, x) \in Nat \ {0},
           Position(a, y) \in Nat, Position(b, y) \in Nat,
           Position(a, x) < Position(a, y), Position(b, x) < Position(b, y)
    PROVE  Ahead(a, b, x, y)
  <1>1. PICK p \in Nat \ {0}, q \in Nat \ {0}, r \in Nat, s \in Nat :
           /\ p = Position(a, x) /\ q = Position(b, x) /\ r = Position(a, y) /\ s = Position(b, y)
    OBVIOUS
  <1>2. p < r /\ q < s /\ r # 0 /\ s # 0 /\ p # 0 /\ q # 0
    BY <1>1
  <1>3. /\ Score(a, b, x).num = (Rrf + p) + (Rrf + q) /\ Score(a, b, x).den = (Rrf + p) * (Rrf + q)
        /\ Score(a, b, y).num = (Rrf + r) + (Rrf + s) /\ Score(a, b, y).den = (Rrf + r) * (Rrf + s)
    BY <1>1, <1>2 DEF Score
  <1>4. /\ Rrf + p \in Nat \ {0} /\ Rrf + q \in Nat \ {0} /\ Rrf + r \in Nat /\ Rrf + s \in Nat
        /\ Rrf + p < Rrf + r /\ Rrf + q < Rrf + s
    BY <1>2 DEF Rrf
  <1>5. ((Rrf + p) + (Rrf + q)) * ((Rrf + r) * (Rrf + s)) > ((Rrf + r) + (Rrf + s)) * ((Rrf + p) * (Rrf + q))
    BY <1>4, SmallerRanksScoreMore
  <1>6. Score(a, b, x).num * Score(a, b, y).den > Score(a, b, y).num * Score(a, b, x).den
    BY <1>3, <1>5
  <1> QED BY <1>6 DEF Ahead

\* What is ahead in both orders stays ahead where the two become one.
LEMMA FusionKeeps ==
    ASSUME NEW S, IsFiniteSet(S), NEW near \in SUBSET S,
           NEW words \in Orders(S), NEW close \in Orders(near), NEW hits \in Fused(words, close)
    PROVE  /\ ToSet(hits) = S /\ Len(hits) = Cardinality(S)
           /\ \A x, y \in ToSet(close) :
                  /\ Position(words, x) < Position(words, y)
                  /\ Position(close, x) < Position(close, y)
                  => Position(hits, x) < Position(hits, y)
  <1>1. IsFiniteSet(near) /\ Cardinality(near) \in Nat /\ Cardinality(S) \in Nat
    BY FS_Subset, FS_CardinalityType
  <1>2. ToSet(words) = S /\ ToSet(close) = near
    BY <1>1, OrderFacts
  <1>3. S \cup near = S
    OBVIOUS
  <1>4. hits \in Orders(S) /\ \A i, j \in DOMAIN hits : i < j => ~Ahead(words, close, hits[j], hits[i])
    BY <1>2, <1>3 DEF Fused
  <1>5. ASSUME NEW x \in near, NEW y \in near,
               Position(words, x) < Position(words, y), Position(close, x) < Position(close, y)
        PROVE  Position(hits, x) < Position(hits, y)
    <2>1. /\ Position(words, x) \in 1..Cardinality(S) /\ Position(words, y) \in 1..Cardinality(S)
      BY OrderFacts
    <2>2. /\ Position(close, x) \in 1..Cardinality(near) /\ Position(close, y) \in 1..Cardinality(near)
      BY <1>1, OrderFacts
    <2>3. /\ Position(hits, x) \in DOMAIN hits /\ Position(hits, y) \in DOMAIN hits
          /\ hits[Position(hits, x)] = x /\ hits[Position(hits, y)] = y
          /\ DOMAIN hits = 1..Cardinality(S)
      BY <1>4, OrderFacts
    <2>4. Ahead(words, close, x, y)
      BY <1>1, <1>5, <2>1, <2>2, AheadInBoth
    <2>5. ~(Position(hits, y) < Position(hits, x))
      BY <1>4, <2>3, <2>4
    <2>6. Position(hits, x) # Position(hits, y)
      <3>1. SUFFICES ASSUME Position(hits, x) = Position(hits, y) PROVE FALSE
        OBVIOUS
      <3>2. x = y
        BY <2>3, <3>1
      <3> QED BY <1>5, <2>1, <3>2
    <2> QED BY <1>1, <2>3, <2>5, <2>6
  <1>6. ToSet(hits) = S /\ Len(hits) = Cardinality(S)
    BY <1>4, OrderFacts
  <1> QED BY <1>2, <1>5, <1>6

\* The articles are as many as the list of them is long.
LEMMA ArticlesAreFinite == IsFiniteSet(ToSet(Article)) /\ Cardinality(ToSet(Article)) = Len(Article)
  <1>1. DOMAIN Article = 1..Len(Article) /\ Len(Article) \in Nat /\ Article \in [1..Len(Article) -> ToSet(Article)]
    BY IndexAssumption
  <1>2. Article \in Bijection(1..Len(Article), ToSet(Article))
    BY <1>1, IndexAssumption DEF Bijection, Injection, Surjection, IsInjective, ToSet
  <1>3. ExistsBijection(1..Len(Article), ToSet(Article))
    BY <1>2 DEF ExistsBijection
  <1>4. IsFiniteSet(ToSet(Article))
    BY <1>1, <1>3, FS_NatBijection
  <1>5. Cardinality(ToSet(Article)) = Len(Article)
    BY <1>1, <1>3, FS_CountingElements
  <1> QED BY <1>4, <1>5

-----------------------------------------------------------------------------
(* What is pending, and what is suggested *)

\* A batch that is not full has every text of an entry that is missing in it.
LEMMA ShortBatchIsAll ==
    ASSUME IndexTypeOK, NEW found \in Pending(Batch)
    PROVE  /\ found \subseteq All /\ IsFiniteSet(found)
           /\ Cardinality(found) < Batch => EntriesPending \subseteq found
  <1>1. Batch \in Nat /\ Batch # 0 /\ Smaller(Batch, MaxPending) = Batch
    BY IndexAssumption DEF Smaller
  <1>2. PICK T \in SUBSET EntriesPending :
           /\ Cardinality(T) = Smaller(Batch, Cardinality(EntriesPending))
           /\ found = T \cup FirstArticles(Batch - Cardinality(T))
    BY <1>1 DEF Pending
  <1>3. EntriesPending \subseteq Text /\ IsFiniteSet(EntriesPending)
    <2>1. EntriesPending \in SUBSET Text
      BY DEF EntriesPending
    <2> QED BY <2>1, FS_Subset, IndexAssumption
  <1>4. FirstArticles(Batch - Cardinality(T)) \subseteq ToSet(Article)
    BY DEF FirstArticles, ArticlesPending, ToSet
  <1>5. ToSet(Article) \subseteq All /\ Text \subseteq All
    BY DEF All, ToSet
  <1>6. IsFiniteSet(T) /\ IsFiniteSet(FirstArticles(Batch - Cardinality(T)))
    BY <1>2, <1>3, <1>4, ArticlesAreFinite, FS_Subset
  <1>7. IsFiniteSet(found) /\ T \subseteq found
    BY <1>2, <1>6, FS_Union
  <1>8. ASSUME Cardinality(found) < Batch PROVE EntriesPending \subseteq found
    <2>1. Cardinality(T) <= Cardinality(found) /\ Cardinality(found) \in Nat /\ Cardinality(T) \in Nat
      BY <1>6, <1>7, FS_Subset, FS_CardinalityType
    <2>2. Cardinality(EntriesPending) \in Nat
      BY <1>3, FS_CardinalityType
    <2>3. Cardinality(T) = Cardinality(EntriesPending)
      BY <1>1, <1>2, <1>8, <2>1, <2>2 DEF Smaller
    <2>4. T = EntriesPending
      BY <1>3, <2>3, FS_Subset
    <2> QED BY <1>7, <2>4
  <1> QED BY <1>2, <1>3, <1>4, <1>5, <1>7, <1>8

\* Nothing is found pending only where no entry's text is.
LEMMA NothingPending ==
    ASSUME IndexTypeOK, {} \in Pending(Batch), NEW e \in Begun
    PROVE  vectors[entries[e].text] # None
  <1>1. Cardinality({}) < Batch
    BY FS_EmptySet, IndexAssumption
  <1>2. EntriesPending = {}
    BY <1>1, ShortBatchIsAll
  <1>3. entries[e].text \in Text
    BY DEF IndexTypeOK, Begun, IndexRow
  <1> QED BY <1>2, <1>3 DEF EntriesPending

\* As many are shown of a category as there are.
LEMMA ShownAreAsMany ==
    ASSUME NEW S \in SUBSET Entry, NEW c
    PROVE  Cardinality({x \in Shown(S) : x.category = c}) = Cardinality({e \in S : entries[e].category = c})
  <1> DEFINE A == {e \in S : entries[e].category = c}
             R == {x \in Shown(S) : x.category = c}
             f == [e \in A |-> [id |-> e, category |-> entries[e].category]]
  <1>1. IsFiniteSet(A)
    <2>1. A \in SUBSET Entry
      OBVIOUS
    <2> QED BY <2>1, FS_Subset, IndexAssumption
  <1>2. f \in [A -> R] /\ \A e, g \in A : f[e] = f[g] => e = g
    BY DEF Shown
  <1>3. \A x \in R : \E e \in A : f[e] = x
    BY DEF Shown
  <1> HIDE DEF A, R, f
  <1>4. f \in Bijection(A, R)
    BY <1>2, <1>3 DEF Bijection, Injection, Surjection, IsInjective
  <1>5. ExistsBijection(A, R)
    BY <1>4 DEF ExistsBijection
  <1>6. Cardinality(R) = Cardinality(A)
    BY <1>1, <1>5, FS_Bijection
  <1> QED BY <1>6 DEF A, R

\* A category by history has enough entries of it, one by neighbours has one.
LEMMA SuggestedFacts ==
    ASSUME IndexTypeOK, NEW t, NEW again, NEW found \in Suggested(t, again)
    PROVE  /\ found.by \in {"rule", "history", "needs_vector", "none", "vector"}
           /\ found = [by |-> found.by, top |-> found.top, given |-> found.given]
           /\ found.by = "history" =>
                 /\ found.top \in Choosable /\ found.given \in SUBSET Entry
                 /\ Cardinality({e \in found.given : entries[e].category = found.top}) >= HistoryAgree
           /\ found.by = "vector" =>
                 /\ found.top \in Choosable /\ found.given \in SUBSET Entry
                 /\ \A e \in found.given : entries[e].category \in Choosable
                 /\ \E e \in found.given : entries[e].category = found.top
  <1>1. Begun \subseteq Entry /\ Recent(t) \subseteq Begun /\ Neighbours \subseteq Begun
    BY DEF Begun, Recent, OfText, Neighbours
  <1>2. CASE found \in Hits("rule", ByRule(t), {})
    BY <1>2 DEF Hits
  <1>3. CASE found \in Hits("history", Agreeing(t), Recent(t))
    <2>1. PICK c \in Agreeing(t) : found = [by |-> "history", top |-> c, given |-> Recent(t)]
      BY <1>3 DEF Hits
    <2>2. c \in Choosable /\ Cardinality({e \in Recent(t) : entries[e].category = c}) >= HistoryAgree
      BY DEF Agreeing
    <2> QED BY <1>1, <2>1, <2>2
  <1>4. CASE found \in Hits("needs_vector", {None}, {})
    BY <1>4 DEF Hits
  <1>5. CASE found \in Hits("none", {None}, {})
    BY <1>5 DEF Hits
  <1>6. CASE found \in Hits("vector", Vote(Neighbours), Neighbours)
    <2>1. PICK c \in Vote(Neighbours) : found = [by |-> "vector", top |-> c, given |-> Neighbours]
      BY <1>6 DEF Hits
    <2>2. PICK e \in Neighbours : entries[e].category = c
      BY DEF Vote
    <2>3. \A g \in Neighbours : entries[g].category \in Choosable
      BY DEF Neighbours
    <2> QED BY <1>1, <2>1, <2>2, <2>3
  <1>7. \/ found \in Hits("rule", ByRule(t), {})
        \/ found \in Hits("history", Agreeing(t), Recent(t))
        \/ found \in Hits("needs_vector", {None}, {})
        \/ found \in Hits("none", {None}, {})
        \/ found \in Hits("vector", Vote(Neighbours), Neighbours)
    BY DEF Suggested
  <1> QED BY <1>2, <1>3, <1>4, <1>5, <1>6, <1>7

-----------------------------------------------------------------------------
(* The steps *)

Holding == {"pulling", "embedding", "putting"}

\* What is promised of one answer.
ChoiceStands(a) ==
    a # None /\ a.by \in {"history", "vector", "llm"} =>
        LET same == {e \in a.found : e.category = a.category} IN
        /\ a.category \in Choosable
        /\ a.by = "history" => Cardinality(same) >= HistoryAgree
        /\ a.by = "vector" => same # {}
        /\ a.by = "llm" => a.given # {} /\ a.given \subseteq {e.id : e \in a.found}
OrderStands(a) ==
    a # None /\ a.by = "both" =>
        /\ ToSet(a.hits) = ToSet(Article) /\ Len(a.hits) = Len(Article)
        /\ \A x, y \in ToSet(a.close) :
               /\ Position(a.words, x) < Position(a.words, y)
               /\ Position(a.close, x) < Position(a.close, y)
               => Position(a.hits, x) < Position(a.hits, y)

\* An answer that stands leaves all of them standing.
LEMMA AnswersStand ==
    ASSUME IndexInductive, NEW r \in Request, NEW what, Says(r, what),
           ChoiceStands(what), OrderStands(what)
    PROVE  ChoiceIsGrounded' /\ FusionKeepsOrder' /\ DOMAIN answer' = Request
  <1>1. /\ DOMAIN answer' = Request /\ answer'[r] = what
        /\ \A q \in Request : q # r => answer'[q] = answer[q]
    BY DEF Says, IndexInductive, IndexTypeOK
  <1>2. \A q \in Request : ChoiceStands(answer[q]) /\ OrderStands(answer[q])
    BY DEF IndexInductive, ChoiceIsGrounded, FusionKeepsOrder, ChoiceStands, OrderStands
  <1>3. \A q \in Request : ChoiceStands(answer'[q]) /\ OrderStands(answer'[q])
    BY <1>1, <1>2
  <1>4. ChoiceIsGrounded'
    BY <1>3 DEF ChoiceStands, ChoiceIsGrounded
  <1>5. FusionKeepsOrder'
    BY <1>3 DEF OrderStands, FusionKeepsOrder
  <1> QED BY <1>1, <1>4, <1>5

\* So does a step without an answer.
LEMMA SameAnswers ==
    ASSUME IndexInductive, answer' = answer
    PROVE  ChoiceIsGrounded' /\ FusionKeepsOrder' /\ DOMAIN answer' = Request
  <1>1. ChoiceIsGrounded'
    BY DEF IndexInductive, ChoiceIsGrounded
  <1>2. FusionKeepsOrder'
    BY DEF IndexInductive, FusionKeepsOrder
  <1> QED BY <1>1, <1>2 DEF IndexInductive, IndexTypeOK

\* An answer by no neighbour and no article says nothing to hold.
LEMMA PlainAnswers ==
    ASSUME NEW by, by \notin {"history", "vector", "llm", "both"}
    PROVE  ChoiceStands([by |-> by]) /\ OrderStands([by |-> by])
  BY DEF ChoiceStands, OrderStands

\* Where one request moves on: what it is now is as it has to be, and the locks of the others
\* stay theirs.
LEMMA OneMoves ==
    ASSUME IndexInductive, NEW r \in Request, NEW new \in AskState, ask' = [ask EXCEPT ![r] = new],
           entries' = entries, vectors' \in [All -> VectorId \cup {None}],
           \A t \in All : vectors[t] # None => vectors'[t] # None,
           holder' \in [Kind -> Request \cup {None}],
           \A q \in Request \ {r} : ask[q].at \in Holding => holder'[q.kind] = q,
           new.at \in Holding => holder'[r.kind] = r,
           new.at = "putting" => new.vector # None,
           new.since \subseteq Begun,
           new.at \in {"embedding", "putting"} /\ Cardinality(new.pulled) < Batch =>
               \A e \in new.since :
                   \/ vectors'[entries[e].text] # None
                   \/ entries[e].text \in IF new.at = "putting" THEN new.left ELSE new.pulled,
           new.whole => new.at # "idle" /\ \A e \in new.since : vectors'[entries[e].text] # None,
           ChoiceIsGrounded' /\ FusionKeepsOrder' /\ DOMAIN answer' = Request
    PROVE  IndexInductive'
  <1>1. /\ ask \in [Request -> AskState] /\ ask' \in [Request -> AskState] /\ ask'[r] = new
        /\ \A q \in Request \ {r} : ask'[q] = ask[q]
    BY DEF IndexInductive, IndexTypeOK
  <1>2. IndexTypeOK'
    BY <1>1 DEF IndexInductive, IndexTypeOK
  <1>3. LocksHold'
    BY <1>1 DEF IndexInductive, LocksHold, Holding
  <1>4. Begun' = Begun /\ \A e \in Begun : entries[e].text \in All
    BY DEF Begun, IndexInductive, IndexTypeOK, IndexRow, All
  <1>5. PulledAreAll'
    <2>1. ASSUME NEW q \in Request \ {r}
          PROVE  /\ ask[q].since \subseteq Begun
                 /\ ask[q].at \in {"embedding", "putting"} /\ Cardinality(ask[q].pulled) < Batch =>
                        \A e \in ask[q].since :
                            \/ vectors'[entries[e].text] # None
                            \/ entries[e].text \in IF ask[q].at = "putting" THEN ask[q].left ELSE ask[q].pulled
                 /\ ask[q].whole => ask[q].at # "idle" /\ \A e \in ask[q].since : vectors'[entries[e].text] # None
      BY <1>4 DEF IndexInductive, PulledAreAll
    <2> QED BY <1>1, <1>4, <2>1 DEF PulledAreAll
  <1> QED BY <1>2, <1>3, <1>5 DEF IndexInductive

\* The same where no vector and no lock moves.
LEMMA OneMovesAlone ==
    ASSUME IndexInductive, NEW r \in Request, NEW new \in AskState, ask' = [ask EXCEPT ![r] = new],
           UNCHANGED <<entries, vectors, holder>>,
           new.at \notin {"pulling", "putting", "idle"},
           new.at = "embedding" => ask[r].at \in Holding,
           new.since \subseteq Begun,
           new.at = "embedding" /\ Cardinality(new.pulled) < Batch =>
               \A e \in new.since : vectors[entries[e].text] # None \/ entries[e].text \in new.pulled,
           new.whole => \A e \in new.since : vectors[entries[e].text] # None,
           ChoiceIsGrounded' /\ FusionKeepsOrder' /\ DOMAIN answer' = Request
    PROVE  IndexInductive'
  <1>1. \A q \in Request : ask[q].at \in Holding => holder[q.kind] = q
    BY DEF IndexInductive, LocksHold, Holding
  <1>2. vectors \in [All -> VectorId \cup {None}] /\ holder \in [Kind -> Request \cup {None}]
    BY DEF IndexInductive, IndexTypeOK
  <1>3. new.at \in Holding => new.at = "embedding"
    BY DEF Holding
  <1> QED BY <1>1, <1>2, <1>3, OneMoves

\* The lock is given back: nobody else of the kind has it.
LEMMA ReleaseFits ==
    ASSUME IndexInductive, NEW r \in Request, ask[r].at \in Holding, Release(r)
    PROVE  /\ holder' \in [Kind -> Request \cup {None}]
           /\ \A q \in Request \ {r} : ask[q].at \in Holding => holder'[q.kind] = q
  <1>1. \A q \in Request : q.kind \in Kind
    BY IndexAssumption
  <1>2. \A q \in Request : ask[q].at \in Holding => holder[q.kind] = q
    BY DEF IndexInductive, LocksHold, Holding
  <1>3. holder \in [Kind -> Request \cup {None}]
    BY DEF IndexInductive, IndexTypeOK
  <1> QED BY <1>1, <1>2, <1>3 DEF Release

\* Nothing is asked at the start.
LEMMA IndexStart == IndexInit => IndexInductive
  <1> SUFFICES ASSUME IndexInit PROVE IndexInductive
    OBVIOUS
  <1>1. PICK S \in Meetings : ask = [r \in Request |-> Phase(IF r \in S THEN "idle" ELSE "done")]
    BY DEF IndexInit
  <1>2. \A at \in {"idle", "done"} : Phase(at) \in AskState
    BY DEF Phase, AskState
  <1>3. ask \in [Request -> AskState]
    BY <1>1, <1>2
  <1>4. \A r \in Request : ask[r].at \in {"idle", "done"} /\ ask[r].since = {} /\ ~ask[r].whole
    BY <1>1 DEF Phase
  <1>5. IndexTypeOK
    BY <1>3, IndexAssumption DEF IndexInit, IndexTypeOK
  <1>6. LocksHold /\ PulledAreAll
    BY <1>4 DEF LocksHold, PulledAreAll
  <1>7. ChoiceIsGrounded /\ FusionKeepsOrder
    BY DEF IndexInit, ChoiceIsGrounded, FusionKeepsOrder
  <1> QED BY <1>5, <1>6, <1>7 DEF IndexInductive

\* An entry is saved with its category, whatever is asked.
LEMMA KeepsSaveEntry ==
    ASSUME IndexInductive, NEW e \in Entry, NEW row \in [text : Text, category : Choosable, ours : BOOLEAN] \cup {None},
           SaveEntry(e, row)
    PROVE  IndexInductive'
  <1>1. /\ entries' = [entries EXCEPT ![e] = row] /\ UNCHANGED <<vectors, holder, answer>>
        /\ ask' = [r \in Request |-> [ask[r] EXCEPT !.since = ask[r].since \ {e}]]
    BY DEF SaveEntry
  <1>2. row \in IndexRow \cup {None}
    BY DEF IndexRow, IndexCategory
  <1>3. /\ entries' \in [Entry -> IndexRow \cup {None}]
        /\ \A f \in Entry \ {e} : entries'[f] = entries[f]
    BY <1>1, <1>2 DEF IndexInductive, IndexTypeOK
  <1>4. ASSUME NEW r \in Request
        PROVE  /\ ask'[r] \in AskState /\ ask'[r].since = ask[r].since \ {e}
               /\ ask'[r].at = ask[r].at /\ ask'[r].whole = ask[r].whole /\ ask'[r].vector = ask[r].vector
               /\ ask'[r].pulled = ask[r].pulled /\ ask'[r].left = ask[r].left
    <2>1. ask[r] \in AskState
      BY DEF IndexInductive, IndexTypeOK
    <2> QED BY <1>1, <2>1 DEF AskState
  <1>5. IndexTypeOK'
    BY <1>1, <1>3, <1>4 DEF IndexInductive, IndexTypeOK
  <1>6. LocksHold'
    BY <1>1, <1>4 DEF IndexInductive, LocksHold
  <1>7. PulledAreAll'
    <2>1. ASSUME NEW r \in Request, NEW f \in ask'[r].since
          PROVE  f \in ask[r].since /\ f \in Begun' /\ entries'[f] = entries[f]
      <3>1. f \in ask[r].since /\ f \in Begun /\ f \in Entry \ {e}
        BY <1>4, <2>1 DEF IndexInductive, PulledAreAll, Begun
      <3> QED BY <1>3, <3>1 DEF Begun
    <2> QED BY <1>1, <1>4, <2>1 DEF IndexInductive, PulledAreAll
  <1>8. ChoiceIsGrounded' /\ FusionKeepsOrder'
    BY <1>1, SameAnswers
  <1> QED BY <1>5, <1>6, <1>7, <1>8 DEF IndexInductive

\* A request begins with no lock and no texts.
LEMMA KeepsBeginAsk ==
    ASSUME IndexInductive, NEW r \in Request, BeginAsk(r)
    PROVE  IndexInductive'
  <1> DEFINE new == [ask[r] EXCEPT !.at = "waiting", !.since = Begun]
  <1>1. ask[r] \in AskState /\ ask \in [Request -> AskState] /\ ask[r].at = "idle" /\ ~ask[r].whole
    BY DEF BeginAsk, IndexInductive, IndexTypeOK, PulledAreAll
  <1>2. /\ new \in AskState /\ new.at = "waiting" /\ new.since = Begun /\ ~new.whole
    <2>1. Begun \in SUBSET Entry
      BY DEF Begun
    <2> QED BY <1>1, <2>1 DEF AskState
  <1>3. ask' = [ask EXCEPT ![r] = new]
    BY <1>1 DEF BeginAsk
  <1> HIDE DEF new
  <1> QED BY <1>2, <1>3, OneMovesAlone, SameAnswers DEF BeginAsk

\* A lock that is free is taken by one.
LEMMA KeepsTakeLock ==
    ASSUME IndexInductive, NEW r \in Request, TakeLock(r)
    PROVE  IndexInductive'
  <1> DEFINE new == [ask[r] EXCEPT !.at = "pulling", !.round = 1]
  <1>1. /\ ask[r] \in AskState /\ ask \in [Request -> AskState] /\ r.kind \in Kind
        /\ holder \in [Kind -> Request \cup {None}] /\ vectors \in [All -> VectorId \cup {None}]
    BY IndexAssumption DEF IndexInductive, IndexTypeOK
  <1>2. new \in AskState /\ new.at = "pulling" /\ new.since = ask[r].since /\ new.whole = ask[r].whole
    BY <1>1 DEF AskState
  <1>3. ask' = [ask EXCEPT ![r] = new]
    BY <1>1 DEF TakeLock
  <1> HIDE DEF new
  <1>4. /\ holder' \in [Kind -> Request \cup {None}] /\ holder'[r.kind] = r
        /\ \A q \in Request \ {r} : ask[q].at \in Holding => holder'[q.kind] = q
    BY <1>1, IndexAssumption DEF TakeLock, IndexInductive, LocksHold, Holding
  <1>5. /\ new.since \subseteq Begun
        /\ new.whole => \A e \in new.since : vectors[entries[e].text] # None
    BY <1>2 DEF IndexInductive, PulledAreAll
  <1>6. entries' = entries /\ vectors' = vectors /\ answer' = answer
    BY DEF TakeLock
  <1> QED BY <1>1, <1>2, <1>3, <1>4, <1>5, <1>6, OneMoves, SameAnswers

\* The search begins with the lock given back; it knows of the entries what was made sure.
LEMMA SearchFits ==
    ASSUME IndexInductive, NEW r \in Request, NEW whole \in BOOLEAN, ask[r].at \in Holding,
           Search(r, whole), Release(r), entries' = entries, answer' = answer,
           vectors' \in [All -> VectorId \cup {None}],
           \A t \in All : vectors[t] # None => vectors'[t] # None,
           whole => \A e \in ask[r].since : vectors'[entries[e].text] # None
    PROVE  IndexInductive'
  <1> DEFINE new == [Phase("searching") EXCEPT !.since = ask[r].since, !.whole = whole]
  <1>1. ask[r].since \in SUBSET Entry /\ ask[r].since \subseteq Begun
    BY DEF IndexInductive, IndexTypeOK, AskState, PulledAreAll
  <1>2. /\ new \in AskState /\ new.at = "searching" /\ new.since = ask[r].since /\ new.whole = whole
    BY <1>1 DEF Phase, AskState
  <1>3. ask' = [ask EXCEPT ![r] = new]
    BY DEF Search
  <1> HIDE DEF new
  <1>4. /\ holder' \in [Kind -> Request \cup {None}]
        /\ \A q \in Request \ {r} : ask[q].at \in Holding => holder'[q.kind] = q
    BY ReleaseFits
  <1>5. new.at \notin Holding
    BY <1>2 DEF Holding
  <1> QED BY <1>1, <1>2, <1>3, <1>4, <1>5, OneMoves, SameAnswers

\* What is pulled under the lock is all that is pending.
LEMMA KeepsPull ==
    ASSUME IndexInductive, NEW r \in Request, Pull(r)
    PROVE  IndexInductive'
  <1>1. /\ ask[r] \in AskState /\ ask \in [Request -> AskState] /\ IndexTypeOK
        /\ vectors \in [All -> VectorId \cup {None}]
        /\ ask[r].since \subseteq Begun /\ ask[r].at = "pulling"
        /\ UNCHANGED <<entries, vectors, answer>>
    BY DEF Pull, IndexInductive, IndexTypeOK, PulledAreAll
  <1>2. PICK found \in Pending(Batch) :
          \/ found = {} /\ Search(r, TRUE) /\ Release(r)
          \/ /\ found # {} /\ UNCHANGED holder
             /\ ask' = [ask EXCEPT ![r].at = "embedding", ![r].pulled = found]
    BY DEF Pull
  <1>3. CASE found = {} /\ Search(r, TRUE) /\ Release(r)
    <2>1. \A e \in ask[r].since : vectors'[entries[e].text] # None
      BY <1>1, <1>2, <1>3, NothingPending
    <2>2. ask[r].at \in Holding
      BY <1>1 DEF Holding
    <2> QED BY <1>1, <1>3, <2>1, <2>2, SearchFits
  <1>4. CASE UNCHANGED holder /\ ask' = [ask EXCEPT ![r].at = "embedding", ![r].pulled = found]
    <2> DEFINE new == [ask[r] EXCEPT !.at = "embedding", !.pulled = found]
    <2>1. found \subseteq All /\ (Cardinality(found) < Batch => EntriesPending \subseteq found)
      BY <1>1, ShortBatchIsAll
    <2>2. /\ new \in AskState /\ new.at = "embedding" /\ new.pulled = found
          /\ new.since = ask[r].since /\ new.whole = ask[r].whole
      BY <1>1, <2>1 DEF AskState
    <2>3. ask' = [ask EXCEPT ![r] = new]
      BY <1>1, <1>4
    <2>4. ASSUME NEW e \in ask[r].since, vectors[entries[e].text] = None
          PROVE  entries[e].text \in EntriesPending
      <3>1. e \in Begun /\ entries[e].text \in Text
        BY <1>1 DEF Begun, IndexTypeOK, IndexRow
      <3> QED BY <2>4, <3>1 DEF EntriesPending
    <2> HIDE DEF new
    <2>5. new.whole => \A e \in new.since : vectors[entries[e].text] # None
      BY <2>2 DEF IndexInductive, PulledAreAll
    <2>6. ask[r].at \in Holding
      BY <1>1 DEF Holding
    <2> QED BY <1>1, <1>4, <2>1, <2>2, <2>3, <2>4, <2>5, <2>6, OneMovesAlone, SameAnswers, ZenonT(60)
  <1> QED BY <1>2, <1>3, <1>4

\* Embedding writes nothing.
LEMMA KeepsEmbedTexts ==
    ASSUME IndexInductive, NEW r \in Request, NEW v \in VectorId \cup {None}, EmbedTexts(r, v)
    PROVE  IndexInductive'
  <1>1. /\ ask[r] \in AskState /\ ask \in [Request -> AskState] /\ ask[r].at = "embedding"
        /\ vectors \in [All -> VectorId \cup {None}] /\ holder \in [Kind -> Request \cup {None}]
        /\ UNCHANGED <<entries, vectors, answer>>
    BY DEF EmbedTexts, IndexInductive, IndexTypeOK
  <1>2. ask[r].at \in Holding /\ \A q \in Request : ask[q].at \in Holding => holder[q.kind] = q
    BY <1>1 DEF Holding, IndexInductive, LocksHold
  <1>3. CASE v = None /\ Search(r, FALSE) /\ Release(r)
    BY <1>1, <1>2, <1>3, SearchFits
  <1>4. CASE v # None /\ UNCHANGED holder
             /\ ask' = [ask EXCEPT ![r].at = "putting", ![r].left = ask[r].pulled, ![r].vector = v]
    <2> DEFINE new == [ask[r] EXCEPT !.at = "putting", !.left = ask[r].pulled, !.vector = v]
    <2>1. /\ new \in AskState /\ new.at = "putting" /\ new.pulled = ask[r].pulled /\ new.left = ask[r].pulled
          /\ new.since = ask[r].since /\ new.whole = ask[r].whole /\ new.vector = v
      BY <1>1 DEF AskState
    <2>2. ask' = [ask EXCEPT ![r] = new]
      BY <1>1, <1>4
    <2> HIDE DEF new
    <2>3. /\ new.since \subseteq Begun
          /\ new.whole => \A e \in new.since : vectors[entries[e].text] # None
          /\ Cardinality(new.pulled) < Batch =>
                 \A e \in new.since : vectors[entries[e].text] # None \/ entries[e].text \in new.left
      BY <1>1, <2>1 DEF IndexInductive, PulledAreAll
    <2> QED BY <1>1, <1>2, <1>4, <2>1, <2>2, <2>3, OneMoves, SameAnswers, ZenonT(60)
  <1> QED BY <1>3, <1>4 DEF EmbedTexts

\* A vector is put for a text that was pulled.
LEMMA KeepsPutVector ==
    ASSUME IndexInductive, NEW r \in Request, NEW t \in All, PutVector(r, t)
    PROVE  IndexInductive'
  <1>1. /\ ask[r] \in AskState /\ ask \in [Request -> AskState] /\ ask[r].at = "putting"
        /\ t \in ask[r].left /\ holder \in [Kind -> Request \cup {None}]
        /\ UNCHANGED <<entries, answer>> /\ vectors' = [vectors EXCEPT ![t] = ask[r].vector]
        /\ ask[r].since \subseteq Begun
    BY DEF PutVector, IndexInductive, IndexTypeOK, PulledAreAll
  <1>2. /\ vectors' \in [All -> VectorId \cup {None}] /\ vectors'[t] # None
        /\ \A u \in All : vectors[u] # None => vectors'[u] # None
    <2>1. ask[r].vector # None /\ ask[r].vector \in VectorId \cup {None}
      BY <1>1 DEF IndexInductive, LocksHold, AskState
    <2> QED BY <1>1, <2>1 DEF IndexInductive, IndexTypeOK
  <1>3. ask[r].at \in Holding /\ \A q \in Request : ask[q].at \in Holding => holder[q.kind] = q
    BY <1>1 DEF Holding, IndexInductive, LocksHold
  <1>4. \A e \in ask[r].since : entries[e].text \in All
    BY <1>1 DEF Begun, IndexInductive, IndexTypeOK, IndexRow, All
  <1>5. ask[r].whole => \A e \in ask[r].since : vectors'[entries[e].text] # None
    BY <1>2, <1>4 DEF IndexInductive, PulledAreAll
  <1>6. Cardinality(ask[r].pulled) < Batch =>
            \A e \in ask[r].since : vectors'[entries[e].text] # None \/ entries[e].text \in ask[r].left \ {t}
    BY <1>1, <1>2, <1>4 DEF IndexInductive, PulledAreAll
  <1> DEFINE short == Cardinality(ask[r].pulled) < Batch
  <1>11. ChoiceIsGrounded' /\ FusionKeepsOrder' /\ DOMAIN answer' = Request
    BY <1>1, SameAnswers
  <1>12. /\ entries' = entries /\ vectors' \in [All -> VectorId \cup {None}]
         /\ \A u \in All : vectors[u] # None => vectors'[u] # None
    BY <1>1, <1>2
  <1>7. CASE ask[r].left # {t} /\ UNCHANGED holder /\ ask' = [ask EXCEPT ![r].left = @ \ {t}]
    <2> DEFINE new == [ask[r] EXCEPT !.left = ask[r].left \ {t}]
    <2>1. /\ new \in AskState /\ new.at = "putting" /\ new.pulled = ask[r].pulled
          /\ new.left = ask[r].left \ {t} /\ new.since = ask[r].since /\ new.whole = ask[r].whole
          /\ new.vector = ask[r].vector
      BY <1>1 DEF AskState
    <2>2. ask' = [ask EXCEPT ![r] = new]
      BY <1>1, <1>7
    <2> HIDE DEF new
    <2>3. new.vector # None
      BY <1>1, <2>1 DEF IndexInductive, LocksHold
    <2>4. holder' \in [Kind -> Request \cup {None}] /\ new.since \subseteq Begun
      BY <1>1, <1>7, <2>1
    <2>5. \A q \in Request : ask[q].at \in Holding => holder'[q.kind] = q
      BY <1>3, <1>7
    <2>6. /\ new.whole => \A e \in new.since : vectors'[entries[e].text] # None
          /\ Cardinality(new.pulled) < Batch =>
                 \A e \in new.since : vectors'[entries[e].text] # None \/ entries[e].text \in new.left
      BY <1>5, <1>6, <2>1
    <2>7. holder'[r.kind] = r
      BY <1>3, <2>5
    <2> QED BY <1>11, <1>12, <2>1, <2>2, <2>3, <2>4, <2>5, <2>6, <2>7, OneMoves
  <1>8. CASE UNCHANGED holder /\ ask[r].round \in Nat
             /\ ask' = [ask EXCEPT ![r].at = "pulling", ![r].round = @ + 1, ![r].left = {}]
    <2> DEFINE new == [ask[r] EXCEPT !.at = "pulling", !.round = ask[r].round + 1, !.left = {}]
    <2>1. /\ new \in AskState /\ new.at = "pulling" /\ new.since = ask[r].since /\ new.whole = ask[r].whole
      BY <1>1, <1>8 DEF AskState
    <2>2. ask' = [ask EXCEPT ![r] = new]
      BY <1>1, <1>8
    <2> HIDE DEF new
    <2>3. holder' \in [Kind -> Request \cup {None}] /\ new.since \subseteq Begun
      BY <1>1, <1>8, <2>1
    <2>4. \A q \in Request : ask[q].at \in Holding => holder'[q.kind] = q
      BY <1>3, <1>8
    <2>5. new.whole => \A e \in new.since : vectors'[entries[e].text] # None
      BY <1>5, <2>1
    <2>6. holder'[r.kind] = r
      BY <1>3, <2>4
    <2> QED BY <1>11, <1>12, <2>1, <2>2, <2>3, <2>4, <2>5, <2>6, OneMoves
  <1>9. CASE ask[r].left = {t} /\ Release(r) /\ Search(r, short)
    <2>1. short => \A e \in ask[r].since : vectors'[entries[e].text] # None
      BY <1>6, <1>9
    <2>2. PICK whole \in BOOLEAN : whole = short
      <3>1. short \in BOOLEAN
        OBVIOUS
      <3> HIDE DEF short
      <3> QED BY <3>1
    <2>3. Release(r) /\ Search(r, whole) /\ (whole => \A e \in ask[r].since : vectors'[entries[e].text] # None)
      BY <1>9, <2>1, <2>2
    <2>4. entries' = entries /\ answer' = answer /\ ask[r].at \in Holding
      BY <1>1, <1>3
    <2>5. /\ vectors' \in [All -> VectorId \cup {None}]
          /\ \A u \in All : vectors[u] # None => vectors'[u] # None
      BY <1>2
    <2> QED BY <2>3, <2>4, <2>5, SearchFits
  <1>10. ask[r].round \in Nat
    BY <1>1 DEF AskState
  <1> QED BY <1>7, <1>8, <1>9, <1>10 DEF PutVector

\* A request that is done lets go of its lock and keeps its answer.
LEMMA DoneFits ==
    ASSUME IndexInductive, NEW r \in Request, Done(r), UNCHANGED <<entries, vectors>>,
           UNCHANGED holder \/ (ask[r].at \in Holding /\ Release(r)),
           NEW what, Says(r, what), ChoiceStands(what), OrderStands(what)
    PROVE  IndexInductive'
  <1> DEFINE new == Phase("done")
  <1>1. new \in AskState /\ new.at = "done" /\ new.since = {} /\ ~new.whole
    BY DEF Phase, AskState
  <1>2. ask' = [ask EXCEPT ![r] = new]
    BY DEF Done
  <1> HIDE DEF new
  <1>3. ChoiceIsGrounded' /\ FusionKeepsOrder' /\ DOMAIN answer' = Request
    BY AnswersStand
  <1>4. /\ holder' \in [Kind -> Request \cup {None}]
        /\ \A q \in Request \ {r} : ask[q].at \in Holding => holder'[q.kind] = q
    <2>1. CASE UNCHANGED holder
      BY <2>1 DEF IndexInductive, IndexTypeOK, LocksHold, Holding
    <2>2. CASE ask[r].at \in Holding /\ Release(r)
      BY <2>2, ReleaseFits
    <2> QED BY <2>1, <2>2
  <1>5. vectors' \in [All -> VectorId \cup {None}] /\ \A t \in All : vectors[t] # None => vectors'[t] # None
    BY DEF IndexInductive, IndexTypeOK
  <1>6. new.at \notin Holding
    BY <1>1 DEF Holding
  <1> QED BY <1>1, <1>2, <1>3, <1>4, <1>5, <1>6, OneMoves

\* A failure answers that it failed.
LEMMA KeepsFails ==
    ASSUME IndexInductive, NEW r \in Request, SyncFails(r) \/ SearchFails(r)
    PROVE  IndexInductive'
  <1> DEFINE what == [by |-> "failed"]
  <1>1. ChoiceStands(what) /\ OrderStands(what)
    BY PlainAnswers
  <1>2. Done(r) /\ Says(r, what) /\ UNCHANGED <<entries, vectors>>
    BY DEF SyncFails, SearchFails
  <1>3. UNCHANGED holder \/ (ask[r].at \in Holding /\ Release(r))
    BY DEF SyncFails, SearchFails, Holding
  <1> HIDE DEF what
  <1> QED BY <1>1, <1>2, <1>3, DoneFits

\* The neighbours asked for a category are of entries.
LEMMA KeepsSearchCategory ==
    ASSUME IndexInductive, NEW r \in Request, SearchCategory(r)
    PROVE  IndexInductive'
  <1>1. /\ UNCHANGED <<entries, vectors, holder>> /\ IndexTypeOK
        /\ ask[r] \in AskState /\ ask \in [Request -> AskState] /\ ask[r].at \in {"searching", "again"}
        /\ ask[r].since \subseteq Begun
        /\ ask[r].whole => \A e \in ask[r].since : vectors[entries[e].text] # None
    BY DEF SearchCategory, IndexInductive, IndexTypeOK, PulledAreAll
  <1>2. ChoiceStands(Abstain) /\ OrderStands(Abstain)
    BY PlainAnswers DEF Abstain
  <1>3. PICK found \in Suggested(r.text, ask[r].at = "again") :
          \/ /\ found.by = "needs_vector" /\ ask' = [ask EXCEPT ![r].at = "again"] /\ UNCHANGED answer
          \/ Done(r) /\ Says(r, Abstain)
          \/ /\ found.by \in {"rule", "history", "vector"} /\ Done(r)
             /\ Says(r, Chosen(found.by, found.top, {}, Shown(found.given)))
          \/ /\ found.by = "vector" /\ UNCHANGED answer
             /\ ask' = [ask EXCEPT ![r].at = "choosing",
                                   ![r].found = [found EXCEPT !.given = Shown(found.given)]]
    <2>1. PICK found \in Suggested(r.text, ask[r].at = "again") :
            \/ /\ found.by = "needs_vector" /\ ask' = [ask EXCEPT ![r].at = "again"] /\ UNCHANGED answer
            \/ Done(r) /\ Says(r, Abstain)
            \/ /\ found.by \in {"rule", "history"} /\ Done(r)
               /\ Says(r, Chosen(found.by, found.top, {}, Shown(found.given)))
            \/ /\ found.by = "vector" /\ Done(r)
               /\ Says(r, Chosen("vector", found.top, {}, Shown(found.given)))
            \/ /\ found.by = "vector" /\ UNCHANGED answer
               /\ ask' = [ask EXCEPT ![r].at = "choosing",
                                     ![r].found = [found EXCEPT !.given = Shown(found.given)]]
      BY DEF SearchCategory
    <2> QED BY <2>1
  <1>4. /\ found = [by |-> found.by, top |-> found.top, given |-> found.given]
        /\ found.by = "history" =>
                 /\ found.top \in Choosable /\ found.given \in SUBSET Entry
                 /\ Cardinality({e \in found.given : entries[e].category = found.top}) >= HistoryAgree
        /\ found.by = "vector" =>
                 /\ found.top \in Choosable /\ found.given \in SUBSET Entry
                 /\ \A e \in found.given : entries[e].category \in Choosable
                 /\ \E e \in found.given : entries[e].category = found.top
    <2>1. PICK again \in BOOLEAN : again = (ask[r].at = "again")
      <3>1. (ask[r].at = "again") \in BOOLEAN
        OBVIOUS
      <3> QED BY <3>1
    <2>2. PICK t : t = r.text
      OBVIOUS
    <2>3. found \in Suggested(t, again)
      BY <1>3, <2>1, <2>2
    <2>4. IndexTypeOK
      BY <1>1
    <2> HIDE <1>1, <1>3
    <2> QED BY <2>3, <2>4, SuggestedFacts, ZenonT(60)
  <1>5. CASE ask' = [ask EXCEPT ![r].at = "again"] /\ UNCHANGED answer
    <2> DEFINE new == [ask[r] EXCEPT !.at = "again"]
    <2>1. new \in AskState /\ new.at = "again" /\ new.since = ask[r].since /\ new.whole = ask[r].whole
      BY <1>1 DEF AskState
    <2>2. ask' = [ask EXCEPT ![r] = new]
      BY <1>1, <1>5
    <2> HIDE DEF new
    <2>3. ChoiceIsGrounded' /\ FusionKeepsOrder' /\ DOMAIN answer' = Request
      BY <1>5, SameAnswers
    <2>4. /\ UNCHANGED <<entries, vectors, holder>>
          /\ new.at \notin {"pulling", "putting", "idle", "embedding"} /\ new.since \subseteq Begun
          /\ new.whole => \A e \in new.since : vectors[entries[e].text] # None
      BY <1>1, <2>1
    <2> QED BY <2>1, <2>2, <2>3, <2>4, OneMovesAlone
  <1>6. CASE Done(r) /\ Says(r, Abstain)
    BY <1>1, <1>2, <1>6, DoneFits
  <1>7. CASE /\ found.by \in {"rule", "history", "vector"} /\ Done(r)
             /\ Says(r, Chosen(found.by, found.top, {}, Shown(found.given)))
    <2> DEFINE what == Chosen(found.by, found.top, {}, Shown(found.given))
    <2>1. /\ what.by = found.by /\ what.category = found.top /\ what.found = Shown(found.given)
      BY DEF Chosen
    <2>2. found.by = "history" =>
              Cardinality({x \in Shown(found.given) : x.category = found.top}) >= HistoryAgree
      BY <1>4, ShownAreAsMany
    <2>3. found.by = "vector" => {x \in Shown(found.given) : x.category = found.top} # {}
      <3>1. CASE found.by = "vector"
        <4>1. PICK e \in found.given : entries[e].category = found.top
          BY <1>4, <3>1
        <4>2. [id |-> e, category |-> entries[e].category] \in Shown(found.given)
          BY <4>1 DEF Shown
        <4> QED BY <4>1, <4>2
      <3> QED BY <3>1
    <2> HIDE DEF what
    <2>4. ChoiceStands(what)
      BY <1>4, <1>7, <2>1, <2>2, <2>3 DEF ChoiceStands
    <2>5. OrderStands(what)
      BY <1>7, <2>1 DEF OrderStands
    <2>6. Says(r, what)
      BY <1>7 DEF what
    <2> QED BY <1>1, <1>7, <2>4, <2>5, <2>6, DoneFits
  <1>8. CASE /\ found.by = "vector" /\ UNCHANGED answer
             /\ ask' = [ask EXCEPT ![r].at = "choosing",
                                   ![r].found = [found EXCEPT !.given = Shown(found.given)]]
    <2> DEFINE doubt == [found EXCEPT !.given = Shown(found.given)]
               new == [ask[r] EXCEPT !.at = "choosing", !.found = doubt]
    <2>1. Shown(found.given) \in SUBSET [id : Entry, category : Choosable]
      BY <1>4, <1>8 DEF Shown
    <2>2. doubt \in Doubt
      <3>1. doubt = [by |-> "vector", top |-> found.top, given |-> Shown(found.given)]
        BY <1>4, <1>8
      <3> QED BY <1>4, <1>8, <2>1, <3>1 DEF Doubt
    <2> HIDE DEF doubt
    <2>3. new \in AskState /\ new.at = "choosing" /\ new.since = ask[r].since /\ new.whole = ask[r].whole
      BY <1>1, <2>2 DEF AskState
    <2>4. ask' = [ask EXCEPT ![r] = new]
      BY <1>1, <1>8 DEF doubt
    <2> HIDE DEF new
    <2>5. ChoiceIsGrounded' /\ FusionKeepsOrder' /\ DOMAIN answer' = Request
      BY <1>8, SameAnswers
    <2>6. /\ UNCHANGED <<entries, vectors, holder>>
          /\ new.at \notin {"pulling", "putting", "idle", "embedding"} /\ new.since \subseteq Begun
          /\ new.whole => \A e \in new.since : vectors[entries[e].text] # None
      BY <1>1, <2>3
    <2> QED BY <2>3, <2>4, <2>5, <2>6, OneMovesAlone
  <1> QED BY <1>3, <1>5, <1>6, <1>7, <1>8

\* The model picks among the choosable.
LEMMA KeepsPickCategory ==
    ASSUME IndexInductive, NEW r \in Request, NEW pick \in Pick \cup {None}, PickCategory(r, pick)
    PROVE  IndexInductive'
  <1>1. /\ Done(r) /\ UNCHANGED <<entries, vectors, holder>>
        /\ Says(r, IF pick # None /\ Checked(pick, ask[r].found)
                   THEN Chosen("llm", pick.category, pick.evidence, ask[r].found.given) ELSE Abstain)
    BY DEF PickCategory
  <1>2. CASE ~(pick # None /\ Checked(pick, ask[r].found))
    <2>1. Says(r, Abstain) /\ ChoiceStands(Abstain) /\ OrderStands(Abstain)
      BY <1>1, <1>2, PlainAnswers DEF Abstain
    <2> QED BY <1>1, <2>1, DoneFits
  <1>3. CASE pick # None /\ Checked(pick, ask[r].found)
    <2> DEFINE what == Chosen("llm", pick.category, pick.evidence, ask[r].found.given)
    <2>1. ChoiceStands(what) /\ OrderStands(what)
      BY <1>3 DEF Chosen, Checked, ChoiceStands, OrderStands
    <2>2. Says(r, what)
      BY <1>1, <1>3
    <2> HIDE DEF what
    <2> QED BY <1>1, <2>1, <2>2, DoneFits
  <1> QED BY <1>2, <1>3

\* The articles found are those of both searches, fused.
LEMMA KeepsSearchArticles ==
    ASSUME IndexInductive, NEW r \in Request, NEW embedded \in BOOLEAN, SearchArticles(r, embedded)
    PROVE  IndexInductive'
  <1> DEFINE near == {Article[i] : i \in {j \in DOMAIN Article : vectors[Article[j]] # None}}
  <1>1. Done(r) /\ UNCHANGED <<entries, vectors, holder>>
    BY DEF SearchArticles
  <1>2. PICK words \in Orders(ToSet(Article)) :
          \/ Says(r, [by |-> "words", hits |-> words, fell |-> TRUE])
          \/ \E close \in Orders(near) : \E hits \in Fused(words, close) :
                 Says(r, [by |-> "both", hits |-> hits, fell |-> FALSE, words |-> words, close |-> close])
    BY DEF SearchArticles
  <1>3. near \in SUBSET ToSet(Article)
    BY DEF ToSet
  <1> HIDE DEF near
  <1>4. CASE Says(r, [by |-> "words", hits |-> words, fell |-> TRUE])
    <2> DEFINE what == [by |-> "words", hits |-> words, fell |-> TRUE]
    <2>1. ChoiceStands(what) /\ OrderStands(what)
      BY DEF ChoiceStands, OrderStands
    <2>2. Says(r, what)
      BY <1>4
    <2> HIDE DEF what
    <2> QED BY <1>1, <2>1, <2>2, DoneFits
  <1>5. ASSUME NEW close \in Orders(near), NEW hits \in Fused(words, close),
               Says(r, [by |-> "both", hits |-> hits, fell |-> FALSE, words |-> words, close |-> close])
        PROVE  IndexInductive'
    <2> DEFINE what == [by |-> "both", hits |-> hits, fell |-> FALSE, words |-> words, close |-> close]
    <2>1. /\ what.by = "both" /\ what.hits = hits /\ what.words = words /\ what.close = close
      OBVIOUS
    <2>2. Says(r, what)
      BY <1>5
    <2> HIDE DEF what
    <2>3. /\ ToSet(hits) = ToSet(Article) /\ Len(hits) = Len(Article)
          /\ \A x, y \in ToSet(close) :
                 /\ Position(words, x) < Position(words, y)
                 /\ Position(close, x) < Position(close, y)
                 => Position(hits, x) < Position(hits, y)
      BY <1>3, ArticlesAreFinite, FusionKeeps
    <2>4. ChoiceStands(what) /\ OrderStands(what)
      BY <2>1, <2>3 DEF ChoiceStands, OrderStands
    <2> QED BY <1>1, <2>2, <2>4, DoneFits
  <1> QED BY <1>2, <1>4, <1>5

\* Each step keeps it.
LEMMA IndexStep == IndexInductive /\ [IndexNext]_index_vars => IndexInductive'
  <1> SUFFICES ASSUME IndexInductive, [IndexNext]_index_vars PROVE IndexInductive'
    OBVIOUS
  <1>1. ASSUME NEW e \in Entry, NEW row \in [text : Text, category : Choosable, ours : BOOLEAN] \cup {None}, SaveEntry(e, row)
        PROVE  IndexInductive'
    BY <1>1, KeepsSaveEntry
  <1>2. ASSUME NEW r \in Request, BeginAsk(r) \/ TakeLock(r) \/ Pull(r) \/ SyncFails(r) \/ SearchFails(r)
        PROVE  IndexInductive'
    BY <1>2, KeepsBeginAsk, KeepsTakeLock, KeepsPull, KeepsFails
  <1>3. ASSUME NEW r \in Request, NEW v \in VectorId \cup {None}, EmbedTexts(r, v) PROVE IndexInductive'
    BY <1>3, KeepsEmbedTexts
  <1>4. ASSUME NEW r \in Request, NEW t \in All, PutVector(r, t) PROVE IndexInductive'
    BY <1>4, KeepsPutVector
  <1>5. ASSUME NEW r \in Request, SearchCategory(r) PROVE IndexInductive'
    BY <1>5, KeepsSearchCategory
  <1>6. ASSUME NEW r \in Request, NEW pick \in Pick \cup {None}, PickCategory(r, pick) PROVE IndexInductive'
    BY <1>6, KeepsPickCategory
  <1>7. ASSUME NEW r \in Request, NEW embedded \in BOOLEAN, SearchArticles(r, embedded) PROVE IndexInductive'
    BY <1>7, KeepsSearchArticles
  <1>8. CASE UNCHANGED index_vars
    <2>1. UNCHANGED <<entries, vectors, holder, ask, answer>>
      BY <1>8 DEF index_vars
    <2>2. ChoiceIsGrounded' /\ FusionKeepsOrder'
      BY <2>1, SameAnswers
    <2>3. IndexTypeOK' /\ LocksHold' /\ PulledAreAll'
      BY <2>1 DEF IndexInductive, IndexTypeOK, LocksHold, PulledAreAll, Begun
    <2> QED BY <2>2, <2>3 DEF IndexInductive
  <1> QED BY <1>1, <1>2, <1>3, <1>4, <1>5, <1>6, <1>7, <1>8 DEF IndexNext

\* Whoever asks meanwhile and whatever fails, one at a time brings the index up to date, and what it
\* searches is whole (IndexInductive: CategoryIndex.suggest, DocumentIndex.search).
THEOREM IndexInvariant == IndexSpec => []IndexInductive
  BY IndexStart, IndexStep, PTL DEF IndexSpec

\* An entry of before a request is found by its search, a category rests on entries that were
\* there, and no order of the articles is lost in the fusion (SyncIndex, ClassifyCategory,
\* rank_fusion).
THEOREM IndexIsServing == IndexSpec => []IndexServes
  <1>1. ASSUME IndexInductive PROVE IndexServes
    <2>1. SyncFindsEntries
      BY <1>1 DEF IndexInductive, LocksHold, PulledAreAll, SyncFindsEntries
    <2> QED BY <1>1, <2>1 DEF IndexInductive, IndexServes
  <1> QED BY <1>1, IndexInvariant, PTL

-----------------------------------------------------------------------------
(* Reading a sentence *)

\* The first minute that is looked at is one of them.
LEMMA FirstMinute == Min(Minutes) \in Minutes
  <1>1. PICK m \in Minutes : \A n \in Minutes : m <= n
    BY ReadingAssumption, LeastNat
  <1> QED BY <1>1 DEF Min

\* A moment is up to itself.
LEMMA NowIsUpToNow ==
    ASSUME NEW a, a.minute \in Minutes
    PROVE  UpTo(a, a)
  <1>1. PICK m \in Nat : m = a.minute
    BY ReadingAssumption
  <1>2. m <= m
    OBVIOUS
  <1>3. a.minute <= a.minute
    BY ONLY <1>1, <1>2
  <1> QED BY <1>3 DEF UpTo

\* Nothing was said at the start.
LEMMA ReadingStart == ReadingInit => ReadingInductive
  BY DEF ReadingInit, NothingSent, ReadingInductive

\* What is read of an extraction has its ground in the text, and is not of a time to come.
LEMMA ReadingOfIsGrounded ==
    ASSUME NEW x, x.kind # ""
    PROVE  /\ DOMAIN ReadingOf(x) = DOMAIN Refused("")
           /\ ReadingOf(x).refusal = "" =>
                  /\ ReadingOf(x).merchant \in sent.names \cup {None}
                  /\ ReadingOf(x).amount \in 1..Ceiling
                  /\ ReadingOf(x).category = None
                  /\ ReadingOf(x).when # None => UpTo(ReadingOf(x).when, sent.at)
  BY DEF ReadingOf, Refused, Grounded

\* With a direction and a category, the entry is the arguments as they were written down.
LEMMA CreatedIsArgs ==
    ASSUME NEW read
    PROVE  LET direction == OrElse(read.direction, "expense")
               args == [direction |-> direction, amount |-> read.amount, when |-> OrElse(read.when, sent.at),
                        category |-> OrElse(read.category, FallbackOf[direction]),
                        account |-> OrElse(read.payment, "card"), merchant |-> read.merchant] IN
           Created(args) \in {args, None}
  BY ReadingAssumption DEF Created, OrElse

\* Each step of the reading keeps it.
LEMMA ReadingStep == ReadingInductive /\ [ReadingNext]_reading_vars => ReadingInductive'
  <1> SUFFICES ASSUME ReadingInductive, [ReadingNext]_reading_vars PROVE ReadingInductive'
    OBVIOUS
  <1>1. CASE SendText
    <2>1. PICK names \in SUBSET Merchant : sent' = [names |-> names, at |-> [day |-> today, minute |-> minute]]
      BY <1>1 DEF SendText, Now
    <2>2. sent = None /\ UNCHANGED <<minute, reading, proposal, written>>
      BY <1>1 DEF SendText
    <2>3. reading = None /\ minute \in Minutes
      BY <2>2 DEF ReadingInductive
    <2>4. proposal = None
      BY <2>3 DEF ReadingInductive
    <2>5. written = None
      BY <2>4 DEF ReadingInductive
    <2>6. sent'.at.minute = minute
      BY <2>1
    <2> HIDE <2>1
    <2> QED BY <2>2, <2>3, <2>4, <2>5, <2>6 DEF ReadingInductive
  <1>2. CASE Extract
    <2>1. PICK x \in Extractions :
              reading' = IF ~Malformed(x) THEN ReadingOf(x)
                         ELSE IF attempts + 1 = Attempts THEN Refused("unreadable") ELSE None
      BY <1>2 DEF Extract
    <2>2. /\ sent # None /\ reading = None /\ proposal = None /\ written = None
          /\ UNCHANGED <<minute, sent, proposal, written>>
      BY <1>2 DEF Extract, Asking, ReadingInductive
    <2>3. CASE ~Malformed(x) /\ reading' = ReadingOf(x)
      <3>1. x.kind # ""
        BY <2>3, ReadingAssumption DEF Malformed
      <3>2. /\ DOMAIN reading' = DOMAIN Refused("")
            /\ reading'.refusal = "" =>
                  /\ reading'.merchant \in sent.names \cup {None}
                  /\ reading'.amount \in 1..Ceiling
                  /\ reading'.category = None
                  /\ reading'.when # None => UpTo(reading'.when, sent.at)
        BY <2>3, <3>1, ReadingOfIsGrounded
      <3> QED BY <2>2, <3>2 DEF ReadingInductive
    <2>4. CASE reading' = Refused("unreadable")
      BY <2>2, <2>4 DEF ReadingInductive, Refused
    <2>5. CASE reading' = None
      BY <2>2, <2>5 DEF ReadingInductive
    <2> QED BY <2>1, <2>3, <2>4, <2>5
  <1>3. CASE LoseModel
    BY <1>3 DEF LoseModel, ReadingInductive, EntryOf, Unsure, Understood
  <1>4. CASE Classify
    <2>1. PICK c \in CategoriesOf[OrElse(reading.direction, "expense")] \cup {None} :
              reading' = [reading EXCEPT !.category = c, !.chosen = TRUE]
      BY <1>4 DEF Classify
    <2>2. /\ reading # None /\ reading.refusal = "" /\ proposal = None /\ written = None
          /\ UNCHANGED <<minute, sent, proposal, written>>
          /\ DOMAIN reading = DOMAIN Refused("")
      BY <1>4 DEF Classify, Understood, ReadingInductive
    <2>3. /\ DOMAIN reading' = DOMAIN Refused("")
          /\ reading'.refusal = reading.refusal /\ reading'.direction = reading.direction
          /\ reading'.merchant = reading.merchant /\ reading'.amount = reading.amount
          /\ reading'.category = c /\ reading'.when = reading.when
      BY <2>1, <2>2 DEF Refused
    <2> HIDE <2>1
    <2>4. reading'.category \in CategoriesOf[OrElse(reading'.direction, "expense")] \cup {None}
      BY <2>3
    <2> QED BY <2>2, <2>3, <2>4 DEF ReadingInductive
  <1>5. CASE Propose
    BY <1>5 DEF Propose, ReadingInductive, EntryOf, Unsure, Understood
  <1>6. ASSUME proposal # None PROVE Created(proposal.args) \in {proposal.args, None}
    BY <1>6, CreatedIsArgs DEF ReadingInductive, EntryOf
  <1>7. CASE Renew
    <2>1. /\ proposal # None /\ written = None
          /\ proposal'.args = proposal.args /\ proposal'.renewed = TRUE
          /\ UNCHANGED <<minute, sent, reading, written>>
      BY <1>6, <1>7 DEF Renew
    <2>2. EntryOf' = EntryOf
      BY <2>1 DEF EntryOf
    <2> QED BY <2>1, <2>2 DEF ReadingInductive, Understood
  <1>8. CASE Confirm
    <2>1. /\ proposal # None /\ written' \in {proposal.args, None}
          /\ UNCHANGED <<minute, sent, reading, proposal>>
      BY <1>6, <1>8 DEF Confirm
    <2>2. EntryOf' = EntryOf /\ Unsure' = Unsure
      BY <2>1 DEF EntryOf, Unsure
    <2>3. written' # None => proposal' # None /\ written' = proposal'.args
      BY <2>1
    <2>4. UNCHANGED <<minute, sent, reading, proposal>>
      BY <2>1
    <2> HIDE <2>1
    <2> QED BY <2>2, <2>3, <2>4 DEF ReadingInductive, Understood
  <1>9. CASE Later
    <2>1. minute' \in Minutes /\ UNCHANGED <<sent, reading, proposal, written>>
      BY <1>9, FirstMinute DEF Later, ReadingInductive
    <2>2. EntryOf' = EntryOf /\ Understood' = Understood /\ Unsure' = Unsure
      BY <2>1 DEF EntryOf, Understood, Unsure
    <2> QED BY <2>1, <2>2 DEF ReadingInductive
  <1>10. CASE UNCHANGED reading_vars
    BY <1>10 DEF reading_vars, ReadingInductive, EntryOf, Unsure, Understood
  <1> QED BY <1>1, <1>2, <1>3, <1>4, <1>5, <1>7, <1>8, <1>9, <1>10 DEF ReadingNext

\* Whatever the model extracts, what is read has its date, its time and its amount from the sentence or
\* from now (ReadingInductive: ReadTransaction).
THEOREM ReadingInvariant == ReadingSpec => []ReadingInductive
  BY ReadingStart, ReadingStep, PTL DEF ReadingSpec

\* What a sentence has written is what was read of it, in what was not read a default, and the
\* first card marks the category and the account that were not read, and nothing else
\* (ReadingIsGrounded: ReadCapture, entry_of, DecideRecord).
THEOREM WrittenIsRead == ReadingSpec => []ReadingIsGrounded
  <1>1. ASSUME ReadingInductive PROVE ReadingIsGrounded
    <2>1. ASSUME proposal # None
          PROVE  LET entry == proposal.args IN
                 /\ entry.merchant \in sent.names \cup {None}
                 /\ entry.amount \in 1..Ceiling
                 /\ entry.category \in CategoriesOf[entry.direction] \cup {FallbackOf[entry.direction]}
                 /\ UpTo(entry.when, sent.at)
      <3>0. /\ sent.at.minute \in Minutes /\ proposal.args = EntryOf
            /\ reading # None /\ reading.refusal = ""
        <4>1. reading # None /\ Understood /\ proposal.args = EntryOf
          BY <1>1, <2>1 DEF ReadingInductive
        <4>2. sent # None
          BY <1>1, <4>1 DEF ReadingInductive
        <4> QED BY <1>1, <4>1, <4>2 DEF ReadingInductive, Understood
      <3>1. /\ reading.merchant \in sent.names \cup {None}
            /\ reading.amount \in 1..Ceiling
            /\ reading.category \in CategoriesOf[OrElse(reading.direction, "expense")] \cup {None}
            /\ reading.when # None => UpTo(reading.when, sent.at)
        BY <1>1, <3>0 DEF ReadingInductive
      <3>2. UpTo(sent.at, sent.at)
        BY <3>0, NowIsUpToNow
      <3>3. UpTo(EntryOf.when, sent.at)
        BY <3>1, <3>2 DEF EntryOf, OrElse
      <3>4. EntryOf.category \in CategoriesOf[EntryOf.direction] \cup {FallbackOf[EntryOf.direction]}
        BY <3>1 DEF EntryOf, OrElse
      <3>5. EntryOf.merchant = reading.merchant /\ EntryOf.amount = reading.amount
        BY DEF EntryOf
      <3> QED BY <3>1, <3>3, <3>4, <3>5, <3>0
    <2>2. ASSUME proposal # None, ~proposal.renewed
          PROVE  /\ "category" \in proposal.unsure <=> reading.category = None
                 /\ "account" \in proposal.unsure <=> reading.payment = None
                 /\ proposal.unsure \subseteq {"category", "account"}
      <3>1. proposal.unsure = Unsure
        BY <1>1, <2>2 DEF ReadingInductive
      <3>2. "account" # "category"
        OBVIOUS
      <3> QED BY <3>1, <3>2 DEF Unsure
    <2>4. ASSUME proposal # None
          PROVE  LET entry == proposal.args IN
                 /\ reading.category = None => entry.category = FallbackOf[entry.direction]
                 /\ reading.payment = None => entry.account = "card"
                 /\ reading.when = None => entry.when = sent.at
      <3>1. proposal.args = EntryOf
        BY <1>1, <2>4 DEF ReadingInductive
      <3> QED BY <3>1 DEF EntryOf, OrElse
    <2>3. /\ written # None => written = proposal.args
          /\ reading # None /\ reading.refusal # "" => proposal = None
      BY <1>1 DEF ReadingInductive, Understood
    <2> QED BY <2>1, <2>2, <2>3, <2>4 DEF ReadingIsGrounded
  <1> QED BY <1>1, ReadingInvariant, PTL

-----------------------------------------------------------------------------
(* Parts of a sequence *)

\* The beginning of a sequence.
LEMMA FirstOfFacts ==
    ASSUME NEW S, NEW s \in Seq(S), NEW n \in Nat
    PROVE  /\ FirstOf(s, n) \in Seq(S) /\ Len(FirstOf(s, n)) <= n
           /\ Len(FirstOf(s, n)) <= Len(s)
           /\ \A i \in 1..Len(FirstOf(s, n)) : FirstOf(s, n)[i] = s[i]
  <1>1. PICK m : m = IF Len(s) < n THEN Len(s) ELSE n
    OBVIOUS
  <1>2. m \in 0..Len(s) /\ m <= n
    BY <1>1
  <1>3. FirstOf(s, n) = SubSeq(s, 1, m)
    BY <1>1 DEF FirstOf
  <1>4. SubSeq(s, 1, m) \in Seq(S) /\ Len(SubSeq(s, 1, m)) = m
        /\ \A i \in 1..m : SubSeq(s, 1, m)[i] = s[i]
    BY <1>2, SubSeqProperties
  <1> QED BY <1>2, <1>3, <1>4

-----------------------------------------------------------------------------
(* The steps of a plan *)

Called == {Call(s) : s \in Seen}

\* What is left of a plan: calls a tool takes, none of them made before and none twice.
LEMMA CheckedFacts ==
    ASSUME OutputTypeOK, NEW plan, IsSequence(plan), NEW checked, checked = CheckedPlan(plan)
    PROVE  /\ Len(checked) \in 0..PerPlan /\ DOMAIN checked = 1..Len(checked)
           /\ \A i \in 1..Len(checked) :
                  /\ checked[i].id = Len(steps) + i /\ checked[i].tool \in Sums /\ checked[i].arg \in Arg
                  /\ Call(checked[i]) \notin Called
           /\ \A i, j \in 1..Len(checked) : i # j => Call(checked[i]) # Call(checked[j])
  <1> DEFINE fresh == {i \in DOMAIN plan :
                          /\ plan[i].tool \in Sums /\ plan[i].arg \in Arg
                          /\ Call(plan[i]) \notin Called
                          /\ \A j \in 1..(i - 1) : Call(plan[j]) # Call(plan[i])}
             first == FirstOf(Those(plan, fresh), PerPlan)
  <1>1. PerPlan \in Nat /\ Len(plan) \in Nat /\ DOMAIN plan = 1..Len(plan)
    BY OutputAssumption DEF IsSequence
  <1>2. fresh \in SUBSET (1..Len(plan))
    BY <1>1
  <1>3. checked = [i \in DOMAIN first |-> [id |-> Len(steps) + i, tool |-> first[i].tool, arg |-> first[i].arg]]
    BY DEF CheckedPlan, Called
  <1>4. \A i \in fresh : /\ plan[i].tool \in Sums /\ plan[i].arg \in Arg /\ Call(plan[i]) \notin Called
                         /\ \A j \in fresh : j < i => Call(plan[j]) # Call(plan[i])
    BY <1>1
  <1> HIDE DEF fresh
  <1>5. PICK places, c, those, n : places = fresh /\ c = Cardinality(places) /\ those = Those(plan, places)
                                  /\ n = Len(plan)
    OBVIOUS
  <1>19. PICK S : S = {plan[i] : i \in places}
    OBVIOUS
  <1>20. \A i \in places : plan[i] \in S
    BY <1>19
  <1> HIDE DEF first
  <1>6. n \in Nat /\ places \in SUBSET (1..n)
    BY <1>1, <1>2, <1>5
  <1>21. PickedFrom(n, plan, places, c, those)
    BY <1>5, <1>6 DEF PickedFrom
  <1>9. c \in 0..n /\ those \in Seq(S) /\ Len(those) = c
    BY <1>20, <1>21, ThoseFacts
  <1>18. PICK f : LowestFirst(f, c, places, plan, those)
    BY <1>21, ThoseFacts
  <1>16. f \in [1..c -> places] /\ \A k \in 1..c : those[k] = plan[f[k]] /\ \A l \in 1..c : k < l => f[k] < f[l]
    BY <1>18 DEF LowestFirst
  <1>17. first = FirstOf(those, PerPlan)
    BY <1>5 DEF first
  <1>7. /\ first \in Seq(S) /\ Len(first) <= PerPlan /\ Len(first) <= c
        /\ \A i \in 1..Len(first) : first[i] = those[i]
    BY <1>1, <1>9, <1>17, FirstOfFacts
  <1>8. Len(first) \in 0..PerPlan /\ DOMAIN first = 1..Len(first)
    BY <1>1, <1>7
  <1>10. Len(checked) = Len(first) /\ DOMAIN checked = 1..Len(checked)
    BY <1>3, <1>8
  <1>11. ASSUME NEW i \in 1..Len(first)
         PROVE  /\ checked[i].id = Len(steps) + i
                /\ checked[i].tool = plan[f[i]].tool /\ checked[i].arg = plan[f[i]].arg
                /\ f[i] \in fresh /\ i \in 1..c
    <2>1. i \in 1..c
      BY <1>7, <1>8, <1>9
    <2>2. checked[i] = [id |-> Len(steps) + i, tool |-> first[i].tool, arg |-> first[i].arg]
      BY <1>3, <1>8
    <2>3. first[i] = plan[f[i]]
      BY <1>16, <1>7, <2>1
    <2>4. f[i] \in places
      BY <1>16, <2>1
    <2> QED BY <1>5, <2>1, <2>2, <2>3, <2>4
  <1>12. ASSUME NEW i \in 1..Len(first) PROVE Call(checked[i]) = Call(plan[f[i]])
    <2>1. checked[i].tool = plan[f[i]].tool /\ checked[i].arg = plan[f[i]].arg
      BY <1>11
    <2> QED BY <2>1 DEF Call
  <1>13. ASSUME NEW i \in 1..Len(first), NEW j \in 1..Len(first), i < j PROVE Call(checked[i]) # Call(checked[j])
    <2>1. i \in 1..c /\ j \in 1..c /\ f[i] \in fresh /\ f[j] \in fresh
      BY <1>11
    <2>2. f[i] < f[j]
      BY <1>13, <1>16, <2>1
    <2> QED BY <1>4, <1>12, <2>1, <2>2
  <1>14. ASSUME NEW i \in 1..Len(first), NEW j \in 1..Len(first), i # j PROVE Call(checked[i]) # Call(checked[j])
    <2>1. i < j \/ j < i
      BY <1>14
    <2> QED BY <1>13, <2>1
  <1>15. ASSUME NEW i \in 1..Len(first)
         PROVE  /\ checked[i].id = Len(steps) + i /\ checked[i].tool \in Sums /\ checked[i].arg \in Arg
                /\ Call(checked[i]) \notin Called
    <2>1. f[i] \in fresh
      BY <1>11
    <2>2. /\ checked[i].id = Len(steps) + i
          /\ checked[i].tool = plan[f[i]].tool /\ checked[i].arg = plan[f[i]].arg
      BY <1>11
    <2>3. plan[f[i]].tool \in Sums /\ plan[f[i]].arg \in Arg /\ Call(plan[f[i]]) \notin Called
      BY <1>4, <2>1
    <2> QED BY <1>12, <2>2, <2>3
  <1> QED BY <1>8, <1>10, <1>14, <1>15

\* A result of a tool that tells sums is one a step may have.
LEMMA ResultsFit ==
    /\ Result("sums") \subseteq OutputResult
    /\ \A tool : Result(tool) \subseteq OutputResult
    /\ Failed \in OutputResult
  <1>1. ASSUME NEW tool, NEW r \in Result(tool) PROVE r \in OutputResult
    <2>1. CASE r = Failed
      BY <2>1 DEF OutputResult
    <2>2. CASE r \in [ok : {TRUE}, rows : {<<>>}, chunks : SUBSET Chunk]
      BY <2>2 DEF OutputResult
    <2>3. CASE r \in [ok : {TRUE}, rows : Answers, chunks : {{}}]
      BY <2>3 DEF OutputResult
    <2> QED BY <1>1, <2>1, <2>2, <2>3 DEF Result
  <1> QED BY <1>1 DEF OutputResult

Ran(checked, results) ==
    [i \in DOMAIN checked |-> IF results[i] = None THEN None
                           ELSE Step(checked[i].id, checked[i].tool, checked[i].arg, results[i])]

Planned(plan, checked, results, ran, more) ==
    /\ plan \in Plans /\ checked = CheckedPlan(plan)
    /\ results \in [1..PerPlan -> Result("sums") \cup {None}] /\ ran = Ran(checked, results)
    /\ more = Those(ran, {i \in DOMAIN ran : ran[i] # None})

\* What a plan adds to the steps: no more than it may have, and no call that was made before.
LEMMA RanFacts ==
    ASSUME OutputTypeOK, NEW plan, NEW checked, NEW results, NEW ran, NEW more,
           Planned(plan, checked, results, ran, more)
    PROVE  /\ more \in Seq(OutputStep) /\ Len(more) <= PerPlan
           /\ \A i \in 1..Len(more) : more[i].result \in Result("sums") /\ Call(more[i]) \notin Called
           /\ \A i, j \in 1..Len(more) : i # j => Call(more[i]) # Call(more[j])
  <1> USE DEF Planned
  <1> DEFINE n == Len(checked)
             done == {i \in DOMAIN ran : ran[i] # None}
  <1>1. IsSequence(plan) /\ PerPlan \in Nat
    BY OutputAssumption
  <1>2. n \in 0..PerPlan /\ DOMAIN checked = 1..n
    BY <1>1, CheckedFacts
  <1>3. /\ \A i \in 1..n : /\ checked[i].id = Len(steps) + i /\ checked[i].tool \in Sums /\ checked[i].arg \in Arg
                           /\ Call(checked[i]) \notin Called
        /\ \A i, j \in 1..n : i # j => Call(checked[i]) # Call(checked[j])
    BY <1>1, CheckedFacts
  <1>4. DOMAIN ran = 1..n
    BY <1>2 DEF Ran
  <1>5. Len(steps) \in Nat
    BY DEF OutputTypeOK
  <1> HIDE DEF n
  <1>6. ASSUME NEW i \in done
        PROVE  /\ ran[i] \in OutputStep /\ ran[i].result \in Result("sums")
               /\ Call(ran[i]) = Call(checked[i]) /\ i \in 1..n
    <2>1. i \in 1..n /\ i \in 1..PerPlan /\ i \in Nat
      BY <1>1, <1>2, <1>4
    <2>2. ran[i] = Step(checked[i].id, checked[i].tool, checked[i].arg, results[i]) /\ results[i] # None
      BY <1>2, <2>1 DEF Ran
    <2>3. results[i] \in Result("sums")
      BY <2>1, <2>2
    <2>4. results[i] \in OutputResult
      BY <2>3, ResultsFit
    <2>5. checked[i].id \in Nat /\ checked[i].tool \in Sums /\ checked[i].arg \in Arg
      BY <1>3, <1>5, <2>1
    <2> QED BY <2>1, <2>2, <2>3, <2>4, <2>5 DEF Step, OutputStep, Call
  <1>7. done \in SUBSET (1..n) /\ n \in Nat
    BY <1>1, <1>2, <1>4
  <1> HIDE DEF done
  <1>8. PICK places, c, m : places = done /\ c = Cardinality(places) /\ more = Those(ran, places) /\ m = n
    BY DEF done
  <1>14. places \in SUBSET (1..m) /\ m \in Nat /\ \A i \in places : ran[i] \in OutputStep
    BY <1>6, <1>7, <1>8
  <1>21. PickedFrom(m, ran, places, c, more)
    BY <1>8, <1>14 DEF PickedFrom
  <1>18. PICK f : LowestFirst(f, c, places, ran, more)
    BY <1>21, ThoseFacts
  <1>15. f \in [1..c -> places] /\ \A k \in 1..c : more[k] = ran[f[k]] /\ \A l \in 1..c : k < l => f[k] < f[l]
    BY <1>18 DEF LowestFirst
  <1>22. \A i \in places : ran[i] \in OutputStep
    BY <1>14
  <1>23. more \in Seq(OutputStep)
    BY <1>21, <1>22, ThoseFacts
  <1>9. c \in 0..m /\ Len(more) = c /\ more \in Seq(OutputStep)
    BY <1>21, <1>23, ThoseFacts
  <1>11. ASSUME NEW k \in 1..c
         PROVE more[k].result \in Result("sums") /\ Call(more[k]) = Call(checked[f[k]]) /\ f[k] \in 1..n
    <2>1. f[k] \in done /\ more[k] = ran[f[k]]
      BY <1>8, <1>15, <1>18
    <2> QED BY <1>6, <2>1
  <1>12. ASSUME NEW k \in 1..c, NEW l \in 1..c, k < l PROVE Call(more[k]) # Call(more[l])
    <2>1. f[k] < f[l] /\ f[k] \in 1..n /\ f[l] \in 1..n
      BY <1>11, <1>12, <1>15
    <2>2. f[k] # f[l]
      BY <2>1
    <2> QED BY <1>3, <1>11, <2>1, <2>2
  <1>13. ASSUME NEW k \in 1..c, NEW l \in 1..c, k # l PROVE Call(more[k]) # Call(more[l])
    <2>1. k < l \/ l < k
      BY <1>13
    <2> QED BY <1>12, <2>1
  <1>16. ASSUME NEW k \in 1..c PROVE Call(more[k]) \notin Called
    BY <1>3, <1>11
  <1>17. Len(more) <= PerPlan
    BY <1>1, <1>2, <1>8, <1>9
  <1> HIDE DEF Called
  <1>19. \A i \in 1..Len(more) : more[i].result \in Result("sums") /\ Call(more[i]) \notin Called
    BY <1>9, <1>11, <1>16
  <1>20. \A i, j \in 1..Len(more) : i # j => Call(more[i]) # Call(more[j])
    BY <1>9, <1>13
  <1> QED BY <1>9, <1>17, <1>19, <1>20

-----------------------------------------------------------------------------
(* What is shown *)

\* The numbers that are checked against are those of the answers that came, of sums.
LEMMA NumbersAreOfSums == NumbersFromTools \subseteq OfSums
  <1>1. ASSUME NEW x \in NumbersFromTools PROVE x \in OfSums
    <2>1. CASE x \in TodayNumbers
      BY <2>1 DEF OfSums
    <2>2. CASE \E s \in {t \in Seen : t.result.ok /\ t.tool # Documents} :
                   x \in (ToSet(s.result.rows) \ {None}) \cup NumbersOf[s.arg]
      <3>1. PICK s \in {t \in Seen : t.result.ok /\ t.tool # Documents} :
                     x \in (ToSet(s.result.rows) \ {None}) \cup NumbersOf[s.arg]
        BY <2>2
      <3>2. s \in {t \in Good : t.tool # Documents}
        BY <3>1 DEF Good
      <3>3. x \in {s.result.rows[i] : i \in DOMAIN s.result.rows} \cup NumbersOf[s.arg]
        BY <3>1 DEF ToSet
      <3> QED BY <3>2, <3>3 DEF OfSums
    <2> QED BY <1>1, <2>1, <2>2 DEF NumbersFromTools
  <1> QED BY <1>1

\* A chart that is drawn has the rows of a call that succeeded, none of them left out.
LEMMA ChartIsOfStep ==
    ASSUME OutputTypeOK, NEW spec, FillChart(spec) # None
    PROVE  /\ ToSet(FillChart(spec).values) \subseteq Numbers /\ FillChart(spec).note \in {{}, None}
           /\ \E s \in Good : s.id = FillChart(spec).source /\ s.result.rows = FillChart(spec).values
  <1> DEFINE rows == SourceOf(spec).rows
             named == {i \in DOMAIN steps : steps[i].id = spec.source}
             first == CHOOSE i \in named : \A j \in named : i <= j
  <1>1. /\ FillChart(spec) = [title |-> spec.title, values |-> rows,
                              note |-> IF spec.note = {} THEN spec.note ELSE None, source |-> spec.source]
        /\ SourceOf(spec).ok /\ None \notin ToSet(rows)
    BY DEF FillChart
  <1>2. /\ FillChart(spec).values = rows /\ FillChart(spec).source = spec.source
        /\ FillChart(spec).note \in {{}, None}
    BY <1>1
  <1>3. named # {} /\ SourceOf(spec) = steps[first].result
    BY <1>1 DEF SourceOf, Failed
  <1>4. steps \in Seq(OutputStep) /\ DOMAIN steps \subseteq Nat
    BY DEF OutputTypeOK
  <1>5. first \in named
    <2>1. named \in SUBSET Nat
      BY <1>4
    <2> HIDE DEF named
    <2>2. \E i \in named : \A j \in named : i <= j
      BY <1>3, <2>1, LeastNat
    <2> QED BY <2>2
  <1> HIDE DEF first
  <1>6. /\ first \in DOMAIN steps /\ steps[first].id = spec.source /\ steps[first] \in Seen
        /\ steps[first] \in OutputStep
    BY <1>4, <1>5 DEF Seen, ToSet
  <1>7. steps[first] \in Good /\ steps[first].result.rows = rows
    BY <1>1, <1>3, <1>6 DEF Good
  <1>8. ToSet(rows) \subseteq Numbers
    <2>1. steps[first].result \in OutputResult /\ rows = steps[first].result.rows
      BY <1>3, <1>6 DEF OutputStep
    <2>2. rows \in Answers \cup {<<>>}
      <3>1. CASE steps[first].result = Failed
        BY <2>1, <3>1 DEF Failed
      <3>2. CASE steps[first].result \in [ok : {TRUE}, rows : Answers \cup {<<>>}, chunks : SUBSET Chunk]
        BY <2>1, <3>2
      <3> QED BY <2>1, <3>1, <3>2 DEF OutputResult
    <2> HIDE DEF rows
    <2>3. rows \in Seq(Numbers \cup {None})
      <3>1. CASE rows \in Answers
        BY <3>1, OutputAssumption
      <3>2. CASE rows = <<>>
        BY <3>2
      <3> QED BY <2>2, <3>1, <3>2
    <2>4. \A i \in DOMAIN rows : rows[i] \in Numbers \cup {None}
      BY <2>3
    <2> QED BY <1>1, <2>4 DEF ToSet
  <1> HIDE DEF rows
  <1> QED BY <1>2, <1>6, <1>7, <1>8

FirstPicked(n, s, places, most, picked) ==
    n \in Nat /\ places \in SUBSET (1..n) /\ most \in Nat /\ picked = FirstOf(Those(s, places), most)

\* The first of those at some places are elements of these places.
LEMMA FirstOfThose ==
    ASSUME NEW n, NEW s, NEW places, NEW most, NEW picked, FirstPicked(n, s, places, most, picked)
    PROVE  \A k \in DOMAIN picked : \E i \in places : picked[k] = s[i]
  <1> USE DEF FirstPicked
  <1>1. PICK c, those, S : /\ c = Cardinality(places) /\ those = Those(s, places)
                           /\ S = {s[i] : i \in places}
    OBVIOUS
  <1>2. PickedFrom(n, s, places, c, those)
    BY <1>1 DEF PickedFrom
  <1>3. \A i \in places : s[i] \in S
    BY <1>1
  <1>4. those \in Seq(S)
    BY <1>2, <1>3, ThoseFacts
  <1>5. picked \in Seq(S)
    BY <1>1, <1>4, FirstOfFacts
  <1>6. \A k \in DOMAIN picked : picked[k] \in S
    BY <1>5
  <1> QED BY <1>1, <1>6

\* What a report shows stands in the answers its calls had.
LEMMA ReportIsGrounded ==
    ASSUME OutputTypeOK, NEW draft \in Layouts
    PROVE  /\ \A k \in DOMAIN Highlights(draft.highlights) :
                  /\ Highlights(draft.highlights)[k].numbers \subseteq OfSums
                  /\ ~Highlights(draft.highlights)[k].scolds
           /\ \A k \in DOMAIN Charts(draft.charts) :
                  /\ ToSet(Charts(draft.charts)[k].values) \subseteq Numbers
                  /\ Charts(draft.charts)[k].note \in {{}, None}
                  /\ \E s \in Good : s.id = Charts(draft.charts)[k].source
                                     /\ s.result.rows = Charts(draft.charts)[k].values
  <1>1. PICK texts, specs : texts = draft.highlights /\ specs = draft.charts
    OBVIOUS
  <1>2. /\ MaxCharts \in Nat /\ MaxHighlights \in Nat
        /\ Len(texts) \in Nat /\ DOMAIN texts = 1..Len(texts)
        /\ Len(specs) \in Nat /\ DOMAIN specs = 1..Len(specs)
    BY <1>1, OutputAssumption DEF IsSequence
  <1>3. ASSUME NEW k \in DOMAIN Highlights(texts)
        PROVE  Highlights(texts)[k].numbers \subseteq OfSums /\ ~Highlights(texts)[k].scolds
    <2> DEFINE fit == {i \in DOMAIN texts : ~texts[i].scolds /\ Supported(texts[i], NumbersFromTools)}
    <2>1. PICK places, n : places = fit /\ n = Len(texts)
      OBVIOUS
    <2>2. places \in SUBSET (1..n) /\ n \in Nat
      BY <1>2, <2>1
    <2>3. Highlights(texts) = FirstOf(Those(texts, places), MaxHighlights)
      BY <2>1 DEF Highlights
    <2>6. FirstPicked(n, texts, places, MaxHighlights, Highlights(texts))
      BY <1>2, <2>2, <2>3 DEF FirstPicked
    <2>4. PICK i \in places : Highlights(texts)[k] = texts[i]
      BY <1>3, <2>6, FirstOfThose
    <2>5. ~texts[i].scolds /\ texts[i].numbers \subseteq NumbersFromTools
      BY <2>1, <2>4 DEF Supported
    <2> QED BY <2>4, <2>5, NumbersAreOfSums
  <1>4. ASSUME NEW k \in DOMAIN Charts(specs)
        PROVE  /\ ToSet(Charts(specs)[k].values) \subseteq Numbers /\ Charts(specs)[k].note \in {{}, None}
               /\ \E s \in Good : s.id = Charts(specs)[k].source /\ s.result.rows = Charts(specs)[k].values
    <2>1. PICK drawn : drawn = [i \in DOMAIN specs |-> FillChart(specs[i])]
      OBVIOUS
    <2>2. PICK places, n : places = {i \in DOMAIN drawn : drawn[i] # None} /\ n = Len(specs)
      OBVIOUS
    <2>3. places \in SUBSET (1..n) /\ n \in Nat
      BY <1>2, <2>1, <2>2
    <2>4. Charts(specs) = FirstOf(Those(drawn, places), MaxCharts)
      BY <2>1, <2>2 DEF Charts
    <2>7. FirstPicked(n, drawn, places, MaxCharts, Charts(specs))
      BY <1>2, <2>3, <2>4 DEF FirstPicked
    <2>5. PICK i \in places : Charts(specs)[k] = drawn[i]
      BY <1>4, <2>7, FirstOfThose
    <2>6. drawn[i] = FillChart(specs[i]) /\ drawn[i] # None
      BY <2>1, <2>2, <2>5
    <2> QED BY <2>5, <2>6, ChartIsOfStep
  <1> QED BY <1>1, <1>3, <1>4

\* The sentence of a chat's answer stands in the answers, or in the articles it cites.
LEMMA ChatIsGrounded ==
    ASSUME NEW stop, NEW text, NEW out, out = AnswerText(stop, text), out.text # None
    PROVE  /\ out.text.refs \subseteq DocumentsIn
           /\ out.text.numbers \subseteq OfSums \cup UNION {NumbersIn[c] : c \in out.text.refs}
  <1>1. out.text = text /\ Verified(text)
    BY DEF AnswerText
  <1>2. CASE CheckCitations(text.numbers, text.refs, DocumentsIn, NumbersFromTools) = "missing"
    <2>1. text.refs = {} /\ text.numbers \subseteq NumbersFromTools
      BY <1>1, <1>2 DEF Verified, CheckCitations, Supported
    <2> QED BY <1>1, <2>1, NumbersAreOfSums
  <1>3. CASE CheckCitations(text.numbers, text.refs, DocumentsIn, NumbersFromTools) = "ok"
    <2>1. /\ text.refs \subseteq DocumentsIn
          /\ text.numbers \subseteq NumbersFromTools \cup UNION {NumbersIn[c] : c \in text.refs}
      BY <1>3 DEF CheckCitations
    <2> QED BY <1>1, <2>1, NumbersAreOfSums
  <1> QED BY <1>1, <1>2, <1>3 DEF Verified

\* An answer out of articles cites some it was given, and tells their numbers.
LEMMA AskedIsGrounded ==
    ASSUME NEW chunks, NEW draft, NEW out, out = AskedDocuments(chunks, draft),
           out.status = "answered"
    PROVE  /\ out.cited # {} /\ out.cited \subseteq out.chunks
           /\ out.answer.numbers \subseteq UNION {NumbersIn[c] : c \in out.cited}
  <1> DEFINE verdict == CheckCitations(draft.numbers, draft.refs, chunks, {})
             end == [status |-> "answered", answer |-> draft, cited |-> draft.refs, chunks |-> chunks]
  <1>1. chunks # None /\ draft # None /\ draft # Wrong
    BY DEF AskedDocuments
  <1>2. verdict \in {"unknown", "missing", "numbers", "ok"}
    BY DEF CheckCitations
  <1>3. verdict = "ok" /\ out = end
    <2> HIDE DEF verdict
    <2>1. CASE verdict \in {"unknown", "numbers"}
      BY <1>1, <2>1 DEF AskedDocuments, verdict
    <2>2. CASE verdict = "missing"
      BY <1>1, <2>2 DEF AskedDocuments, verdict
    <2>3. CASE verdict = "ok"
      BY <1>1, <2>3 DEF AskedDocuments, verdict
    <2> QED BY <1>2, <2>1, <2>2, <2>3
  <1>4. /\ draft.refs # {} /\ draft.refs \subseteq chunks
        /\ draft.numbers \subseteq UNION {NumbersIn[c] : c \in draft.refs}
    BY <1>3 DEF CheckCitations
  <1> QED BY <1>3, <1>4

-----------------------------------------------------------------------------
(* The steps of a run *)

\* Calls that differ, differ by more than their number and what came of them.
LEMMA CallsDiffer ==
    ASSUME NEW s \in OutputStep, NEW t \in OutputStep, Call(s) # Call(t)
    PROVE  [s EXCEPT !.id = 0, !.result = Failed] # [t EXCEPT !.id = 0, !.result = Failed]
  <1>1. s.tool # t.tool \/ s.arg # t.arg
    BY DEF Call
  <1>2. /\ [s EXCEPT !.id = 0, !.result = Failed].tool = s.tool
        /\ [s EXCEPT !.id = 0, !.result = Failed].arg = s.arg
    BY DEF OutputStep
  <1>3. /\ [t EXCEPT !.id = 0, !.result = Failed].tool = t.tool
        /\ [t EXCEPT !.id = 0, !.result = Failed].arg = t.arg
    BY DEF OutputStep
  <1> QED BY <1>1, <1>2, <1>3

\* Before anything is shown, all there is to say is about the steps.
LEMMA UnshownIsGrounded ==
    ASSUME OutputTypeOK, PlansAreKept, shown = None
    PROVE  ShownIsGrounded
  <1>1. ASSUME flow = "report", NEW i \in DOMAIN steps, NEW j \in DOMAIN steps, i # j
        PROVE  [steps[i] EXCEPT !.id = 0, !.result = Failed] # [steps[j] EXCEPT !.id = 0, !.result = Failed]
    <2>1. steps[i] \in OutputStep /\ steps[j] \in OutputStep
      BY DEF OutputTypeOK
    <2>2. Call(steps[i]) # Call(steps[j])
      BY <1>1 DEF PlansAreKept
    <2> QED BY <2>1, <2>2, CallsDiffer
  <1>2. Len(steps) <= IF flow = "report" THEN Len(Fixed) + 2 * PerPlan ELSE MaxSteps
    <2>1. PerPlan \in Nat /\ Len(Fixed) \in Nat /\ MaxSteps \in Nat /\ Len(steps) \in Nat
      BY OutputAssumption DEF OutputTypeOK
    <2>2. CASE flow = "report"
      <3>1. Len(steps) <= Len(Fixed) + plans * PerPlan
        BY <2>2 DEF PlansAreKept
      <3>2. plans = 0 \/ plans = 1 \/ plans = 2
        BY DEF OutputTypeOK
      <3> QED BY <2>1, <2>2, <3>1, <3>2
    <2>3. CASE flow # "report"
      BY <2>3 DEF PlansAreKept
    <2> QED BY <2>2, <2>3
  <1> QED BY <1>1, <1>2 DEF ShownIsGrounded

LEMMA OutputStart == OutputInit => OutputInductive
  <1> SUFFICES ASSUME OutputInit PROVE OutputInductive
    OBVIOUS
  <1>1. flow \in {"report", "chat", "ask"} /\ plans = 0 /\ shown = None
    BY DEF OutputInit
  <1>2. Fixed \in Seq([tool : Sums, arg : Arg]) /\ MaxSteps \in Nat
    BY OutputAssumption
  <1>3. CASE flow # "report"
    <2>1. steps = <<>>
      BY <1>3 DEF OutputInit
    <2>2. OutputTypeOK
      BY <1>1, <2>1 DEF OutputTypeOK
    <2>3. PlansAreKept
      BY <1>2, <1>3, <2>1 DEF PlansAreKept
    <2> QED BY <1>1, <2>2, <2>3, UnshownIsGrounded DEF OutputInductive
  <1>4. CASE flow = "report"
    <2>1. PICK results \in [DOMAIN Fixed -> Result("sums") \ {Failed}] :
              steps = [i \in DOMAIN Fixed |-> Step(i, Fixed[i].tool, Fixed[i].arg, results[i])]
      BY <1>4 DEF OutputInit
    <2>2. PICK n \in Nat : n = Len(Fixed) /\ DOMAIN Fixed = 1..n
      BY <1>2
    <2>3. ASSUME NEW i \in 1..n
          PROVE  /\ steps[i] \in OutputStep /\ steps[i].result \in Result("sums")
                 /\ Call(steps[i]) = Call(Fixed[i])
      <3>1. steps[i] = Step(i, Fixed[i].tool, Fixed[i].arg, results[i])
        BY <2>1, <2>2, <2>3
      <3>2. results[i] \in Result("sums") /\ results[i] \in OutputResult
        BY <2>1, <2>2, <2>3, ResultsFit
      <3>3. Fixed[i] \in [tool : Sums, arg : Arg] /\ i \in Nat
        <4>1. i \in DOMAIN Fixed /\ i \in Nat
          BY <2>2, <2>3
        <4>2. PICK R : R = [tool : Sums, arg : Arg]
          OBVIOUS
        <4>3. Fixed \in Seq(R)
          BY <1>2, <4>2
        <4>4. Fixed[i] \in R
          BY <4>1, <4>3
        <4> QED BY <4>1, <4>2, <4>4
      <3> QED BY <3>1, <3>2, <3>3 DEF Step, OutputStep, Call
    <2>4. steps \in Seq(OutputStep) /\ Len(steps) = n /\ DOMAIN steps = 1..n
      <3>1. DOMAIN steps = 1..n /\ steps = [i \in 1..n |-> steps[i]]
        BY <2>1, <2>2
      <3> QED BY <2>2, <2>3, <3>1
    <2>5. OutputTypeOK
      BY <1>1, <2>4 DEF OutputTypeOK
    <2>6. PlansAreKept
      <3>1. PerPlan \in Nat
        BY OutputAssumption
      <3>2. Len(steps) <= Len(Fixed) + plans * PerPlan
        BY <1>1, <2>2, <2>4, <3>1
      <3>3. \A i, j \in DOMAIN steps : i # j => Call(steps[i]) # Call(steps[j])
        BY <2>2, <2>3, <2>4, OutputAssumption
      <3> QED BY <1>4, <2>3, <2>4, <3>2, <3>3 DEF PlansAreKept
    <2> QED BY <1>1, <2>5, <2>6, UnshownIsGrounded DEF OutputInductive
  <1> QED BY <1>3, <1>4

\* A plan adds calls that were not made, no more than it may have.
LEMMA KeepsRunPlan ==
    ASSUME OutputInductive, NEW plan \in Plans,
           NEW results \in [1..PerPlan -> Result("sums") \cup {None}], RunPlan(plan, results)
    PROVE  OutputInductive'
  <1>1. PICK checked : checked = CheckedPlan(plan)
    OBVIOUS
  <1>2. PICK ran : ran = Ran(checked, results)
    OBVIOUS
  <1>3. PICK more : more = Those(ran, {i \in DOMAIN ran : ran[i] # None})
    OBVIOUS
  <1>4. /\ flow = "report" /\ shown = None /\ plans < 2 /\ flow' = flow /\ shown' = shown
        /\ steps' = steps \o more /\ plans' \in {plans + 1, 2}
    BY <1>1, <1>2, <1>3 DEF RunPlan, Ran
  <1>5. OutputTypeOK /\ PlansAreKept /\ PerPlan \in Nat /\ Len(Fixed) \in Nat
    BY OutputAssumption DEF OutputInductive
  <1>6. /\ more \in Seq(OutputStep) /\ Len(more) <= PerPlan
        /\ \A i \in 1..Len(more) : more[i].result \in Result("sums") /\ Call(more[i]) \notin Called
        /\ \A i, j \in 1..Len(more) : i # j => Call(more[i]) # Call(more[j])
    <2>1. Planned(plan, checked, results, ran, more)
      BY <1>1, <1>2, <1>3 DEF Planned
    <2> QED BY <1>5, <2>1, RanFacts
  <1>7. steps \in Seq(OutputStep) /\ plans \in 0..1
    BY <1>4, <1>5 DEF OutputTypeOK
  <1>8. PICK n, m : n = Len(steps) /\ m = Len(more)
    OBVIOUS
  <1>9. n \in Nat /\ m \in Nat /\ Len(steps') = n + m /\ DOMAIN steps' = 1..(n + m)
    BY <1>4, <1>6, <1>7, <1>8
  <1>10. /\ \A i \in 1..n : steps'[i] = steps[i]
         /\ \A i \in (n + 1)..(n + m) : steps'[i] = more[i - n] /\ i - n \in 1..m
    BY <1>4, <1>6, <1>7, <1>8, <1>9
  <1>11. OutputTypeOK'
    BY <1>4, <1>5, <1>6, <1>7 DEF OutputTypeOK
  <1>12. ASSUME NEW i \in 1..n PROVE Call(steps[i]) \in Called /\ steps[i].result \in Result("sums")
    BY <1>4, <1>5, <1>7, <1>8 DEF Called, Seen, ToSet, PlansAreKept
  <1> HIDE DEF Called
  <1>13. ASSUME NEW i \in 1..(n + m) PROVE steps'[i].result \in Result("sums")
    <2>1. CASE i \in 1..n
      BY <1>10, <1>12, <2>1
    <2>2. CASE i \in (n + 1)..(n + m)
      BY <1>6, <1>8, <1>10, <2>2
    <2> QED BY <1>9, <2>1, <2>2
  <1>14. ASSUME NEW i \in 1..(n + m), NEW j \in 1..(n + m), i < j
         PROVE  Call(steps'[i]) # Call(steps'[j])
    <2>1. CASE j \in 1..n
      <3>1. i \in 1..n /\ i # j
        BY <1>9, <1>14, <2>1
      <3>2. Call(steps[i]) # Call(steps[j])
        BY <1>4, <1>5, <1>7, <1>8, <2>1, <3>1, SMTT(40) DEF PlansAreKept
      <3> QED BY <1>10, <2>1, <3>1, <3>2
    <2>2. CASE i \in 1..n /\ j \in (n + 1)..(n + m)
      <3>1. Call(steps'[i]) \in Called
        BY <1>10, <1>12, <2>2
      <3>2. Call(steps'[j]) \notin Called
        BY <1>6, <1>8, <1>10, <2>2
      <3> QED BY <3>1, <3>2
    <2>3. CASE i \in (n + 1)..(n + m) /\ j \in (n + 1)..(n + m)
      <3>1. i - n \in 1..m /\ j - n \in 1..m /\ i - n # j - n
        BY <1>9, <1>14, <2>3
      <3> QED BY <1>6, <1>8, <1>10, <2>3, <3>1
    <2> QED BY <1>9, <1>14, <2>1, <2>2, <2>3
  <1>15. ASSUME NEW i \in 1..(n + m), NEW j \in 1..(n + m), i # j
         PROVE  Call(steps'[i]) # Call(steps'[j])
    <2>1. i < j \/ j < i
      BY <1>9, <1>15
    <2> QED BY <1>14, <2>1
  <1>16. Len(steps') <= Len(Fixed) + plans' * PerPlan
    <2>1. n <= Len(Fixed) + plans * PerPlan
      BY <1>4, <1>5, <1>8 DEF PlansAreKept
    <2>2. (plans = 0 \/ plans = 1) /\ (plans' = plans + 1 \/ plans' = 2)
      BY <1>4, <1>7
    <2> QED BY <1>5, <1>6, <1>8, <1>9, <2>1, <2>2
  <1>17. PlansAreKept'
    <2>1. flow' = "report"
      BY <1>4
    <2>2. \A i, j \in DOMAIN steps' : i # j => Call(steps'[i]) # Call(steps'[j])
      BY <1>9, <1>15
    <2>3. \A i \in DOMAIN steps' : steps'[i].result \in Result("sums")
      BY <1>9, <1>13
    <2> QED BY <1>16, <2>1, <2>2, <2>3 DEF PlansAreKept, Call
  <1>18. (OutputTypeOK /\ PlansAreKept /\ shown = None => ShownIsGrounded)'
    BY UnshownIsGrounded, PTL
  <1> QED BY <1>4, <1>11, <1>17, <1>18 DEF OutputInductive

\* The model calls one tool more, while it may.
LEMMA KeepsCallOne ==
    ASSUME OutputInductive, NEW tool \in {"summarize_spending", Documents}, NEW arg \in Arg \cup {Wrong},
           NEW result \in Result(tool), CallOne(tool, arg, result)
    PROVE  OutputInductive'
  <1>1. PICK new : new = Step(Len(steps) + 1, tool, arg, IF arg \in Arg THEN result ELSE Failed)
    OBVIOUS
  <1>2. /\ flow = "chat" /\ shown = None /\ Len(steps) < MaxSteps /\ steps' = Append(steps, new)
        /\ flow' = flow /\ plans' = plans /\ shown' = shown
    BY <1>1 DEF CallOne
  <1>3. OutputTypeOK /\ steps \in Seq(OutputStep) /\ Len(steps) \in Nat /\ MaxSteps \in Nat
    BY OutputAssumption DEF OutputInductive, OutputTypeOK
  <1>4. new \in OutputStep
    <2>1. result \in OutputResult /\ Failed \in OutputResult
      BY ResultsFit
    <2> QED BY <1>1, <1>3, <2>1 DEF Step, OutputStep
  <1>5. steps' \in Seq(OutputStep) /\ Len(steps') = Len(steps) + 1
    BY <1>2, <1>3, <1>4
  <1>6. OutputTypeOK'
    BY <1>2, <1>3, <1>5 DEF OutputTypeOK
  <1>7. PlansAreKept'
    <2>1. flow' # "report" /\ Len(steps') <= MaxSteps
      BY <1>2, <1>3, <1>5
    <2> QED BY <2>1 DEF PlansAreKept
  <1>8. (OutputTypeOK /\ PlansAreKept /\ shown = None => ShownIsGrounded)'
    BY UnshownIsGrounded, PTL
  <1> QED BY <1>2, <1>6, <1>7, <1>8 DEF OutputInductive

\* Where the steps stay, so do their numbers.
LEMMA SameSteps ==
    ASSUME OutputInductive, UNCHANGED <<flow, steps, plans>>
    PROVE  /\ OutputTypeOK' /\ PlansAreKept'
           /\ OfSums' = OfSums /\ Good' = Good /\ DocumentsIn' = DocumentsIn
  <1>1. OutputTypeOK'
    BY DEF OutputInductive, OutputTypeOK
  <1>2. PlansAreKept'
    BY DEF OutputInductive, PlansAreKept
  <1> QED BY <1>1, <1>2 DEF OfSums, Good, DocumentsIn, Seen

LEMMA KeepsShown ==
    ASSUME OutputInductive, shown = None, UNCHANGED <<flow, steps, plans>>,
           flow = "report" => \E draft \in Layouts : Assemble(draft),
           flow = "chat" => \E stop, text : AnswerChat(stop, text),
           flow = "ask" => \E chunks, draft : AnswerDocuments(chunks, draft)
    PROVE  OutputInductive'
  <1>1. /\ OutputTypeOK' /\ PlansAreKept'
        /\ OfSums' = OfSums /\ Good' = Good /\ DocumentsIn' = DocumentsIn
    BY SameSteps
  <1>2. OutputTypeOK /\ ShownIsGrounded
    BY DEF OutputInductive
  <1>3. /\ \A i, j \in DOMAIN steps :
              flow = "report" /\ i # j => [steps[i] EXCEPT !.id = 0, !.result = Failed]
                                            # [steps[j] EXCEPT !.id = 0, !.result = Failed]
        /\ Len(steps) <= IF flow = "report" THEN Len(Fixed) + 2 * PerPlan ELSE MaxSteps
    BY <1>2 DEF ShownIsGrounded
  <1>4. ASSUME flow = "report"
        PROVE  /\ \A i \in DOMAIN shown'.highlights :
                      shown'.highlights[i].numbers \subseteq OfSums /\ ~shown'.highlights[i].scolds
               /\ \A i \in DOMAIN shown'.charts :
                      /\ ToSet(shown'.charts[i].values) \subseteq Numbers
                      /\ shown'.charts[i].note \in {{}, None}
                      /\ \E s \in Good : s.id = shown'.charts[i].source
                                         /\ s.result.rows = shown'.charts[i].values
    <2>1. PICK draft \in Layouts :
              shown' = [charts |-> Charts(draft.charts), highlights |-> Highlights(draft.highlights)]
      BY <1>4 DEF Assemble
    <2>2. shown'.charts = Charts(draft.charts) /\ shown'.highlights = Highlights(draft.highlights)
      BY <2>1
    <2> QED BY <1>2, <2>2, ReportIsGrounded
  <1>5. ASSUME flow = "chat", shown'.text # None
        PROVE  /\ shown'.text.refs \subseteq DocumentsIn
               /\ shown'.text.numbers \subseteq OfSums \cup UNION {NumbersIn[c] : c \in shown'.text.refs}
    <2>1. PICK stop, text : shown' = AnswerText(stop, text)
      BY <1>5 DEF AnswerChat
    <2> QED BY <1>5, <2>1, ChatIsGrounded
  <1>6. ASSUME flow = "ask", shown'.status = "answered"
        PROVE  /\ shown'.cited # {} /\ shown'.cited \subseteq shown'.chunks
               /\ shown'.answer.numbers \subseteq UNION {NumbersIn[c] : c \in shown'.cited}
    <2>1. PICK chunks, draft : shown' = AskedDocuments(chunks, draft)
      BY <1>6 DEF AnswerDocuments
    <2> QED BY <1>6, <2>1, AskedIsGrounded
  <1>7. flow' = flow /\ steps' = steps
    OBVIOUS
  <1> HIDE DEF OfSums, Good, DocumentsIn
  <1>8. ShownIsGrounded'
    BY <1>1, <1>3, <1>4, <1>5, <1>6, <1>7 DEF ShownIsGrounded
  <1> QED BY <1>1, <1>8 DEF OutputInductive

\* Each step of a run keeps it.
LEMMA OutputStepKeeps == OutputInductive /\ [OutputNext]_output_vars => OutputInductive'
  <1> SUFFICES ASSUME OutputInductive, [OutputNext]_output_vars PROVE OutputInductive'
    OBVIOUS
  <1>1. CASE \E plan \in Plans : \E results \in [1..PerPlan -> Result("sums") \cup {None}] :
                 RunPlan(plan, results)
    BY <1>1, KeepsRunPlan
  <1>2. CASE flow = "report" /\ \E draft \in Layouts : Assemble(draft)
    BY <1>2, KeepsShown DEF Assemble
  <1>3. CASE \E tool \in {"summarize_spending", Documents}, arg \in Arg \cup {Wrong} :
                 \E result \in Result(tool) : CallOne(tool, arg, result)
    BY <1>3, KeepsCallOne
  <1>4. CASE flow = "chat" /\ \E stop, text : AnswerChat(stop, text)
    BY <1>4, KeepsShown DEF AnswerChat
  <1>5. CASE flow = "ask" /\ \E chunks, draft : AnswerDocuments(chunks, draft)
    BY <1>5, KeepsShown DEF AnswerDocuments
  <1>6. CASE UNCHANGED output_vars
    <2>1. flow' = flow /\ steps' = steps /\ plans' = plans /\ shown' = shown
      BY <1>6 DEF output_vars
    <2>2. OutputTypeOK' /\ PlansAreKept' /\ OfSums' = OfSums /\ Good' = Good /\ DocumentsIn' = DocumentsIn
      BY <2>1, SameSteps
    <2>3. ShownIsGrounded'
      BY <2>1, <2>2, ZenonT(60) DEF OutputInductive, ShownIsGrounded
    <2> QED BY <2>2, <2>3 DEF OutputInductive
  <1> QED BY <1>1, <1>2, <1>3, <1>4, <1>5, <1>6 DEF OutputNext

\* A run of a report, of a chat or over articles keeps its steps within its plans, and what it
\* shows grounded in them (plan_check, BuildInsights, AnswerQuestion, AskDocuments).
THEOREM OutputInvariant == OutputSpec => []OutputInductive
  <1>1. OutputInit => OutputInductive
    BY OutputStart
  <1>2. OutputInductive /\ [OutputNext]_output_vars => OutputInductive'
    BY OutputStepKeeps
  <1> QED BY <1>1, <1>2, PTL DEF OutputSpec

\* No sentence that a user is shown, no chart but for its title and no line under one has a number
\* in it that no answer of a tool told
\* (number_check, chart_fill, highlight_check, citation_check, answer_text).
THEOREM ShownIsTold == OutputSpec => []ShownIsGrounded
  <1>1. OutputInductive => ShownIsGrounded
    BY DEF OutputInductive
  <1> QED BY <1>1, OutputInvariant, PTL

-----------------------------------------------------------------------------
(* Forms of the ui *)

USE FormAssumption

\* Every key has its place.
LEMMA KeysFit == 1..MaxForms \subseteq 1..(MaxForms * (MaxSent + 1))
  <1>1. MaxForms \in Nat /\ MaxSent \in Nat
    OBVIOUS
  <1>2. MaxForms * (MaxSent + 1) \in Nat /\ MaxForms <= MaxForms * (MaxSent + 1)
    <2>1. \A a, b \in Nat : a * b \in Nat
      OBVIOUS
    <2>2. \A a, b \in Nat : a * (b + 1) = a * b + a
      OBVIOUS
    <2> QED BY <1>1, <2>1, <2>2
  <1> QED BY <1>1, <1>2

\* A form may be without a category.
LEMMA NoCategory == None \in AnyCategory
  <1> DEFINE chosen == UNION {CategoriesOf[d] : d \in Sided}
  <1>1. AnyCategory = chosen \cup {None}
    BY DEF AnyCategory
  <1> HIDE DEF chosen
  <1> QED BY <1>1

\* What was read lies over the fields, and a category is one of its direction.
LEMMA AppliedFits ==
    ASSUME NEW fields \in FormFields, NEW words \in Readings, NEW reached \in BOOLEAN
    PROVE  Applied(fields, Heard(words, reached)) \in FormFields
  <1> DEFINE heard == Heard(words, reached)
  <1>1. heard \in Heeded
    <2>1. words \in Heeded
      OBVIOUS
    <2>2. None \in AnyCategory
      BY NoCategory
    <2> QED BY <2>1, <2>2 DEF Heard, Heeded
  <1> DEFINE over == [fields EXCEPT !.amount = heard.amount,
                          !.direction = IF heard.direction = None THEN @ ELSE heard.direction]
             base == DropOutside(over)
  <1>2. over \in FormFields
    BY <1>1 DEF FormFields, Heeded
  <1>3. base \in FormFields
    <2>1. None \in AnyCategory
      BY NoCategory
    <2>2. [over EXCEPT !.category = None] \in FormFields
      BY <1>2, <2>1 DEF FormFields
    <2> QED BY <1>2, <2>2 DEF DropOutside
  <1>4. [base EXCEPT !.category = heard.category] \in FormFields
    BY <1>1, <1>3 DEF FormFields, Heeded
  <1> HIDE DEF heard
  <1>5. Applied(fields, heard) \in {fields, base, [base EXCEPT !.category = heard.category]}
    BY Zenon DEF Applied
  <1> QED BY <1>3, <1>4, <1>5 DEF heard

\* What is asked of the api by a form.
LEMMA AskFits ==
    ASSUME NEW form \in FormPage
    PROVE  AskOf(form) \in FormAsk
  BY DEF AskOf, FormAsk, FormPage

\* A form that is drawn again with other fields is the form of the same opening and key.
LEMMA DrawnAgainFits ==
    ASSUME NEW form \in FormPage, NEW fields \in FormFields
    PROVE  [form EXCEPT !.fields = fields, !.key = KeyDrawnAgain(form)] \in FormPage
  BY DEF FormPage, KeyDrawnAgain

\* An answer changes its own request only.
LEMMA AnsweredFits ==
    ASSUME FormsTypeOK, NEW n \in 1..MaxSent, onway[n] # None, NEW word \in FormReply,
           Answered(n, word)
    PROVE  /\ onway' \in [1..MaxSent -> FormRequest \cup {None}]
           /\ onway'[n].form = onway[n].form /\ onway'[n].reply = word
           /\ \A m \in 1..MaxSent : m # n => onway'[m] = onway[m]
  <1>1. onway[n] \in FormRequest
    BY DEF FormsTypeOK
  <1>2. onway' = [onway EXCEPT ![n] = [onway[n] EXCEPT !.at = "answered", !.reply = word]]
    BY DEF Answered, FormsTypeOK
  <1>3. [onway[n] EXCEPT !.at = "answered", !.reply = word] \in FormRequest
    BY <1>1 DEF FormRequest
  <1>4. /\ [onway[n] EXCEPT !.at = "answered", !.reply = word].form = onway[n].form
        /\ [onway[n] EXCEPT !.at = "answered", !.reply = word].reply = word
    BY <1>1 DEF FormRequest
  <1> QED BY <1>2, <1>3, <1>4 DEF FormsTypeOK

\* An entry that is gone is not put back.
StaysGone == \A id \in Held : id \in Used /\ store[id] = None => store'[id] = None

\* What was done stays done, what is gone stays gone and an id that was given stays given.
LEMMA TrueStays ==
    ASSUME effects \subseteq effects', StaysGone, NEW form \in FormPage
    PROVE  /\ \A what : IsTrue(what, form) => IsTrue(what, form)'
           /\ OfGiven(form) => OfGiven(form)'
  <1>1. WasMade(form) => WasMade(form)'
    BY DEF WasMade
  <1>2. Used \subseteq Used'
    BY DEF Used
  <1>3. Gone(form) => Gone(form)'
    BY <1>2 DEF Gone, StaysGone, FormPage
  <1>4. OfGiven(form) => OfGiven(form)'
    BY <1>2 DEF OfGiven
  <1> QED BY <1>1, <1>3, <1>4 DEF IsTrue

\* The requests that a step leaves as they are or ends stay true.
OthersStay(n) == \A m \in 1..MaxSent : m # n => onway'[m] = onway[m] \/ onway'[m] = None
TrueRequest(n) ==
    onway[n] # None => IsTrue(onway[n].reply, onway[n].form) /\ OfGiven(onway[n].form)

LEMMA OnWayFits ==
    ASSUME FormsInductive, effects \subseteq effects', StaysGone, NEW m \in 1..MaxSent,
           onway'[m] = onway[m] \/ onway'[m] = None
    PROVE  TrueRequest(m)'
  <1>1. CASE onway'[m] = None
    BY <1>1 DEF TrueRequest
  <1>2. CASE onway[m] = None
    BY <1>2 DEF TrueRequest
  <1>3. CASE onway[m] # None /\ onway'[m] = onway[m]
    <2>1. onway[m] \in FormRequest
      BY <1>3 DEF FormsInductive, FormsTypeOK
    <2>2. PICK form \in FormPage : form = onway[m].form
      BY <2>1 DEF FormRequest
    <2>3. PICK what : what = onway[m].reply
      OBVIOUS
    <2>4. IsTrue(what, form) /\ OfGiven(form)
      BY <1>3, <2>2, <2>3 DEF FormsInductive, AnswersAreTrue, IdsAreKept
    <2>5. IsTrue(what, form)' /\ OfGiven(form)'
      BY <2>4, TrueStays
    <2> QED BY <1>3, <2>2, <2>3, <2>5 DEF TrueRequest, IsTrue, WasMade, Gone, OfGiven
  <1> QED BY <1>1, <1>2, <1>3

\* What the user was told last stays true.
TrueNotice == notice # None => IsTrue(notice.what, notice.form)

LEMMA NoticeFits ==
    ASSUME FormsInductive, effects \subseteq effects', StaysGone, notice' = notice \/ notice' = None
    PROVE  TrueNotice'
  <1>1. CASE notice' = None
    BY <1>1 DEF TrueNotice
  <1>2. CASE notice # None /\ notice' = notice
    <2>1. PICK form \in FormPage : form = notice.form
      BY <1>2 DEF FormsInductive, FormsTypeOK, FormNotice
    <2>2. PICK what : what = notice.what
      OBVIOUS
    <2>3. IsTrue(what, form)
      BY <1>2, <2>1, <2>2 DEF FormsInductive, AnswersAreTrue
    <2>4. IsTrue(what, form)'
      BY <2>3, TrueStays
    <2> QED BY <1>2, <2>1, <2>2, <2>4 DEF TrueNotice, IsTrue, WasMade, Gone
  <1> QED BY <1>1, <1>2

\* The pages that are open stay those of given ids.
PagesGiven == (page # None => OfGiven(page)) /\ \A form \in past : OfGiven(form)

LEMMA PagesFit ==
    ASSUME FormsInductive, effects \subseteq effects', UNCHANGED <<page, past>>
    PROVE  PagesGiven'
  <1>1. Used \subseteq Used'
    BY DEF Used
  <1> QED BY <1>1 DEF FormsInductive, IdsAreKept, PagesGiven, OfGiven

\* An answer that is not "saved" is true when there is nothing to delete or to change.
LEMMA OtherAnswer ==
    ASSUME FormsInductive, NEW n \in 1..MaxSent, onway[n] # None, NEW word \in FormReply,
           word # "saved", word = "not_found" => Gone(onway[n].form), Answered(n, word),
           UNCHANGED <<store, kept, page, past, notice, opened, numbers, effects, hours>>
    PROVE  FormsInductive'
  <1> USE DEF FormsInductive
  <1>1. FormsTypeOK'
    BY AnsweredFits DEF FormsTypeOK
  <1>2. KeysTell'
    BY DEF KeysTell
  <1>3. effects \subseteq effects' /\ StaysGone
    BY DEF StaysGone
  <1>4. ASSUME NEW m \in 1..MaxSent PROVE TrueRequest(m)'
    <2>1. CASE m = n
      <3>1. /\ onway'[n].form = onway[n].form /\ onway'[n].reply = word
            /\ OfGiven(onway[n].form)
        BY AnsweredFits DEF IdsAreKept
      <3> QED BY <2>1, <3>1 DEF TrueRequest, IsTrue, Gone, OfGiven, Used
    <2>2. CASE m # n
      BY <1>3, <2>2, AnsweredFits, OnWayFits
    <2> QED BY <2>1, <2>2
  <1>5. TrueNotice' /\ PagesGiven'
    BY <1>3, NoticeFits, PagesFit
  <1>6. \A id \in Held : store'[id] # None => id \in Used'
    BY DEF IdsAreKept, Used
  <1> QED BY <1>1, <1>2, <1>4, <1>5, <1>6, Zenon
          DEF AnswersAreTrue, IdsAreKept, TrueRequest, TrueNotice, PagesGiven

\* A request that has ended tells nobody anything more.
LEMMA EndFits ==
    ASSUME FormsInductive, NEW n \in 1..MaxSent, Ends(n),
           UNCHANGED <<store, kept, past, opened, numbers, effects, hours>>,
           page' # None => page' \in FormPage /\ OfGiven(page'),
           notice' # None => notice' \in FormNotice /\ IsTrue(notice'.what, notice'.form)
    PROVE  FormsInductive'
  <1> USE DEF FormsInductive
  <1>1. /\ onway' \in [1..MaxSent -> FormRequest \cup {None}]
        /\ \A m \in 1..MaxSent : onway'[m] = onway[m] \/ onway'[m] = None
    BY DEF FormsTypeOK, Ends
  <1>2. FormsTypeOK'
    BY <1>1 DEF FormsTypeOK
  <1>3. KeysTell'
    BY DEF KeysTell
  <1>4. effects \subseteq effects' /\ StaysGone
    BY DEF StaysGone
  <1>5. \A m \in 1..MaxSent : TrueRequest(m)'
    BY <1>1, <1>4, OnWayFits
  <1>6. Used' = Used
    BY DEF Used
  <1>7. TrueNotice'
    BY <1>6 DEF TrueNotice, IsTrue, WasMade, Gone
  <1>8. PagesGiven'
    BY <1>6 DEF PagesGiven, OfGiven, IdsAreKept
  <1>9. \A id \in Held : store'[id] # None => id \in Used'
    BY <1>6 DEF IdsAreKept
  <1> QED BY <1>2, <1>3, <1>5, <1>7, <1>8, <1>9, Zenon
          DEF AnswersAreTrue, IdsAreKept, TrueRequest, TrueNotice, PagesGiven

\* Steps that leave the requests, the replies and the effects alone.
LEMMA ScreenFits ==
    ASSUME FormsInductive, UNCHANGED <<kept, onway, numbers, effects>>,
           store' \in [Held -> FormFields \cup {None}],
           \A id \in Held : store'[id] = store[id] \/ store'[id] = None,
           page' # None => page' \in FormPage /\ OfGiven(page'),
           past' \subseteq FormPage, \A form \in past' : OfGiven(form),
           opened' \in 0..MaxForms, hours' \in Nat,
           notice' \in {notice, None}
    PROVE  FormsInductive'
  <1> USE DEF FormsInductive
  <1>1. FormsTypeOK'
    BY DEF FormsTypeOK
  <1>2. KeysTell'
    BY DEF KeysTell
  <1>3. effects \subseteq effects' /\ StaysGone
    BY DEF StaysGone
  <1>4. \A m \in 1..MaxSent : TrueRequest(m)'
    BY <1>3, OnWayFits
  <1>5. TrueNotice'
    BY <1>3, NoticeFits
  <1>6. Used' = Used
    BY DEF Used
  <1>7. PagesGiven'
    BY <1>6 DEF PagesGiven, OfGiven
  <1>8. \A id \in Held : store'[id] # None => id \in Used'
    BY <1>6 DEF IdsAreKept
  <1> QED BY <1>1, <1>2, <1>4, <1>5, <1>7, <1>8, Zenon
          DEF AnswersAreTrue, IdsAreKept, TrueRequest, TrueNotice, PagesGiven

-----------------------------------------------------------------------------

\* No form is open at the start.
LEMMA FormsStart == FormsInit => FormsInductive
  <1> SUFFICES ASSUME FormsInit PROVE FormsInductive
    OBVIOUS
  <1>1. PICK c \in CategoriesOf["expense"] : c = CHOOSE d \in CategoriesOf["expense"] : TRUE
    OBVIOUS
  <1>2. [direction |-> "expense", amount |-> 1, category |-> c] \in FormFields
    BY DEF FormFields, Sided, AnyCategory
  <1>3. FormsTypeOK
    <2>1. store \in [Held -> FormFields \cup {None}]
      BY <1>1, <1>2 DEF FormsInit
    <2> QED BY <2>1 DEF FormsInit, FormsTypeOK
  <1>4. KeysTell /\ AnswersAreTrue
    BY KeysFit DEF FormsInit, KeysTell, AnswersAreTrue
  <1>5. IdsAreKept
    <2>1. \A id \in Held : store[id] # None => id = 1
      BY DEF FormsInit
    <2> QED BY <2>1 DEF FormsInit, IdsAreKept, Used
  <1> QED BY <1>3, <1>4, <1>5 DEF FormsInductive

\* Opening a form gives it a key of its own.
LEMMA KeepsOpenForm ==
    ASSUME FormsInductive, NEW kind \in FormKind, NEW id \in Held \cup {None}, OpenForm(kind, id)
    PROVE  FormsInductive'
  <1> USE DEF FormsInductive
  <1>1. Default \in FormFields
    BY NoCategory DEF Default, FormFields
  <1>2. page' \in FormPage /\ OfGiven(page')
    <2>1. opened + 1 \in 1..MaxForms
      BY DEF OpenForm, FormsTypeOK
    <2>2. kind # "new" => id \in Held /\ store[id] \in FormFields /\ id \in Used
      BY DEF OpenForm, FormsTypeOK, IdsAreKept
    <2> DEFINE fields == IF kind = "new" THEN Default ELSE store[id]
    <2>3. fields \in FormFields
      BY <1>1, <2>2
    <2>4. page' = [kind |-> kind, of |-> id, key |-> opened + 1, opening |-> opened + 1, fields |-> fields]
      BY DEF OpenForm
    <2> HIDE DEF fields
    <2>5. page' \in FormPage
      BY <2>1, <2>2, <2>3, <2>4 DEF FormPage
    <2> QED BY <2>2, <2>4, <2>5 DEF OfGiven
  <1>3. /\ past' \subseteq FormPage /\ opened' \in 0..MaxForms /\ notice' = None
        /\ \A form \in past' : OfGiven(form)
    BY DEF OpenForm, FormsTypeOK, IdsAreKept
  <1> QED BY <1>2, <1>3, ScreenFits DEF OpenForm, FormsTypeOK

\* Going back, typing, a row removed elsewhere and time leave what is on its way.
LEMMA KeepsScreen ==
    ASSUME FormsInductive,
           \/ \E form \in past : GoBack(form)
           \/ page # None /\ \E fields \in Typeable : Type(fields)
           \/ \E id \in Held : RemoveElsewhere(id)
           \/ HoursPass
    PROVE  FormsInductive'
  <1> USE DEF FormsInductive
  <1>0. /\ page # None => page \in FormPage /\ OfGiven(page)
        /\ past \subseteq FormPage /\ \A form \in past : OfGiven(form)
    BY DEF FormsTypeOK, IdsAreKept
  <1>1. ASSUME NEW form \in past, GoBack(form) PROVE FormsInductive'
    BY <1>0, <1>1, ScreenFits DEF GoBack, FormsTypeOK
  <1>2. ASSUME NEW fields \in Typeable, page # None, Type(fields) PROVE FormsInductive'
    <2>1. page \in FormPage /\ fields \in FormFields
      BY <1>2 DEF Type, FormsTypeOK
    <2>2. page' \in FormPage /\ OfGiven(page')
      BY <1>0, <1>2, <2>1 DEF Type, FormPage, OfGiven
    <2> QED BY <1>0, <1>2, <2>2, ScreenFits DEF Type, FormsTypeOK
  <1>3. ASSUME NEW id \in Held, RemoveElsewhere(id) PROVE FormsInductive'
    BY <1>0, <1>3, ScreenFits DEF RemoveElsewhere, screen_vars, FormsTypeOK
  <1>4. CASE HoursPass
    BY <1>0, <1>4, ScreenFits DEF HoursPass, FormsTypeOK
  <1> QED BY <1>1, <1>2, <1>3, <1>4

\* A request carries the form as it is on the screen.
LEMMA KeepsSend ==
    ASSUME FormsInductive, NEW what \in {"save", "read"}, Send(what)
    PROVE  FormsInductive'
  <1> USE DEF FormsInductive
  <1> DEFINE request == [what |-> what, form |-> page, at |-> "sent", reply |-> None]
  <1>1. page \in FormPage /\ OfGiven(page) /\ numbers + 1 \in 1..MaxSent
    BY DEF Send, FormsTypeOK, IdsAreKept
  <1>2. request \in FormRequest
    BY <1>1 DEF FormRequest
  <1>3. /\ onway' \in [1..MaxSent -> FormRequest \cup {None}]
        /\ onway'[numbers + 1] = request
        /\ \A m \in 1..MaxSent : m # numbers + 1 => onway'[m] = onway[m]
    BY <1>1, <1>2 DEF Send, FormsTypeOK
  <1>4. FormsTypeOK'
    BY <1>1, <1>3 DEF Send, FormsTypeOK
  <1>5. KeysTell'
    BY DEF Send, KeysTell
  <1>6. effects \subseteq effects' /\ StaysGone /\ Used' = Used
    BY DEF Send, StaysGone, Used
  <1>7. ASSUME NEW m \in 1..MaxSent PROVE TrueRequest(m)'
    <2>1. CASE m = numbers + 1
      <3>1. None # "saved" /\ None # "not_found"
        BY DEF FormReply
      <3> QED BY <1>1, <1>3, <1>6, <2>1, <3>1 DEF TrueRequest, IsTrue, OfGiven
    <2>2. CASE m # numbers + 1
      BY <1>3, <1>6, <2>2, OnWayFits
    <2> QED BY <2>1, <2>2
  <1>8. TrueNotice'
    BY <1>6, NoticeFits DEF Send
  <1>9. PagesGiven' /\ \A id \in Held : store'[id] # None => id \in Used'
    BY <1>1, <1>6 DEF Send, PagesGiven, OfGiven, IdsAreKept
  <1> QED BY <1>4, <1>5, <1>7, <1>8, <1>9, Zenon
          DEF AnswersAreTrue, IdsAreKept, TrueRequest, TrueNotice, PagesGiven

\* A step that changes how far one request has come tells nobody anything.
LEMMA KeepsLookFirst ==
    ASSUME FormsInductive, NEW n \in 1..MaxSent, LookFirst(n)
    PROVE  FormsInductive'
  <1> USE DEF FormsInductive
  <1>0. onway[n] \in FormRequest /\ onway[n].form \in FormPage /\ OfGiven(onway[n].form)
    BY DEF LookFirst, FormsTypeOK, FormRequest, IdsAreKept
  <1>1. CASE store[onway[n].form.of] = None /\ Answered(n, "not_found")
    <2>1. Gone(onway[n].form)
      BY <1>0, <1>1 DEF LookFirst, Gone, OfGiven
    <2> QED BY <1>1, <2>1, OtherAnswer DEF LookFirst, FormReply, screen_vars
  <1>2. CASE onway' = [onway EXCEPT ![n].at = "writing"]
    <2>2. onway' = [onway EXCEPT ![n] = [onway[n] EXCEPT !.at = "writing"]]
      BY <1>2 DEF FormsTypeOK
    <2>3. /\ [onway[n] EXCEPT !.at = "writing"] \in FormRequest
          /\ [onway[n] EXCEPT !.at = "writing"].form = onway[n].form
          /\ [onway[n] EXCEPT !.at = "writing"].reply = onway[n].reply
      BY <1>0 DEF FormRequest
    <2>4. /\ onway' \in [1..MaxSent -> FormRequest \cup {None}]
          /\ \A m \in 1..MaxSent : m # n => onway'[m] = onway[m]
          /\ onway'[n].form = onway[n].form /\ onway'[n].reply = onway[n].reply
      BY <2>2, <2>3 DEF FormsTypeOK
    <2>5. FormsTypeOK'
      BY <2>4 DEF LookFirst, FormsTypeOK, screen_vars
    <2>6. KeysTell'
      BY DEF LookFirst, KeysTell, screen_vars
    <2>7. effects \subseteq effects' /\ StaysGone /\ Used' = Used
      BY DEF LookFirst, StaysGone, Used
    <2>8. ASSUME NEW m \in 1..MaxSent PROVE TrueRequest(m)'
      <3>1. CASE m = n
        <4>1. IsTrue(onway[n].reply, onway[n].form) /\ OfGiven(onway[n].form)
          BY DEF LookFirst, AnswersAreTrue, IdsAreKept
        <4> QED BY <2>4, <2>7, <3>1, <4>1
                DEF LookFirst, TrueRequest, IsTrue, WasMade, Gone, OfGiven
      <3>2. CASE m # n
        BY <2>4, <2>7, <3>2, OnWayFits
      <3> QED BY <3>1, <3>2
    <2>9. TrueNotice' /\ PagesGiven' /\ \A id \in Held : store'[id] # None => id \in Used'
      BY <2>7, NoticeFits, PagesFit DEF LookFirst, screen_vars, IdsAreKept
    <2> QED BY <2>5, <2>6, <2>8, <2>9, Zenon
            DEF AnswersAreTrue, IdsAreKept, TrueRequest, TrueNotice, PagesGiven
  <1> QED BY <1>1, <1>2 DEF LookFirst

\* What was written under a key lies behind, when the key is dead.
LEMMA KeysThatDied ==
    ASSUME FormsInductive, NEW k \in 1..MaxForms, ~Alive(k)
    PROVE  \A e \in effects : e.opening = k => e.at + KeyLife < hours
  <1> SUFFICES ASSUME NEW e \in effects, e.opening = k PROVE e.at + KeyLife < hours
    OBVIOUS
  <1>1. kept[k] # None /\ e.at <= kept[k].at
    BY DEF FormsInductive, KeysTell
  <1>2. kept[k] \in FormKept
    BY <1>1, KeysFit DEF FormsInductive, FormsTypeOK
  <1>3. kept[k].at + KeyLife < hours /\ kept[k].at \in Nat /\ hours \in Nat /\ e.at \in Nat
    BY <1>1, <1>2 DEF Alive, FormsInductive, FormsTypeOK, FormKept, FormEffect
  <1> QED BY <1>1, <1>3

\* The write that takes effect: its key is dead or new, so what its form did before lies behind.
LEMMA KeepsEffect ==
    ASSUME FormsInductive, NEW n \in 1..MaxSent, onway[n] # None, NEW id \in Held,
           ~Alive(onway[n].form.key),
           onway[n].form.kind = "new" => id \notin Used,
           onway[n].form.kind # "new" => store[id] # None /\ id = onway[n].form.of,
           store' = [store EXCEPT ![id] =
                         IF onway[n].form.kind = "delete" THEN None ELSE onway[n].form.fields],
           kept' = [kept EXCEPT ![onway[n].form.key] = [ask |-> AskOf(onway[n].form), at |-> hours]],
           effects' = effects \cup {Effect(n, id)},
           Answered(n, "saved"),
           UNCHANGED <<page, past, notice, opened, numbers, hours>>
    PROVE  FormsInductive'
  <1> USE DEF FormsInductive
  <1> DEFINE form == onway[n].form
             reply0 == [ask |-> AskOf(form), at |-> hours]
  <1>1. /\ onway[n] \in FormRequest /\ form \in FormPage
        /\ form.key = form.opening /\ form.key \in 1..MaxForms /\ hours \in Nat
    BY DEF FormsTypeOK, FormRequest, FormPage
  <1>2. reply0 \in FormKept /\ reply0 # None
    BY <1>1, AskFits DEF FormKept
  <1> DEFINE new == Effect(n, id)
  <1>3. /\ new \in FormEffect /\ new.opening = form.key /\ new.at = hours /\ new.id = id
        /\ Fulfils(new, AskOf(form))
    BY <1>1 DEF Effect, FormEffect, FormPage, Fulfils, AskOf
  <1>4. /\ kept'[form.key] = reply0
        /\ \A k \in 1..MaxForms : k # form.key => kept'[k] = kept[k]
        /\ kept' \in [1..(MaxForms * (MaxSent + 1)) -> FormKept \cup {None}]
    BY <1>1, <1>2, KeysFit DEF FormsTypeOK
  <1>5. \A e \in effects : /\ e.opening \in 1..MaxForms /\ e.at \in Nat
                           /\ e.opening = form.key => e.at + KeyLife < hours
    BY <1>1, KeysThatDied DEF FormsTypeOK, FormEffect
  <1>6. /\ onway' \in [1..MaxSent -> FormRequest \cup {None}]
        /\ onway'[n].form = form /\ onway'[n].reply = "saved"
        /\ \A m \in 1..MaxSent : m # n => onway'[m] = onway[m]
    BY AnsweredFits DEF FormReply
  <1>7. FormsTypeOK'
    <2>1. store' \in [Held -> FormFields \cup {None}]
      BY <1>1 DEF FormsTypeOK, FormPage
    <2> QED BY <1>3, <1>4, <1>6, <2>1 DEF FormsTypeOK
  <1> HIDE DEF new, reply0
  <1>8. effects' = effects \cup {new} /\ reply0.ask = AskOf(form) /\ reply0.at = hours
    BY DEF new, reply0
  <1>9. KeysTell'
    <2>1. ASSUME NEW e \in effects' PROVE kept'[e.opening] # None /\ e.at <= kept'[e.opening].at
      <3>1. CASE e.opening = form.key
        BY <1>1, <1>2, <1>3, <1>4, <1>5, <1>8, <2>1, <3>1
      <3>2. CASE e.opening # form.key
        BY <1>3, <1>4, <1>5, <1>8, <2>1, <3>2 DEF KeysTell
      <3> QED BY <3>1, <3>2
    <2>2. ASSUME NEW k \in 1..MaxForms, kept'[k] # None
          PROVE  \E e \in effects' : e.opening = k /\ Fulfils(e, kept'[k].ask)
      <3>1. CASE k = form.key
        BY <1>3, <1>4, <1>8, <3>1
      <3>2. CASE k # form.key
        BY <1>4, <1>8, <2>2, <3>2 DEF KeysTell
      <3> QED BY <3>1, <3>2
    <2>3. ASSUME NEW e \in effects', NEW f \in effects', e.opening = f.opening
          PROVE  e = f \/ FarApart(e, f)
      BY <1>1, <1>3, <1>5, <1>8, <2>3 DEF KeysTell, FarApart
    <2> HIDE DEF FormsInductive
    <2> QED BY <2>1, <2>2, <2>3 DEF KeysTell, FarApart, Fulfils
  <1>10. effects \subseteq effects' /\ StaysGone
    <2>1. ASSUME NEW other \in Held, other \in Used, store[other] = None PROVE store'[other] = None
      <3>1. other # id
        BY <1>1, <2>1 DEF FormPage, FormKind
      <3> QED BY <2>1, <3>1 DEF FormsTypeOK
    <2> QED BY <1>8, <2>1 DEF StaysGone
  <1>11. ASSUME NEW m \in 1..MaxSent PROVE TrueRequest(m)'
    <2>1. CASE m = n
      <3>1. \E e \in effects' : e.opening = form.opening /\ Fulfils(e, AskOf(form))
        BY <1>1, <1>3, <1>8
      <3>2. OfGiven(form)
        BY DEF IdsAreKept
      <3>3. OfGiven(form)'
        BY <1>8, <1>6, <3>2 DEF OfGiven, Used
      <3> QED BY <1>6, <2>1, <3>1, <3>3 DEF TrueRequest, IsTrue, WasMade, AskOf, Fulfils, OfGiven
    <2>2. CASE m # n
      BY <1>6, <1>10, <2>2, OnWayFits
    <2> QED BY <2>1, <2>2
  <1>12. TrueNotice' /\ PagesGiven'
    BY <1>10, NoticeFits, PagesFit
  <1>13. ASSUME NEW other \in Held, store'[other] # None PROVE other \in Used'
    <2>1. store[other] # None \/ other = id
      BY <1>13 DEF FormsTypeOK
    <2>2. id \in Used' /\ Used \subseteq Used'
      BY <1>3, <1>8 DEF Used
    <2> QED BY <2>1, <2>2 DEF IdsAreKept
  <1> QED BY <1>7, <1>9, <1>11, <1>12, <1>13, Zenon
          DEF AnswersAreTrue, IdsAreKept, TrueRequest, TrueNotice, PagesGiven

\* A saved entry is the one of its key.
LEMMA KeepsSave ==
    ASSUME FormsInductive, NEW n \in 1..MaxSent, NEW id \in Held, Save(n, id)
    PROVE  FormsInductive'
  <1> DEFINE form == onway[n].form
  <1>1. /\ onway[n] # None /\ UNCHANGED <<page, past, notice, opened, numbers, hours>>
        /\ \/ Answered(n, "refused") /\ UNCHANGED <<store, kept, effects>>
           \/ Keyed(n, id)
    BY DEF Save, screen_vars
  <1>2. form \in FormPage /\ form.key \in 1..MaxForms /\ form.key = form.opening
    BY <1>1 DEF FormsInductive, FormsTypeOK, FormRequest, FormPage
  <1>3. ASSUME NEW word \in FormReply, word # "saved", word = "not_found" => Gone(form),
               Answered(n, word), UNCHANGED <<store, kept, effects>>
        PROVE  FormsInductive'
    BY <1>1, <1>3, OtherAnswer
  <1>4. {"refused", "unavailable", "not_found", "saved"} \subseteq FormReply
    BY DEF FormReply
  <1>5. CASE Answered(n, "refused") /\ UNCHANGED <<store, kept, effects>>
    BY <1>3, <1>4, <1>5
  <1>6. ASSUME Alive(form.key), UNCHANGED <<store, kept, effects>>,
               Answered(n, IF kept[form.key].ask = AskOf(form) THEN "saved" ELSE "unavailable")
        PROVE  FormsInductive'
    <2>1. CASE kept[form.key].ask # AskOf(form)
      BY <1>3, <1>4, <1>6, <2>1
    <2>2. CASE kept[form.key].ask = AskOf(form)
      <3>1. /\ onway' \in [1..MaxSent -> FormRequest \cup {None}]
            /\ onway'[n].form = form /\ onway'[n].reply = "saved"
            /\ \A m \in 1..MaxSent : m # n => onway'[m] = onway[m]
        BY <1>1, <1>4, <1>6, <2>2, AnsweredFits DEF FormsInductive
      <3>2. FormsTypeOK'
        BY <1>1, <1>6, <3>1 DEF FormsInductive, FormsTypeOK
      <3>3. KeysTell'
        BY <1>1, <1>6 DEF FormsInductive, KeysTell
      <3>4. effects \subseteq effects' /\ StaysGone /\ Used' = Used
        BY <1>6 DEF StaysGone, Used
      <3>5. ASSUME NEW m \in 1..MaxSent PROVE TrueRequest(m)'
        <4>1. CASE m = n
          <5>1. \E e \in effects : e.opening = form.opening /\ Fulfils(e, AskOf(form))
            BY <1>2, <1>6, <2>2 DEF Alive, FormsInductive, KeysTell
          <5>2. OfGiven(form)
            BY <1>1 DEF FormsInductive, IdsAreKept
          <5> QED BY <1>6, <3>1, <3>4, <4>1, <5>1, <5>2
                  DEF TrueRequest, IsTrue, WasMade, AskOf, Fulfils, OfGiven
        <4>2. CASE m # n
          BY <3>1, <3>4, <4>2, OnWayFits
        <4> QED BY <4>1, <4>2
      <3>6. TrueNotice' /\ PagesGiven'
        BY <1>1, <3>4, NoticeFits, PagesFit
      <3>7. \A other \in Held : store'[other] # None => other \in Used'
        BY <1>6, <3>4 DEF FormsInductive, IdsAreKept
      <3> QED BY <3>2, <3>3, <3>5, <3>6, <3>7, Zenon
              DEF FormsInductive, AnswersAreTrue, IdsAreKept, TrueRequest, TrueNotice, PagesGiven
    <2> QED BY <2>1, <2>2
  <1>7. CASE Keyed(n, id)
    <2>1. CASE Alive(form.key)
      BY <1>6, <1>7, <2>1 DEF Keyed
    <2>2. CASE ~Alive(form.key)
      <3>1. CASE Answered(n, "refused") /\ UNCHANGED <<store, kept, effects>>
        BY <1>3, <1>4, <3>1
      <3>2. CASE /\ form.kind # "new" /\ store[form.of] = None /\ Answered(n, "not_found")
                 /\ UNCHANGED <<store, kept, effects>>
        <4>1. Gone(form)
          BY <1>1, <3>2 DEF FormsInductive, IdsAreKept, OfGiven, Gone
        <4> QED BY <1>3, <1>4, <3>2, <4>1
      <3>3. CASE /\ form.kind = "new" => id \notin Used
                 /\ form.kind # "new" => store[id] # None /\ id = form.of
                 /\ store' = [store EXCEPT ![id] = IF form.kind = "delete" THEN None ELSE form.fields]
                 /\ kept' = [kept EXCEPT ![form.key] = [ask |-> AskOf(form), at |-> hours]]
                 /\ effects' = effects \cup {Effect(n, id)}
                 /\ Answered(n, "saved")
        BY <1>1, <2>2, <3>3, KeepsEffect
      <3> QED BY <1>7, <2>2, <3>1, <3>2, <3>3 DEF Keyed, NextId
    <2> QED BY <2>1, <2>2
  <1> QED BY <1>1, <1>5, <1>7

\* An answer, heard or lost, changes the page and the request only.
LEMMA KeepsAnswers ==
    ASSUME FormsInductive, NEW n \in 1..MaxSent,
           \/ Unreachable(n) \/ HearSaved(n) \/ Lose(n)
           \/ onway[n] # None /\ \E words \in Readings, reached \in BOOLEAN : HearReading(n, words, reached)
    PROVE  FormsInductive'
  <1> DEFINE form == onway[n].form
  <1>0. /\ page # None => page \in FormPage /\ OfGiven(page)
        /\ notice # None => notice \in FormNotice /\ IsTrue(notice.what, notice.form)
    BY DEF FormsInductive, FormsTypeOK, IdsAreKept, AnswersAreTrue
  <1>1. CASE Unreachable(n)
    BY <1>1, OtherAnswer DEF Unreachable, FormReply, screen_vars
  <1>2. CASE Lose(n)
    BY <1>0, <1>2, EndFits DEF Lose, screen_vars
  <1>3. onway[n] # None =>
            /\ onway[n] \in FormRequest /\ form \in FormPage /\ form.fields \in FormFields
            /\ IsTrue(onway[n].reply, form) /\ OfGiven(form)
    BY DEF FormsInductive, FormsTypeOK, FormRequest, FormPage, AnswersAreTrue, IdsAreKept
  <1>4. ASSUME onway[n] # None, NEW fields \in FormFields, DrawAgain(form, fields)
        PROVE  page' \in FormPage /\ OfGiven(page')
    <2>1. page' = [form EXCEPT !.fields = fields, !.key = KeyDrawnAgain(form)]
      BY <1>4 DEF DrawAgain
    <2>2. page' \in FormPage
      BY <1>3, <1>4, <2>1, DrawnAgainFits
    <2>3. page'.kind = form.kind /\ page'.of = form.of
      BY <1>3, <1>4, <2>1 DEF FormPage
    <2> QED BY <1>3, <1>4, <2>2, <2>3 DEF OfGiven
  <1>5. CASE HearSaved(n)
    <2>1. onway[n] # None /\ onway[n] \in FormRequest /\ form \in FormPage /\ form.fields \in FormFields
      BY <1>3, <1>5 DEF HearSaved
    <2>2. Ends(n) /\ UNCHANGED <<store, kept, past, opened, numbers, effects, hours>>
      BY <1>5 DEF HearSaved
    <2>3. page' # None => page' \in FormPage /\ OfGiven(page')
      <3>1. page' = page \/ page' = None \/ DrawAgain(form, form.fields)
        BY <1>5 DEF HearSaved
      <3> QED BY <1>0, <1>4, <2>1, <3>1
    <2>4. notice' = notice \/ notice' = [what |-> onway[n].reply, form |-> form]
      BY <1>5 DEF HearSaved
    <2>5. CASE notice' = notice
      BY <1>0, <2>2, <2>3, <2>5, EndFits
    <2>6. CASE notice' = [what |-> onway[n].reply, form |-> form]
      <3>1. notice' \in FormNotice
        BY <2>1, <2>6 DEF FormNotice, FormRequest
      <3>2. notice'.what = onway[n].reply /\ notice'.form = form
        BY <2>6
      <3>3. IsTrue(notice'.what, notice'.form)
        BY <1>3, <2>1, <3>2 DEF IsTrue, WasMade, Gone
      <3> QED BY <2>2, <2>3, <3>1, <3>3, EndFits
    <2> QED BY <2>4, <2>5, <2>6
  <1>6. ASSUME onway[n] # None, NEW words \in Readings, NEW reached \in BOOLEAN,
               HearReading(n, words, reached)
        PROVE  FormsInductive'
    <2>1. Ends(n) /\ UNCHANGED <<store, kept, past, notice, opened, numbers, effects, hours>>
      BY <1>6 DEF HearReading
    <2>2. page' # None => page' \in FormPage /\ OfGiven(page')
      <3>1. PICK fields \in FormFields : fields = Applied(form.fields, Heard(words, reached))
        BY <1>3, <1>6, AppliedFits
      <3>2. page' = page \/ DrawAgain(form, fields)
        BY <1>6, <3>1 DEF HearReading
      <3> QED BY <1>0, <1>4, <1>6, <3>2
    <2> QED BY <1>0, <2>1, <2>2, EndFits
  <1> QED BY <1>1, <1>2, <1>5, <1>6

\* Each step of the screen and of the api keeps it.
LEMMA FormsStep == FormsInductive /\ [FormsNext]_form_vars => FormsInductive'
  <1> SUFFICES ASSUME FormsInductive, [FormsNext]_form_vars PROVE FormsInductive'
    OBVIOUS
  <1>1. 1..numbers \subseteq 1..MaxSent
    BY DEF FormsInductive, FormsTypeOK
  <1>2. ASSUME NEW kind \in {"new", "edit", "delete"}, NEW id \in Held \cup {None}, OpenForm(kind, id)
        PROVE  FormsInductive'
    BY <1>2, KeepsOpenForm DEF FormKind
  <1>3. CASE \/ \E form \in past : GoBack(form)
             \/ page # None /\ \E fields \in Typeable : Type(fields)
             \/ \E id \in Held : RemoveElsewhere(id)
             \/ HoursPass
    BY <1>3, KeepsScreen
  <1>4. ASSUME NEW what \in {"save", "read"}, Send(what) PROVE FormsInductive'
    BY <1>4, KeepsSend
  <1>5. ASSUME NEW n \in 1..MaxSent, LookFirst(n) PROVE FormsInductive'
    BY <1>5, KeepsLookFirst
  <1>6. ASSUME NEW n \in 1..MaxSent, NEW id \in Held, Save(n, id) PROVE FormsInductive'
    BY <1>6, KeepsSave
  <1>7. ASSUME NEW n \in 1..MaxSent,
               \/ Unreachable(n) \/ HearSaved(n) \/ Lose(n)
               \/ onway[n] # None /\ \E words \in Readings, reached \in BOOLEAN : HearReading(n, words, reached)
        PROVE  FormsInductive'
    BY <1>7, KeepsAnswers
  <1>8. CASE UNCHANGED form_vars
    BY <1>8, ScreenFits DEF form_vars, FormsInductive, FormsTypeOK, IdsAreKept
  <1> QED BY <1>1, <1>2, <1>3, <1>4, <1>5, <1>6, <1>7, <1>8 DEF FormsNext

\* The reply the api keeps under a key is that of a write of its form, two writes of one form lie
\* more than a key's life apart, and what is on its way to the browser is true of the ledger.
THEOREM FormsKeepKeys == FormsSpec => []FormsInductive
  BY FormsStart, FormsStep, PTL DEF FormsSpec

\* However often and from whatever page a form is sent, it has one effect within the life of its
\* key; who is told that it was saved has it with the fields that were sent, and who is told that
\* there is no such entry has none (transaction_form_router).
THEOREM FormsHaveOneEffect == FormsSpec => []OneEntryPerForm
  <1>1. ASSUME FormsInductive PROVE OneEntryPerForm
    <2>1. \A e, f \in effects : e.opening = f.opening => e = f \/ FarApart(e, f)
      BY <1>1 DEF FormsInductive, KeysTell
    <2>2. ASSUME notice # None, notice.what = "saved"
          PROVE  \E e \in effects :
                     /\ e.opening = notice.form.opening /\ e.kind = notice.form.kind
                     /\ e.kind # "delete" => e.fields = notice.form.fields
                     /\ e.kind = "delete" => e.id = notice.form.of
      <3>1. PICK e \in effects : e.opening = notice.form.opening /\ Fulfils(e, AskOf(notice.form))
        BY <1>1, <2>2 DEF FormsInductive, AnswersAreTrue, IsTrue, WasMade
      <3> QED BY <3>1 DEF Fulfils, AskOf
    <2>3. ASSUME notice # None, notice.what = "not_found"
          PROVE  notice.form.kind # "new" /\ store[notice.form.of] = None
      BY <1>1, <2>3 DEF FormsInductive, AnswersAreTrue, IsTrue, Gone
    <2> QED BY <2>1, <2>2, <2>3 DEF OneEntryPerForm
  <1> QED BY <1>1, FormsKeepKeys, PTL

-----------------------------------------------------------------------------
(* The calendar, the periods of the statistics and the arguments of the shared tools *)

YearLength(y) == IF Leap(y) THEN 366 ELSE 365

\* The smaller one of two.
LEMMA MinOfTwo ==
    ASSUME NEW a \in Int, NEW b \in Int
    PROVE  Min({a, b}) = IF a <= b THEN a ELSE b
  <1> DEFINE S == {a, b}
             least == IF a <= b THEN a ELSE b
  <1>1. least \in S /\ \A y \in S : least <= y
    OBVIOUS
  <1>2. \A x \in S : (\A y \in S : x <= y) => x = least
    OBVIOUS
  <1> QED BY <1>1, <1>2 DEF Min

\* A hundredth year is a fourth year, a four hundredth one a hundredth.
LEMMA FoldedYears ==
    ASSUME NEW y \in Int
    PROVE  (y % 400 = 0 => y % 100 = 0) /\ (y % 100 = 0 => y % 4 = 0)
  OBVIOUS

\* A year begins after the days of the year before it.
LEMMA YearIsLong ==
    ASSUME NEW y \in Int
    PROVE  DaysBeforeYear(y) \in Int /\ DaysBeforeYear(y + 1) = DaysBeforeYear(y) + YearLength(y)
  <1>1. PICK a \in Int, b \in Int, c \in Int, d \in Int, e \in Int, f \in Int :
           /\ a = (y - 1) \div 4 /\ b = (y - 1) \div 100 /\ c = (y - 1) \div 400
           /\ d = y \div 4 /\ e = y \div 100 /\ f = y \div 400
    OBVIOUS
  <1>2. d - a = IF y % 4 = 0 THEN 1 ELSE 0
    BY <1>1
  <1>3. e - b = IF y % 100 = 0 THEN 1 ELSE 0
    BY <1>1
  <1>4. f - c = IF y % 400 = 0 THEN 1 ELSE 0
    BY <1>1
  <1>5. DaysBeforeYear(y) = 365 * (y - 1) + a - b + c
    BY <1>1 DEF DaysBeforeYear
  <1>6. y + 1 - 1 = y
    OBVIOUS
  <1>7. DaysBeforeYear(y + 1) = 365 * y + d - e + f
    BY <1>1, <1>6 DEF DaysBeforeYear
  <1>8. YearLength(y) = 365 + (d - a) - (e - b) + (f - c)
    BY <1>2, <1>3, <1>4, FoldedYears DEF YearLength, Leap
  <1> QED BY <1>5, <1>7, <1>8

\* A month begins after the days of the months before it.
LEMMA MonthIsLong ==
    ASSUME NEW y \in Int, NEW m \in 1..12
    PROVE  /\ MonthDays(y, m) \in 28..31 /\ DaysBeforeMonth(y, m) \in 0..335
           /\ m < 12 => DaysBeforeMonth(y, m + 1) = DaysBeforeMonth(y, m) + MonthDays(y, m)
           /\ DaysBeforeMonth(y, 1) = 0 /\ DaysBeforeMonth(y, 12) + 31 = YearLength(y)
  BY DEF MonthDays, DaysBeforeMonth, YearLength

LEMMA MonthsInOrder ==
    ASSUME NEW y \in Int, NEW m \in 1..12, NEW k \in 1..12, m < k
    PROVE  DaysBeforeMonth(y, m) + MonthDays(y, m) <= DaysBeforeMonth(y, k)
  BY DEF MonthDays, DaysBeforeMonth

\* Two years differ by a leap day.
LEMMA SameMonths ==
    ASSUME NEW y \in Int, NEW x \in Int, NEW m \in 1..12
    PROVE  \/ DaysBeforeMonth(y, m) = DaysBeforeMonth(x, m)
           \/ DaysBeforeMonth(y, m) = DaysBeforeMonth(x, m) + 1 /\ Leap(y)
           \/ DaysBeforeMonth(y, m) + 1 = DaysBeforeMonth(x, m) /\ Leap(x)
  <1>1. PICK c \in Int : c = <<0, 31, 59, 90, 120, 151, 181, 212, 243, 273, 304, 334>>[m]
    OBVIOUS
  <1>2. /\ DaysBeforeMonth(y, m) = c + (IF m > 2 /\ Leap(y) THEN 1 ELSE 0)
        /\ DaysBeforeMonth(x, m) = c + (IF m > 2 /\ Leap(x) THEN 1 ELSE 0)
    BY <1>1 DEF DaysBeforeMonth
  <1> QED BY <1>2

LEMMA YearsInOrder ==
    ASSUME NEW y \in Int, NEW z \in Int, y < z
    PROVE  DaysBeforeYear(y + 1) <= DaysBeforeYear(z)
  <1> DEFINE T == {n \in Nat : ~(DaysBeforeYear(y + 1) <= DaysBeforeYear(y + 1 + n))}
  <1>1. T = {}
    <2>1. SUFFICES ASSUME T # {} PROVE FALSE
      OBVIOUS
    <2>2. PICK n \in T : \A k \in T : n <= k
      <3>1. T \in SUBSET Nat
        OBVIOUS
      <3> HIDE DEF T
      <3> QED BY <2>1, <3>1, LeastNat
    <2>3. n # 0
      <3>1. y + 1 + 0 = y + 1 /\ DaysBeforeYear(y + 1) \in Int
        BY YearIsLong
      <3> QED BY <2>2, <3>1
    <2>4. PICK k \in Nat : n = k + 1
      BY <2>3
    <2>5. DaysBeforeYear(y + 1) <= DaysBeforeYear(y + 1 + k)
      BY <2>2, <2>4
    <2>6. PICK x \in Int : x = y + 1 + k /\ x + 1 = y + 1 + n
      BY <2>4
    <2>7. DaysBeforeYear(x + 1) = DaysBeforeYear(x) + YearLength(x) /\ DaysBeforeYear(x) \in Int
      BY YearIsLong
    <2>8. DaysBeforeYear(y + 1) \in Int
      BY YearIsLong
    <2> QED BY <2>2, <2>5, <2>6, <2>7, <2>8 DEF YearLength
  <1>2. PICK n \in Nat : z = y + 1 + n
    <2>1. z - (y + 1) \in Nat /\ z = y + 1 + (z - (y + 1))
      OBVIOUS
    <2> QED BY <2>1
  <1> QED BY <1>1, <1>2

\* What a date is: a year, a month of it and a day of that.
IsDate(day, y, m, d) ==
    y \in Year /\ m \in 1..12 /\ d \in 1..MonthDays(y, m) /\ day = Date(y, m, d)

LEMMA YearIsInt == ASSUME NEW y \in Year PROVE y \in Int
  BY PeriodsAssumption DEF Year

LEMMA DateFits ==
    ASSUME NEW day, NEW y, NEW m, NEW d, IsDate(day, y, m, d)
    PROVE  /\ day \in Int /\ YearOf(day) = y /\ MonthOf(day) = m /\ DayOfMonth(day) = d
           /\ FirstOfMonth(day) = Date(y, m, 1)
           /\ DaysBeforeYear(y) < day /\ day <= DaysBeforeYear(y + 1)
  <1>1. y \in Year /\ y \in Int /\ m \in 1..12
    BY YearIsInt DEF IsDate
  <1>2. PICK p \in Int, q \in 0..335, l \in 28..31 :
           p = DaysBeforeYear(y) /\ q = DaysBeforeMonth(y, m) /\ l = MonthDays(y, m)
    BY <1>1, YearIsLong, MonthIsLong
  <1>3. d \in 1..l /\ day = p + q + d
    BY <1>2 DEF IsDate, Date
  <1>4. day \in Int /\ p < day
    BY <1>2, <1>3
  <1>5. q + l <= YearLength(y)
    <2>1. CASE m = 12
      <3>1. DaysBeforeMonth(y, 12) + 31 = YearLength(y)
        BY <1>1, MonthIsLong
      <3>2. l = 31
        BY <1>2, <2>1 DEF MonthDays
      <3> QED BY <1>2, <2>1, <3>1, <3>2
    <2>2. CASE m < 12
      <3>1. PICK c \in 0..335 : c = DaysBeforeMonth(y, 12)
        <4>1. 12 \in 1..12
          OBVIOUS
        <4> QED BY <1>1, <4>1, MonthIsLong
      <3>2. q + l <= c
        BY <1>1, <1>2, <2>2, <3>1, MonthsInOrder
      <3>3. c + 31 = YearLength(y)
        BY <1>1, <3>1, MonthIsLong
      <3>4. q + l <= c + 31
        BY <1>2, <3>1, <3>2
      <3> QED BY <3>3, <3>4
    <2> QED BY <1>1, <2>1, <2>2
  <1>6. day <= DaysBeforeYear(y + 1)
    BY <1>1, <1>2, <1>3, <1>5, YearIsLong DEF YearLength
  <1>7. ASSUME NEW z \in Year, DaysBeforeYear(z) < day, day <= DaysBeforeYear(z + 1) PROVE z = y
    <2>1. z \in Int /\ DaysBeforeYear(z) \in Int /\ DaysBeforeYear(z + 1) \in Int /\ DaysBeforeYear(y + 1) \in Int
      BY <1>1, YearIsInt, YearIsLong DEF YearLength
    <2>2. ~(z < y)
      BY <1>1, <1>2, <1>4, <1>7, <2>1, YearsInOrder
    <2>3. ~(y < z)
      BY <1>1, <1>6, <1>4, <1>7, <2>1, YearsInOrder
    <2> QED BY <1>1, <2>1, <2>2, <2>3
  <1>8. YearOf(day) = y
    BY <1>1, <1>2, <1>4, <1>6, <1>7 DEF YearOf
  <1>9. Date(y, m, 1) = p + q + 1 /\ Date(y, m, MonthDays(y, m)) = p + q + l
    BY <1>2 DEF Date
  <1>10. ASSUME NEW k \in 1..12, Date(y, k, 1) <= day, day <= Date(y, k, MonthDays(y, k)) PROVE k = m
    <2>1. PICK r \in 0..335, n \in 28..31 : r = DaysBeforeMonth(y, k) /\ n = MonthDays(y, k)
      BY <1>1, MonthIsLong
    <2>2. p + r + 1 <= day /\ day <= p + r + n
      BY <1>2, <1>10, <2>1 DEF Date
    <2>3. ~(k < m)
      BY <1>1, <1>2, <1>3, <2>1, <2>2, MonthsInOrder
    <2>4. ~(m < k)
      BY <1>1, <1>2, <1>3, <2>1, <2>2, MonthsInOrder
    <2> QED BY <1>1, <2>3, <2>4
  <1>11. Date(y, m, 1) <= day /\ day <= Date(y, m, MonthDays(y, m))
    BY <1>2, <1>3, <1>9
  <1>12. MonthOf(day) = m
    BY <1>1, <1>8, <1>10, <1>11 DEF MonthOf
  <1>13. FirstOfMonth(day) = Date(y, m, 1)
    BY <1>8, <1>12 DEF FirstOfMonth
  <1>14. DayOfMonth(day) = d
    BY <1>2, <1>3, <1>9, <1>13 DEF DayOfMonth
  <1> QED BY <1>4, <1>2, <1>6, <1>8, <1>12, <1>13, <1>14

\* Every day of the calendar is a date.
Days == (DaysBeforeYear(FirstYear) + 1)..DaysBeforeYear(LastYear + 1)

LEMMA EveryDayIsADate ==
    ASSUME NEW day \in Days
    PROVE  \E y, m, d : IsDate(day, y, m, d)
  <1>0. FirstYear \in Nat /\ LastYear \in Nat /\ FirstYear + 2 <= LastYear
    BY PeriodsAssumption
  <1>1. DaysBeforeYear(FirstYear) \in Int /\ DaysBeforeYear(LastYear + 1) \in Int
    BY <1>0, YearIsLong
  <1>2. day \in Int /\ DaysBeforeYear(FirstYear) < day /\ day <= DaysBeforeYear(LastYear + 1)
    BY <1>1 DEF Days
  <1> DEFINE T == {z \in Nat : FirstYear <= z /\ day <= DaysBeforeYear(z + 1)}
  <1>3. LastYear \in T /\ T \in SUBSET Nat
    BY <1>0, <1>2
  <1>4. PICK y \in T : \A z \in T : y <= z
    <2> HIDE DEF T
    <2> QED BY <1>3, LeastNat
  <1>5. y \in Nat /\ FirstYear <= y /\ y <= LastYear /\ day <= DaysBeforeYear(y + 1)
    BY <1>3, <1>4
  <1>6. y \in Year /\ y \in Int
    BY <1>0, <1>5 DEF Year
  <1>7. DaysBeforeYear(y) < day
    <2>1. CASE y = FirstYear
      BY <1>2, <2>1
    <2>2. CASE y > FirstYear
      <3>1. PICK x \in Nat : x + 1 = y /\ FirstYear <= x
        <4>1. y - 1 \in Nat /\ y - 1 + 1 = y /\ FirstYear <= y - 1
          BY <1>0, <1>5, <2>2
        <4> QED BY <4>1
      <3>2. x \notin T
        BY <1>4, <1>5, <3>1
      <3>3. ~(day <= DaysBeforeYear(y))
        BY <3>1, <3>2
      <3> QED BY <1>2, <1>6, <3>3, YearIsLong
    <2> QED BY <1>0, <1>5, <2>1, <2>2
  <1>8. PICK p \in Int, n \in Int : /\ p = DaysBeforeYear(y) /\ n = day - p /\ 1 <= n
                                    /\ n <= YearLength(y)
    <2>1. DaysBeforeYear(y) \in Int /\ DaysBeforeYear(y + 1) = DaysBeforeYear(y) + YearLength(y)
      BY <1>6, YearIsLong
    <2> QED BY <1>2, <1>5, <1>7, <2>1 DEF YearLength
  <1> DEFINE M == {m \in Nat : m \in 1..12 /\ n <= DaysBeforeMonth(y, m) + MonthDays(y, m)}
  <1>9. 12 \in M /\ M \in SUBSET Nat
    <2>1. MonthDays(y, 12) = 31
      BY DEF MonthDays
    <2>2. DaysBeforeMonth(y, 12) + 31 = YearLength(y)
      BY <1>6, MonthIsLong
    <2> QED BY <1>8, <2>1, <2>2
  <1>10. PICK m \in M : \A k \in M : m <= k
    <2> HIDE DEF M
    <2> QED BY <1>9, LeastNat
  <1>11. m \in 1..12
    BY <1>10
  <1>12. PICK q \in 0..335, l \in 28..31 : q = DaysBeforeMonth(y, m) /\ l = MonthDays(y, m) /\ n <= q + l
    BY <1>6, <1>10, <1>11, MonthIsLong
  <1>13. q < n
    <2>1. CASE m = 1
      BY <1>6, <1>8, <1>11, <1>12, <2>1, MonthIsLong
    <2>2. CASE m > 1
      <3>1. PICK k \in 1..12 : k + 1 = m /\ k < 12
        <4>1. m - 1 \in 1..12 /\ m - 1 + 1 = m /\ m - 1 < 12
          BY <1>11, <2>2
        <4> QED BY <4>1
      <3>2. k \notin M
        BY <1>10, <1>11, <3>1
      <3>3. ~(n <= DaysBeforeMonth(y, k) + MonthDays(y, k))
        BY <3>1, <3>2
      <3>4. q = DaysBeforeMonth(y, k) + MonthDays(y, k)
        BY <1>6, <1>12, <3>1, MonthIsLong
      <3> QED BY <1>8, <1>12, <3>3, <3>4
    <2> QED BY <1>11, <2>1, <2>2
  <1>14. PICK d \in 1..l : d = n - q
    BY <1>8, <1>12, <1>13
  <1>15. IsDate(day, y, m, d)
    <2>1. day = p + q + d
      BY <1>2, <1>8, <1>12, <1>14
    <2> QED BY <1>6, <1>8, <1>11, <1>12, <1>14, <2>1 DEF IsDate, Date
  <1> QED BY <1>15


-----------------------------------------------------------------------------
(* The periods of a question *)

\* A month is followed by the next and comes after the one before.
MonthAfter(y, m) == IF m = 12 THEN Date(y + 1, 1, 1) ELSE Date(y, m + 1, 1)
MonthBefore(y, m) == IF m = 1 THEN Date(y - 1, 12, 1) ELSE Date(y, m - 1, 1)

LEMMA FirstIsInt ==
    ASSUME NEW y \in Int, NEW m \in 1..12
    PROVE  Date(y, m, 1) \in Int /\ Date(y, m, 1) = DaysBeforeYear(y) + DaysBeforeMonth(y, m) + 1
  <1>1. DaysBeforeYear(y) \in Int /\ DaysBeforeMonth(y, m) \in 0..335
    BY YearIsLong, MonthIsLong
  <1> QED BY <1>1 DEF Date

LEMMA DateFromFirst ==
    ASSUME NEW y \in Int, NEW m \in 1..12, NEW d \in Int
    PROVE  Date(y, m, d) = Date(y, m, 1) + d - 1
  <1>1. DaysBeforeYear(y) \in Int /\ DaysBeforeMonth(y, m) \in 0..335
    BY YearIsLong, MonthIsLong
  <1> QED BY <1>1 DEF Date

LEMMA MonthsMeet ==
    ASSUME NEW y \in Int, NEW m \in 1..12
    PROVE  /\ MonthAfter(y, m) = Date(y, m, 1) + MonthDays(y, m)
           /\ MonthBefore(y, m) + 28 <= Date(y, m, 1) /\ MonthBefore(y, m) \in Int
           /\ Date(y, m, 1) <= MonthBefore(y, m) + 31
  <1>1. PICK p \in Int, q \in 0..335, l \in 28..31 :
           p = DaysBeforeYear(y) /\ q = DaysBeforeMonth(y, m) /\ l = MonthDays(y, m)
    BY YearIsLong, MonthIsLong
  <1>2. Date(y, m, 1) = p + q + 1
    BY <1>1 DEF Date
  <1>3. MonthAfter(y, m) = p + q + l + 1
    <2>1. CASE m = 12
      <3>1. DaysBeforeYear(y + 1) = p + YearLength(y) /\ y + 1 \in Int
        BY <1>1, YearIsLong
      <3>2. q + 31 = YearLength(y) /\ l = 31
        BY <1>1, <2>1, MonthIsLong DEF MonthDays
      <3>3. DaysBeforeMonth(y + 1, 1) = 0
        BY <3>1, MonthIsLong
      <3> QED BY <1>1, <2>1, <3>1, <3>2, <3>3 DEF MonthAfter, Date
    <2>2. CASE m < 12
      <3>1. DaysBeforeMonth(y, m + 1) = q + l
        BY <1>1, <2>2, MonthIsLong
      <3> QED BY <1>1, <2>2, <3>1 DEF MonthAfter, Date
    <2> QED BY <2>1, <2>2
  <1>4. MonthBefore(y, m) \in Int /\ MonthBefore(y, m) + 28 <= p + q + 1 /\ p + q + 1 <= MonthBefore(y, m) + 31
    <2>1. CASE m = 1
      <3>1. PICK x \in Int : x + 1 = y /\ y - 1 = x
        OBVIOUS
      <3>2. PICK o \in Int, r \in 0..335 : o = DaysBeforeYear(x) /\ r = DaysBeforeMonth(x, 12)
        <4>1. 12 \in 1..12
          OBVIOUS
        <4>2. DaysBeforeYear(x) \in Int /\ DaysBeforeMonth(x, 12) \in 0..335
          BY <4>1, YearIsLong, MonthIsLong
        <4> QED BY <4>2
      <3>3. p = o + YearLength(x)
        BY <1>1, <3>1, <3>2, YearIsLong
      <3>4. r + 31 = YearLength(x)
        BY <3>2, MonthIsLong
      <3>5. Date(x, 12, 1) = o + r + 1
        BY <3>2 DEF Date
      <3>6. q = 0
        BY <1>1, <2>1, MonthIsLong
      <3>7. MonthBefore(y, m) = o + r + 1
        BY <2>1, <3>1, <3>5 DEF MonthBefore
      <3> QED BY <1>1, <3>2, <3>3, <3>4, <3>6, <3>7
    <2>2. CASE m > 1
      <3>1. PICK k \in 1..12 : k + 1 = m /\ k = m - 1 /\ k < 12
        BY <2>2
      <3>2. PICK r \in 0..335, n \in 28..31 : r = DaysBeforeMonth(y, k) /\ n = MonthDays(y, k)
        BY MonthIsLong
      <3>3. q = r + n
        BY <1>1, <3>1, <3>2, MonthIsLong
      <3>4. Date(y, k, 1) = p + r + 1
        BY <1>1, <3>2 DEF Date
      <3> QED BY <1>1, <2>2, <3>1, <3>2, <3>3, <3>4 DEF MonthBefore
    <2> QED BY <2>1, <2>2
  <1> QED BY <1>1, <1>2, <1>3, <1>4

\* The first of a month, the first of the next, and of the one before.
LEMMA MonthTurns ==
    ASSUME NEW day, NEW y, NEW m, NEW d, IsDate(day, y, m, d), y > FirstYear
    PROVE  /\ Date(y, m, 1) <= day /\ day < MonthAfter(y, m)
           /\ NextMonth(FirstOfMonth(day)) = MonthAfter(y, m)
           /\ PreviousMonth(FirstOfMonth(day)) = MonthBefore(y, m)
  <1>1. y \in Year /\ y \in Int /\ m \in 1..12 /\ FirstYear \in Int /\ FirstOfMonth(day) = Date(y, m, 1)
    BY YearIsInt, DateFits, PeriodsAssumption DEF IsDate
  <1>2. PICK l \in 28..31 : l = MonthDays(y, m)
    BY <1>1, MonthIsLong
  <1>3. PICK first \in Int : first = Date(y, m, 1)
    BY <1>1, FirstIsInt
  <1>4. first <= day /\ day < first + l
    <2>1. d \in 1..l /\ day = Date(y, m, d)
      BY <1>2 DEF IsDate
    <2>2. d \in Int
      BY <1>2, <2>1
    <2>3. day = first + d - 1
      BY <1>1, <1>3, <2>1, <2>2, DateFromFirst
    <2> QED BY <1>2, <1>3, <2>1, <2>2, <2>3
  <1>5. MonthAfter(y, m) = first + l
    BY <1>1, <1>2, <1>3, MonthsMeet
  <1>6. NextMonth(first) = first + l
    <2>1. IsDate(first, y, m, 1)
      BY <1>1, <1>2, <1>3 DEF IsDate
    <2>2. YearOf(first) = y /\ MonthOf(first) = m
      BY <2>1, DateFits
    <2> QED BY <1>2, <2>2 DEF NextMonth
  <1>7. PreviousMonth(first) = MonthBefore(y, m)
    <2>1. ASSUME NEW x \in Year, NEW k \in 1..12, Date(x, k, 1) + MonthDays(x, k) = first
          PROVE  FirstOfMonth(first - 1) = Date(x, k, 1)
      <3>1. x \in Int
        BY YearIsInt
      <3>2. PICK n \in 28..31 : n = MonthDays(x, k)
        BY <3>1, MonthIsLong
      <3>3. first - 1 = Date(x, k, n)
        <4>1. Date(x, k, 1) \in Int
          BY <3>1, FirstIsInt
        <4>2. n \in Int
          BY <3>2
        <4>3. Date(x, k, n) = Date(x, k, 1) + n - 1
          BY <3>1, <4>2, DateFromFirst
        <4> QED BY <2>1, <3>2, <4>1, <4>2, <4>3
      <3>4. IsDate(first - 1, x, k, n)
        BY <3>2, <3>3 DEF IsDate
      <3> QED BY <3>4, DateFits
    <2>2. CASE m = 1
      <3>1. PICK x \in Year : x + 1 = y /\ x = y - 1 /\ x \in Int
        <4>1. y - 1 \in Year /\ y - 1 + 1 = y
          BY <1>1, PeriodsAssumption DEF Year
        <4> QED BY <4>1, YearIsInt
      <3>2. Date(x, 12, 1) + MonthDays(x, 12) = first
        <4>1. MonthAfter(x, 12) = Date(y, 1, 1)
          BY <3>1 DEF MonthAfter
        <4> QED BY <1>3, <2>2, <3>1, <4>1, MonthsMeet
      <3>3. FirstOfMonth(first - 1) = Date(x, 12, 1)
        BY <2>1, <3>2
      <3> QED BY <2>2, <3>1, <3>3 DEF PreviousMonth, MonthBefore
    <2>3. CASE m > 1
      <3>1. PICK k \in 1..12 : k + 1 = m /\ k = m - 1 /\ k # 12
        BY <1>1, <2>3
      <3>2. Date(y, k, 1) + MonthDays(y, k) = first
        <4>1. MonthAfter(y, k) = Date(y, m, 1)
          BY <3>1 DEF MonthAfter
        <4> QED BY <1>1, <1>3, <4>1, MonthsMeet
      <3>3. FirstOfMonth(first - 1) = Date(y, k, 1)
        BY <1>1, <2>1, <3>2
      <3> QED BY <2>3, <3>1, <3>3 DEF PreviousMonth, MonthBefore
    <2> QED BY <1>1, <2>2, <2>3
  <1> QED BY <1>1, <1>3, <1>4, <1>5, <1>6, <1>7

\* A day of a user is a date of a year that is neither the first nor the last.
LEMMA UserDayIsADate ==
    ASSUME today \in UserDays
    PROVE  \E y, m, d : IsDate(today, y, m, d) /\ y > FirstYear /\ y < LastYear
  <1>0. FirstYear \in Nat /\ LastYear \in Nat /\ FirstYear + 2 <= LastYear
    BY PeriodsAssumption
  <1>1. PICK a \in Int, b \in Int, c \in Int, e \in Int :
           /\ a = DaysBeforeYear(FirstYear) /\ b = DaysBeforeYear(FirstYear + 1)
           /\ c = DaysBeforeYear(LastYear) /\ e = DaysBeforeYear(LastYear + 1)
    <2>1. FirstYear \in Int /\ FirstYear + 1 \in Int /\ LastYear \in Int /\ LastYear + 1 \in Int
      BY <1>0
    <2>2. /\ DaysBeforeYear(FirstYear) \in Int /\ DaysBeforeYear(FirstYear + 1) \in Int
          /\ DaysBeforeYear(LastYear) \in Int /\ DaysBeforeYear(LastYear + 1) \in Int
      BY <2>1, YearIsLong
    <2> QED BY <2>2
  <1>2. a < b /\ c < e
    BY <1>0, <1>1, YearIsLong DEF YearLength
  <1>3. 1 \in 1..12 /\ FirstYear + 1 \in Int /\ LastYear \in Int
    BY <1>0
  <1>4. DaysBeforeMonth(FirstYear + 1, 1) = 0 /\ DaysBeforeMonth(LastYear, 1) = 0
    BY <1>3, MonthIsLong
  <1>5. Date(FirstYear + 1, 1, 1) = b + 1 /\ Date(LastYear, 1, 1) = c + 1
    BY <1>1, <1>3, <1>4, FirstIsInt
  <1>6. today \in (b + 1)..c
    BY <1>5, <1>1 DEF UserDays
  <1>7. today \in Days
    BY <1>1, <1>2, <1>6 DEF Days
  <1>8. PICK y, m, d : IsDate(today, y, m, d)
    BY <1>7, EveryDayIsADate
  <1>9. y \in Int /\ FirstYear <= y /\ y <= LastYear
    BY <1>0, <1>8, YearIsInt DEF IsDate, Year
  <1>10. DaysBeforeYear(y) < today /\ today <= DaysBeforeYear(y + 1)
    BY <1>8, DateFits
  <1>11. y # FirstYear /\ y # LastYear
    BY <1>1, <1>6, <1>10
  <1> QED BY <1>0, <1>8, <1>9, <1>11

Span(f, t) == [first |-> f, after |-> t]

\* The periods that go by a name.
LEMMA NamedPeriods ==
    ASSUME NEW y, NEW m, NEW d, IsDate(today, y, m, d), y > FirstYear
    PROVE  /\ B("today") = Span(today, today + 1) /\ B("yesterday") = Span(today - 1, today)
           /\ B("this_week") = Span(today - Weekday(today), today + 1)
           /\ B("last_week") = Span(today - Weekday(today) - 7, today - Weekday(today))
           /\ B("this_month") = Span(Date(y, m, 1), MonthAfter(y, m))
           /\ B("last_month") = Span(MonthBefore(y, m), Date(y, m, 1))
           /\ B("this_year") = Span(Date(y, 1, 1), today + 1)
  <1>1. YearOf(today) = y /\ FirstOfMonth(today) = Date(y, m, 1)
    BY DateFits
  <1>2. /\ NextMonth(FirstOfMonth(today)) = MonthAfter(y, m)
        /\ PreviousMonth(FirstOfMonth(today)) = MonthBefore(y, m)
    BY MonthTurns
  <1>3. /\ B("today") = Span(today, today + 1) /\ B("yesterday") = Span(today - 1, today)
        /\ B("this_week") = Span(today - Weekday(today), today + 1)
        /\ B("last_week") = Span(today - Weekday(today) - 7, today - Weekday(today))
    BY DEF B, Bounds, Named, Span
  <1>4. /\ B("this_month") = Span(FirstOfMonth(today), NextMonth(FirstOfMonth(today)))
        /\ B("last_month") = Span(PreviousMonth(FirstOfMonth(today)), FirstOfMonth(today))
        /\ B("this_year") = Span(Date(YearOf(today), 1, 1), today + 1)
    BY DEF B, Bounds, Named, Span
  <1> QED BY <1>1, <1>2, <1>3, <1>4

\* Six months are half a year, within a year and over its end.
LEMMA SixMonths ==
    ASSUME NEW y \in Int, NEW z \in Int, NEW k \in 1..6
    PROVE  /\ DaysBeforeMonth(y, k) + 181 <= DaysBeforeMonth(y, k + 6)
           /\ DaysBeforeMonth(y, k + 6) <= DaysBeforeMonth(y, k) + 184
           /\ DaysBeforeMonth(y, k + 6) + 181 <= YearLength(y) + DaysBeforeMonth(z, k)
           /\ YearLength(y) + DaysBeforeMonth(z, k) <= DaysBeforeMonth(y, k + 6) + 184
  <1>1. PICK e \in {0, 1} : e = IF Leap(y) THEN 1 ELSE 0
    OBVIOUS
  <1>2. PICK f \in {0, 1} : f = IF Leap(z) THEN 1 ELSE 0
    OBVIOUS
  <1>3. PICK a \in Int, b \in Int :
           /\ a = <<0, 31, 59, 90, 120, 151, 181, 212, 243, 273, 304, 334>>[k]
           /\ b = <<0, 31, 59, 90, 120, 151, 181, 212, 243, 273, 304, 334>>[k + 6]
    OBVIOUS
  <1>4. /\ a + 181 <= b /\ b <= a + 184 /\ b + 181 <= a + 365 /\ a + 365 <= b + 184
        /\ k <= 2 => b = a + 181
        /\ k > 2 => b >= a + 183 /\ a + 365 <= b + 182
    BY <1>3
  <1>5. /\ DaysBeforeMonth(y, k) = a + (IF k > 2 THEN e ELSE 0) /\ DaysBeforeMonth(y, k + 6) = b + e
        /\ DaysBeforeMonth(z, k) = a + (IF k > 2 THEN f ELSE 0)
    BY <1>1, <1>2, <1>3 DEF DaysBeforeMonth
  <1>6. YearLength(y) = 365 + e
    BY <1>1 DEF YearLength
  <1>7. CASE k <= 2
    BY <1>1, <1>2, <1>3, <1>4, <1>5, <1>6, <1>7
  <1>8. CASE k > 2
    BY <1>1, <1>2, <1>3, <1>4, <1>5, <1>6, <1>8
  <1> QED BY <1>7, <1>8

\* Half a year back.
LEMMA HalfAYear ==
    ASSUME NEW day, NEW y, NEW m, NEW d, IsDate(day, y, m, d), y > FirstYear
    PROVE  \E x, k : /\ x \in Year /\ k \in 1..12
                     /\ BaselineStart(day, 6) = Date(x, k, IF d <= MonthDays(x, k) THEN d ELSE MonthDays(x, k))
                     /\ Date(x, k, 1) + 181 <= Date(y, m, 1) /\ Date(y, m, 1) <= Date(x, k, 1) + 184
  <1>1. y \in Year /\ y \in Int /\ m \in 1..12 /\ FirstYear \in Int /\ d \in Int /\ YearOf(day) = y /\ MonthOf(day) = m
        /\ DayOfMonth(day) = d
    <2>1. y \in Year /\ y \in Int /\ m \in 1..12
      BY YearIsInt DEF IsDate
    <2>2. d \in Int
      BY <2>1, MonthIsLong DEF IsDate
    <2> QED BY <2>1, <2>2, DateFits, PeriodsAssumption
  <1>2. PICK n \in Int : n = y * 12 + m - 1 - 6
    BY <1>1
  <1>3. PICK x \in Int, k \in 1..12 : /\ x = n \div 12 /\ k = (n % 12) + 1
                                      /\ IF m > 6 THEN x = y /\ k + 6 = m ELSE x + 1 = y /\ k = m + 6
    <2>1. CASE m > 6
      <3>1. n \div 12 = y /\ n % 12 = m - 7
        BY <1>1, <1>2, <2>1
      <3> QED BY <1>1, <2>1, <3>1
    <2>2. CASE m <= 6
      <3>1. n \div 12 = y - 1 /\ n % 12 = m + 5
        BY <1>1, <1>2, <2>2
      <3> QED BY <1>1, <2>2, <3>1
    <2> QED BY <1>1, <2>1, <2>2
  <1>4. PICK l \in 28..31 : l = MonthDays(x, k)
    BY <1>3, MonthIsLong
  <1>5. BaselineStart(day, 6) = Date(x, k, IF d <= l THEN d ELSE l)
    <2>1. BaselineStart(day, 6) = Date(x, k, Min({d, l}))
      BY <1>1, <1>2, <1>3, <1>4 DEF BaselineStart
    <2>2. l \in Int
      BY <1>4
    <2> QED BY <1>1, <2>1, <2>2, MinOfTwo
  <1>6. x \in Year
    BY <1>1, <1>3, PeriodsAssumption DEF Year
  <1>7. Date(x, k, 1) + 181 <= Date(y, m, 1) /\ Date(y, m, 1) <= Date(x, k, 1) + 184
    <2>1. PICK p \in Int, q \in Int, a \in 0..335, b \in 0..335 :
             /\ p = DaysBeforeYear(x) /\ q = DaysBeforeYear(y)
             /\ a = DaysBeforeMonth(x, k) /\ b = DaysBeforeMonth(y, m)
      <3>1. DaysBeforeYear(x) \in Int /\ DaysBeforeYear(y) \in Int
        BY <1>1, YearIsLong
      <3>2. DaysBeforeMonth(x, k) \in 0..335 /\ DaysBeforeMonth(y, m) \in 0..335
        BY <1>1, MonthIsLong
      <3> QED BY <3>1, <3>2
    <2>2. Date(x, k, 1) = p + a + 1 /\ Date(y, m, 1) = q + b + 1
      BY <2>1 DEF Date
    <2>3. CASE m > 6
      <3>1. x = y /\ p = q
        BY <1>3, <2>1, <2>3
      <3>2. a + 181 <= b /\ b <= a + 184
        <4>1. k \in 1..6 /\ k + 6 = m /\ x = y
          BY <1>1, <1>3, <2>3
        <4>2. a + 181 <= DaysBeforeMonth(x, k + 6) /\ DaysBeforeMonth(x, k + 6) <= a + 184
          BY <1>1, <2>1, <4>1, SixMonths
        <4> QED BY <2>1, <4>1, <4>2
      <3> QED BY <2>1, <2>2, <3>1, <3>2
    <2>4. CASE m <= 6
      <3>1. q = p + YearLength(x)
        BY <1>3, <2>1, <2>4, YearIsLong
      <3>2. a + 181 <= YearLength(x) + b /\ YearLength(x) + b <= a + 184
        <4>1. m \in 1..6 /\ k = m + 6
          BY <1>1, <1>3, <2>4
        <4>2. /\ DaysBeforeMonth(x, m + 6) + 181 <= YearLength(x) + b
              /\ YearLength(x) + b <= DaysBeforeMonth(x, m + 6) + 184
          BY <1>1, <1>3, <2>1, <4>1, SixMonths
        <4> QED BY <2>1, <4>1, <4>2
      <3> QED BY <2>1, <2>2, <3>1, <3>2 DEF YearLength
    <2> QED BY <1>1, <2>3, <2>4
  <1> QED BY <1>3, <1>4, <1>5, <1>6, <1>7

\* The periods tile the calendar on a day of a user.
LEMMA PeriodsDoTile ==
    ASSUME today \in UserDays PROVE PeriodsTile
  <1>1. PICK y, m, d : IsDate(today, y, m, d) /\ y > FirstYear /\ y < LastYear
    BY UserDayIsADate
  <1>2. today \in Int /\ y \in Year /\ y \in Int /\ m \in 1..12 /\ FirstOfMonth(today) = Date(y, m, 1)
    BY <1>1, DateFits, YearIsInt DEF IsDate
  <1>3. PICK w \in 0..6 : w = Weekday(today)
    BY <1>2 DEF Weekday
  <1>4. PICK first \in Int, next \in Int, begun \in Int, l \in 28..31 :
           /\ first = Date(y, m, 1) /\ next = MonthAfter(y, m) /\ begun = Date(y, 1, 1) /\ l = MonthDays(y, m)
    <2>1. 1 \in 1..12
      OBVIOUS
    <2>2. Date(y, m, 1) \in Int /\ Date(y, 1, 1) \in Int /\ MonthDays(y, m) \in 28..31
      BY <1>2, <2>1, FirstIsInt, MonthIsLong
    <2>3. MonthAfter(y, m) \in Int
      <3>1. MonthAfter(y, m) = Date(y, m, 1) + MonthDays(y, m)
        BY <1>2, MonthsMeet
      <3> QED BY <2>2, <3>1
    <2> QED BY <2>2, <2>3
  <1>5. next = first + l /\ first <= today /\ today < next /\ begun <= today
    <2>1. begun = DaysBeforeYear(y) + 1
      <3>1. 1 \in 1..12 /\ DaysBeforeMonth(y, 1) = 0
        BY <1>2, MonthIsLong
      <3> QED BY <1>2, <1>4, <3>1, FirstIsInt, YearIsLong
    <2>2. DaysBeforeYear(y) < today /\ DaysBeforeYear(y) \in Int
      BY <1>1, <1>2, DateFits, YearIsLong
    <2>3. Date(y, m, 1) <= today /\ today < MonthAfter(y, m)
      BY <1>1, MonthTurns
    <2>4. MonthAfter(y, m) = Date(y, m, 1) + MonthDays(y, m)
      BY <1>2, MonthsMeet
    <2> QED BY <1>2, <1>4, <2>1, <2>2, <2>3, <2>4
  <1>6. /\ B("today") = Span(today, today + 1) /\ B("yesterday") = Span(today - 1, today)
        /\ B("this_week") = Span(today - w, today + 1) /\ B("last_week") = Span(today - w - 7, today - w)
        /\ B("this_month") = Span(first, next) /\ B("last_month") = Span(MonthBefore(y, m), first)
        /\ B("this_year") = Span(begun, today + 1)
    BY <1>1, <1>3, <1>4, NamedPeriods
  <1>7. /\ B("yesterday").after = B("today").first
        /\ B("last_week").after = B("this_week").first /\ Length(B("last_week")) = 7
        /\ B("last_month").after = B("this_month").first
    BY <1>2, <1>3, <1>6 DEF Span, Length
  <1>8. \A name \in {"today", "this_week", "this_month", "this_year"} :
           B(name).first <= today /\ today < B(name).after
    BY <1>2, <1>3, <1>4, <1>5, <1>6 DEF Span
  <1>9. ASSUME NEW n \in Int PROVE Length(LastDays(n)) = n /\ LastDays(n).after = today + 1
    <2>1. LastDays(n) = Span(today - n + 1, today + 1)
      BY DEF LastDays, Bounds, Named, Span
    <2> QED BY <1>2, <2>1 DEF Span, Length
  <1>10. {1, 2, 30, MaxDays} \subseteq Int
    BY PeriodsAssumption
  <1>11. Bounds([Named("month") EXCEPT !.start = FirstOfMonth(today)], today) = B("this_month")
    <2>1. Bounds([Named("month") EXCEPT !.start = FirstOfMonth(today)], today)
             = Span(FirstOfMonth(today), NextMonth(FirstOfMonth(today)))
      BY DEF Bounds, Named, Span
    <2>2. NextMonth(FirstOfMonth(today)) = next
      BY <1>1, <1>4, MonthTurns
    <2> QED BY <1>2, <1>4, <1>6, <2>1, <2>2
  <1>12. BaselineStart(FirstOfMonth(today), 6) = FirstOfMonth(B("this_month").first - 160)
    <2>1. IsDate(first, y, m, 1)
      BY <1>2, <1>4 DEF IsDate
    <2>2. PICK x, k : /\ x \in Year /\ k \in 1..12
                      /\ BaselineStart(first, 6) = Date(x, k, IF 1 <= MonthDays(x, k) THEN 1 ELSE MonthDays(x, k))
                      /\ Date(x, k, 1) + 181 <= Date(y, m, 1) /\ Date(y, m, 1) <= Date(x, k, 1) + 184
      BY <1>1, <2>1, HalfAYear
    <2>3. x \in Int
      BY <2>2, YearIsInt
    <2>4. PICK n \in 28..31, f \in Int : n = MonthDays(x, k) /\ f = Date(x, k, 1)
      BY <2>2, <2>3, MonthIsLong, FirstIsInt
    <2>5. BaselineStart(first, 6) = f
      BY <2>2, <2>4
    <2>6. f + 181 <= first /\ first <= f + 184
      BY <1>4, <2>2, <2>4
    <2>7. PICK e \in Int : e = first - 160 - f + 1
      BY <1>4, <2>4
    <2>8. e \in 1..n
      BY <1>4, <2>4, <2>6, <2>7
    <2>9. first - 160 = Date(x, k, e)
      <3>1. Date(x, k, e) = Date(x, k, 1) + e - 1
        <4>1. x \in Int /\ k \in 1..12 /\ e \in Int
          BY <2>2, <2>3, <2>7
        <4> QED BY <4>1, DateFromFirst
      <3>2. Date(x, k, e) = f + e - 1
        BY <2>4, <3>1
      <3> QED BY <1>4, <2>4, <2>7, <3>2
    <2>10. IsDate(first - 160, x, k, e)
      BY <2>2, <2>4, <2>8, <2>9 DEF IsDate
    <2>11. FirstOfMonth(first - 160) = f
      BY <2>4, <2>10, DateFits
    <2> QED BY <1>2, <1>4, <1>6, <2>5, <2>11 DEF Span
  <1>13. BaselineStart(today, 6) < today - 180
    <2>1. PICK x, k : /\ x \in Year /\ k \in 1..12
                      /\ BaselineStart(today, 6) = Date(x, k, IF d <= MonthDays(x, k) THEN d ELSE MonthDays(x, k))
                      /\ Date(x, k, 1) + 181 <= Date(y, m, 1) /\ Date(y, m, 1) <= Date(x, k, 1) + 184
      BY <1>1, HalfAYear
    <2>2. x \in Int /\ d \in 1..l
      BY <1>1, <1>4, <2>1, YearIsInt DEF IsDate
    <2>3. PICK n \in 28..31, f \in Int : n = MonthDays(x, k) /\ f = Date(x, k, 1)
      BY <2>1, <2>2, MonthIsLong, FirstIsInt
    <2>4. PICK e \in Int : e = IF d <= n THEN d ELSE n
      BY <1>4, <2>2, <2>3
    <2>5. Date(x, k, e) = f + e - 1
      <3>1. x \in Int /\ k \in 1..12 /\ e \in Int
        BY <2>1, <2>2, <2>4
      <3>2. Date(x, k, e) = Date(x, k, 1) + e - 1
        BY <3>1, DateFromFirst
      <3> QED BY <2>3, <3>2
    <2>6. today = first + d - 1
      <3>1. d \in Int /\ today = Date(y, m, d)
        BY <1>1, <1>4, <2>2 DEF IsDate
      <3>2. Date(y, m, d) = Date(y, m, 1) + d - 1
        BY <1>2, <3>1, DateFromFirst
      <3> QED BY <1>4, <3>1, <3>2
    <2>7. BaselineStart(today, 6) = f + e - 1 /\ f + 181 <= first
      BY <1>4, <2>1, <2>3, <2>4, <2>5
    <2> QED BY <1>4, <2>2, <2>3, <2>4, <2>6, <2>7
  <1> QED BY <1>7, <1>8, <1>9, <1>10, <1>11, <1>12, <1>13 DEF PeriodsTile

\* How the days of one span that are compared with another one are cut.
Fairly(a, b, clipped) ==
    IF b.first <= today /\ today + 1 < b.after /\ today + 1 - b.first < Length(a)
    THEN clipped.first = a.first /\ Length(clipped) = today + 1 - b.first
    ELSE clipped = a

\* A comparison takes as many days of one span as the other has had, if it goes on.
LEMMA ClippedFairly ==
    ASSUME NEW f \in Int, NEW t \in Int, NEW g \in Int, NEW u \in Int, f < t, g < u, today \in Int,
           NEW a, NEW b, a = Span(f, t), b = Span(g, u)
    PROVE  Fairly(a, b, SameLength(a, b, today))
  <1>1. a.first = f /\ a.after = t /\ b.first = g /\ b.after = u /\ Length(a) = t - f
    BY DEF Span, Length
  <1>2. CASE ~(g <= today /\ today < u) \/ today + 1 >= u
    <2>1. SameLength(a, b, today) = a
      BY <1>1, <1>2 DEF SameLength
    <2> QED BY <1>1, <1>2, <2>1 DEF Fairly
  <1>3. CASE g <= today /\ today + 1 < u
    <2>1. PICK c \in Int : c = f + (today + 1 - g)
      OBVIOUS
    <2>2. SameLength(a, b, today) = [a EXCEPT !.after = Min({t, c})]
      BY <1>1, <1>3, <2>1 DEF SameLength
    <2>3. PICK e \in Int : e = Min({t, c}) /\ e = IF t <= c THEN t ELSE c
      BY MinOfTwo
    <2>4. SameLength(a, b, today) = Span(f, e)
      BY <1>1, <2>2, <2>3 DEF Span
    <2>5. SameLength(a, b, today).first = f /\ Length(SameLength(a, b, today)) = e - f
      BY <2>4 DEF Span, Length
    <2>6. CASE today + 1 - g < t - f
      BY <1>1, <1>3, <2>1, <2>3, <2>5, <2>6 DEF Fairly
    <2>7. CASE ~(today + 1 - g < t - f)
      <3>1. e = t
        BY <2>1, <2>3, <2>7
      <3>2. SameLength(a, b, today) = a
        BY <2>4, <3>1
      <3> QED BY <1>1, <2>7, <3>2 DEF Fairly
    <2> QED BY <2>6, <2>7
  <1> QED BY <1>2, <1>3

\* The days of a range are those that were said.
LEMMA RangesSpan ==
    ASSUME NEW n \in 0..2, today \in Int
    PROVE  \E f \in Int, t \in Int : RangeTo(n) = Span(f, t) /\ f < t
  <1>1. RangeTo(n) = Span(today - 1, today + n + 1)
    BY DEF RangeTo, Bounds, Named, Span
  <1>2. PICK f \in Int, t \in Int : f = today - 1 /\ t = today + n + 1
    OBVIOUS
  <1> QED BY <1>1, <1>2

LEMMA ComparisonsAreFair ==
    ASSUME today \in UserDays PROVE ComparisonIsFair
  <1>1. PICK y, m, d : IsDate(today, y, m, d) /\ y > FirstYear /\ y < LastYear
    BY UserDayIsADate
  <1>2. today \in Int /\ y \in Year /\ y \in Int /\ m \in 1..12
    BY <1>1, DateFits, YearIsInt DEF IsDate
  <1>3. PICK w \in 0..6 : w = Weekday(today)
    BY <1>2 DEF Weekday
  <1>4. PICK first \in Int, next \in Int, begun \in Int, before \in Int :
           /\ first = Date(y, m, 1) /\ next = MonthAfter(y, m) /\ begun = Date(y, 1, 1)
           /\ before = MonthBefore(y, m) /\ before < first /\ first < next /\ begun <= today
    <2>1. 1 \in 1..12
      OBVIOUS
    <2>2. Date(y, m, 1) \in Int /\ Date(y, 1, 1) \in Int /\ MonthDays(y, m) \in 28..31
      BY <1>2, <2>1, FirstIsInt, MonthIsLong
    <2>3. /\ MonthAfter(y, m) = Date(y, m, 1) + MonthDays(y, m)
          /\ MonthBefore(y, m) + 28 <= Date(y, m, 1) /\ MonthBefore(y, m) \in Int
      BY <1>2, MonthsMeet
    <2>4. Date(y, 1, 1) = DaysBeforeYear(y) + 1
      <3>1. DaysBeforeMonth(y, 1) = 0
        BY <1>2, MonthIsLong
      <3> QED BY <1>2, <2>1, <3>1, FirstIsInt, YearIsLong
    <2>5. DaysBeforeYear(y) < today /\ DaysBeforeYear(y) \in Int
      BY <1>1, <1>2, DateFits, YearIsLong
    <2> QED BY <1>2, <2>2, <2>3, <2>4, <2>5
  <1>5. ASSUME NEW name \in PeriodName \ {"last_n_days", "month", "range"}
        PROVE  \E f \in Int, t \in Int : B(name) = Span(f, t) /\ f < t
    <2>1. /\ B("today") = Span(today, today + 1) /\ B("yesterday") = Span(today - 1, today)
          /\ B("this_week") = Span(today - w, today + 1) /\ B("last_week") = Span(today - w - 7, today - w)
          /\ B("this_month") = Span(first, next) /\ B("last_month") = Span(before, first)
          /\ B("this_year") = Span(begun, today + 1)
      BY <1>1, <1>3, <1>4, NamedPeriods
    <2>2. CASE name \in {"today", "yesterday"}
      BY <1>2, <2>1, <2>2
    <2>3. CASE name \in {"this_week", "last_week"}
      <3>1. PICK p \in Int, q \in Int, r \in Int : p = today - w /\ q = today - w - 7 /\ r = today + 1
        BY <1>2, <1>3
      <3> QED BY <1>2, <1>3, <2>1, <2>3, <3>1
    <2>4. CASE name \in {"this_month", "last_month", "this_year"}
      <3>1. PICK r \in Int : r = today + 1 /\ begun < r
        BY <1>2, <1>4
      <3> QED BY <1>4, <2>1, <2>4, <3>1
    <2> QED BY <2>2, <2>3, <2>4 DEF PeriodName
  <1>6. \A a \in Compared : \E f \in Int, t \in Int : a = Span(f, t) /\ f < t
    BY <1>2, <1>5, RangesSpan DEF Compared
  <1>7. ASSUME NEW a \in Compared, NEW b \in Compared
        PROVE  Fairly(a, b, SameLength(a, b, today))
    <2>1. PICK f \in Int, t \in Int : a = Span(f, t) /\ f < t
      BY <1>6
    <2>2. PICK g \in Int, u \in Int : b = Span(g, u) /\ g < u
      BY <1>6
    <2> QED BY <1>2, <2>1, <2>2, ClippedFairly
  <1>8. /\ B("this_week") = Span(today - w, today + 1) /\ B("last_week") = Span(today - w - 7, today - w)
        /\ B("this_month") = Span(first, next) /\ B("last_month") = Span(before, first)
    BY <1>1, <1>3, <1>4, NamedPeriods
  <1>9. {B("this_week"), B("last_week"), B("this_month"), B("last_month")} \subseteq Compared
    BY DEF Compared, PeriodName
  <1>10. SameLength(B("last_week"), B("this_week"), today) = B("last_week")
    <2>1. B("this_week").after = today + 1
      BY <1>8 DEF Span
    <2> QED BY <1>2, <1>7, <1>9, <2>1 DEF Fairly
  <1>11. DayOfMonth(today) = today + 1 - first
    <2>1. FirstOfMonth(today) = first
      BY <1>1, <1>4, DateFits
    <2> QED BY <1>2, <1>4, <2>1 DEF DayOfMonth
  <1>12. first <= today /\ today < next
    <2>1. PICK l \in 28..31 : l = MonthDays(y, m)
      BY <1>2, MonthIsLong
    <2>2. d \in 1..l /\ today = Date(y, m, d)
      BY <1>1, <2>1 DEF IsDate
    <2>3. today = first + d - 1
      <3>1. Date(y, m, d) = Date(y, m, 1) + d - 1
        BY <1>2, <2>1, <2>2, DateFromFirst
      <3>2. Date(y, m, 1) = first
        BY <1>4
      <3> QED BY <2>2, <3>1, <3>2
    <2>4. next = first + l
      BY <1>2, <1>4, <2>1, MonthsMeet
    <2> QED BY <1>4, <2>2, <2>3, <2>4
  <1> DEFINE month == SameLength(B("last_month"), B("this_month"), today)
  <1>13. IF today + 1 = B("this_month").after \/ Length(B("last_month")) <= DayOfMonth(today)
         THEN month = B("last_month")
         ELSE month.first = B("last_month").first /\ Length(month) = DayOfMonth(today)
    <2>1. B("this_month").first = first /\ B("this_month").after = next
      BY <1>8 DEF Span
    <2>2. Length(B("last_month")) = first - before
      BY <1>8 DEF Span, Length
    <2>3. Fairly(B("last_month"), B("this_month"), month)
      BY <1>7, <1>9
    <2> HIDE DEF month
    <2> QED BY <1>2, <1>4, <1>11, <1>12, <2>1, <2>2, <2>3 DEF Fairly
  <1> QED BY <1>7, <1>10, <1>13 DEF ComparisonIsFair, Fairly

\* What was said is past, and a date without a year is one of its name, of this year or the last.
LEMMA SaidIsPastOnUserDays ==
    ASSUME today \in UserDays, minute \in Minutes PROVE SaidIsPast
  <1>1. PICK y, m, d : IsDate(today, y, m, d) /\ y > FirstYear /\ y < LastYear
    BY UserDayIsADate
  <1>2. today \in Int /\ y \in Year /\ y \in Int /\ YearOf(today) = y /\ minute \in Nat
    BY <1>1, DateFits, YearIsInt, PeriodsAssumption DEF IsDate
  <1>3. ASSUME NEW s \in SaidWhen, NEW when, when = Resolve(s, Now), when # None
        PROVE  /\ \/ UpTo(when, Now)
                  \/ s.on \in {"unspecified", "today"} /\ s.minute # None /\ when.day = today
               /\ s.on = "date" =>
                      /\ MonthOf(when.day) = s.month /\ DayOfMonth(when.day) = s.date
                      /\ when.day > today - 367
    <2>1. /\ s.on \in {"unspecified", "today", "yesterday", "day_before_yesterday", "date"}
          /\ s.month \in 1..12 /\ s.date \in Nat \ {0} /\ (s.minute = None \/ s.minute \in Nat)
      BY PeriodsAssumption DEF SaidWhen
    <2>2. CASE s.on = "date"
      <3>1. PICK at \in Nat : at = IF s.minute = None THEN Noon ELSE s.minute
        BY <2>1 DEF Noon
      <3>2. PICK x \in Year : x + 1 = y /\ x = y - 1 /\ x \in Int
        <4>1. y - 1 \in Year /\ y - 1 + 1 = y
          BY <1>1, <1>2, PeriodsAssumption DEF Year
        <4> QED BY <4>1, YearIsInt
      <3>3. s.date <= MonthDays(y, s.month)
        BY <1>2, <1>3, <2>2 DEF Resolve, OnDate, Now
      <3>4. \/ /\ when = [day |-> Date(y, s.month, s.date), minute |-> at]
               /\ UpTo(when, Now)
            \/ /\ when = [day |-> Date(x, s.month, s.date), minute |-> at]
               /\ UpTo(when, Now) /\ s.date <= MonthDays(x, s.month)
               /\ ~UpTo([day |-> Date(y, s.month, s.date), minute |-> at], Now)
        BY <1>2, <1>3, <2>2, <3>1, <3>2 DEF Resolve, OnDate, Now
      <3>5. PICK p \in Int, q \in Int, a \in 0..335, b \in 0..335 :
               /\ p = DaysBeforeYear(y) /\ q = DaysBeforeYear(x) /\ a = DaysBeforeMonth(y, s.month)
               /\ b = DaysBeforeMonth(x, s.month)
        <4>1. DaysBeforeYear(y) \in Int /\ DaysBeforeYear(x) \in Int
          BY <1>2, <3>2, YearIsLong
        <4>2. DaysBeforeMonth(y, s.month) \in 0..335 /\ DaysBeforeMonth(x, s.month) \in 0..335
          BY <1>2, <2>1, <3>2, MonthIsLong
        <4> QED BY <4>1, <4>2
      <3>8. PICK e \in Int, f \in Int : e = p + a + s.date /\ f = q + b + s.date
        <4>1. s.date \in Int
          BY <2>1
        <4>2. p + a + s.date \in Int /\ q + b + s.date \in Int
          BY <4>1
        <4> QED BY <4>2
      <3>9. e = Date(y, s.month, s.date) /\ f = Date(x, s.month, s.date)
        BY <3>5, <3>8 DEF Date
      <3>6. CASE when = [day |-> e, minute |-> at]
        <4>1. IsDate(e, y, s.month, s.date)
          <5>1. MonthDays(y, s.month) \in 28..31
            BY <1>2, <2>1, MonthIsLong
          <5> QED BY <1>2, <2>1, <3>3, <3>5, <3>8, <3>9, <5>1 DEF IsDate
        <4>2. MonthOf(e) = s.month /\ DayOfMonth(e) = s.date /\ p < e
          BY <3>5, <3>8, <3>9, <4>1, DateFits
        <4>3. today <= p + 366
          <5>1. today <= DaysBeforeYear(y + 1) /\ DaysBeforeYear(y + 1) = DaysBeforeYear(y) + YearLength(y)
            BY <1>1, <1>2, DateFits, YearIsLong
          <5> QED BY <1>2, <3>5, <3>8, <3>9, <5>1 DEF YearLength
        <4>4. UpTo(when, Now)
          BY <3>4
        <4>5. when.day = e /\ e > today - 367
          BY <1>2, <3>5, <3>8, <3>9, <3>6, <4>2, <4>3
        <4> QED BY <4>2, <4>4, <4>5
      <3>7. CASE /\ when = [day |-> f, minute |-> at] /\ s.date <= MonthDays(x, s.month)
                 /\ UpTo(when, Now) /\ ~UpTo([day |-> e, minute |-> at], Now)
        <4>1. IsDate(f, x, s.month, s.date)
          <5>1. MonthDays(x, s.month) \in 28..31
            BY <2>1, <3>2, MonthIsLong
          <5> QED BY <2>1, <3>2, <3>5, <3>8, <3>9, <3>7, <5>1 DEF IsDate
        <4>2. MonthOf(f) = s.month /\ DayOfMonth(f) = s.date
          BY <4>1, DateFits
        <4>3. e >= today
          BY <1>2, <3>5, <3>8, <3>9, <3>7 DEF UpTo, Now
        <4>4. e <= f + 366
          <5>1. p = q + YearLength(x)
            BY <3>2, <3>5, <3>8, <3>9, YearIsLong
          <5>2. a <= b + 1 /\ (YearLength(x) = 366 => a <= b)
            <6>1. a = b \/ (a = b + 1 /\ Leap(y)) \/ (a + 1 = b /\ Leap(x))
              BY <1>2, <2>1, <3>2, <3>5, SameMonths
            <6>2. ~(Leap(x) /\ Leap(y))
              <7>1. ~(x % 4 = 0 /\ y % 4 = 0)
                BY <3>2
              <7> QED BY <7>1 DEF Leap
            <6> QED BY <3>5, <3>8, <3>9, <6>1, <6>2 DEF YearLength
          <5> QED BY <2>1, <3>5, <3>8, <3>9, <5>1, <5>2 DEF YearLength
        <4>5. when.day = f /\ f > today - 367
          BY <1>2, <3>5, <3>8, <3>9, <3>7, <4>3, <4>4
        <4> QED BY <3>7, <4>2, <4>5
      <3> QED BY <3>4, <3>5, <3>8, <3>9, <3>6, <3>7
    <2>3. CASE s.on = "unspecified" \/ s.on = "today"
      <3>1. CASE s.minute = None
        <4>1. when = Now
          BY <1>3, <2>3, <3>1 DEF Resolve, DaysAgo
        <4> QED BY <1>2, <2>3, <4>1 DEF UpTo, Now
      <3>2. CASE s.minute # None
        <4>1. when.day = today
          BY <1>2, <1>3, <2>3, <3>2 DEF Resolve, DaysAgo, Now
        <4> QED BY <2>3, <3>2, <4>1
      <3> QED BY <3>1, <3>2
    <2>4. CASE s.on = "yesterday" \/ s.on = "day_before_yesterday"
      <3>1. when.day = today - 1 \/ when.day = today - 2
        BY <1>2, <1>3, <2>4 DEF Resolve, DaysAgo, Now
      <3>2. UpTo(when, Now)
        BY <1>2, <3>1 DEF UpTo, Now
      <3> QED BY <2>4, <3>2
    <2> QED BY <2>1, <2>2, <2>3, <2>4
  <1> QED BY <1>3 DEF SaidIsPast

\* The user's day is a day of the calendar, and the minute one that is looked at.
PeriodsTypeOK == today \in UserDays /\ minute \in Minutes

LEMMA LeastMinute == Min(Minutes) \in Minutes
  <1>1. PICK least \in Minutes : \A at \in Minutes : least <= at
    BY PeriodsAssumption, LeastNat
  <1> QED BY <1>1 DEF Min

LEMMA UserHasDays == Date(FirstYear + 1, 1, 1) \in Int /\ Date(LastYear, 1, 1) \in Int
                     /\ Date(FirstYear + 1, 1, 1) < Date(LastYear, 1, 1)
  <1>0. PICK a \in Int, b \in Int : a = FirstYear + 1 /\ b = LastYear /\ a < b
    BY PeriodsAssumption
  <1>1. 1 \in 1..12 /\ DaysBeforeMonth(a, 1) = 0 /\ DaysBeforeMonth(b, 1) = 0
    <2>1. 1 \in 1..12
      OBVIOUS
    <2> QED BY <2>1, MonthIsLong
  <1>2. DaysBeforeYear(a + 1) <= DaysBeforeYear(b)
    BY <1>0, YearsInOrder
  <1>3. /\ DaysBeforeYear(a) \in Int /\ DaysBeforeYear(b) \in Int
        /\ DaysBeforeYear(a + 1) = DaysBeforeYear(a) + YearLength(a)
    BY YearIsLong
  <1>4. Date(a, 1, 1) = DaysBeforeYear(a) + 1 /\ Date(b, 1, 1) = DaysBeforeYear(b) + 1
    BY <1>1, <1>3, FirstIsInt
  <1> QED BY <1>0, <1>2, <1>3, <1>4 DEF YearLength

\* The day stays one that the user may have (Periods: the calendar is not left).
THEOREM PeriodsInvariant == PeriodsSpec => []PeriodsTypeOK
  <1>1. PeriodsInit => PeriodsTypeOK
    BY LeastMinute, UserHasDays DEF PeriodsInit, PeriodsTypeOK, UserDays
  <1>2. PeriodsTypeOK /\ [PeriodsNext]_period_vars => PeriodsTypeOK'
    <2>1. SUFFICES ASSUME PeriodsTypeOK, [PeriodsNext]_period_vars PROVE PeriodsTypeOK'
      OBVIOUS
    <2>2. CASE UNCHANGED period_vars
      BY <2>1, <2>2 DEF PeriodsTypeOK, period_vars
    <2>3. CASE \E m \in Minutes : m > minute /\ minute' = m /\ UNCHANGED today
      BY <2>1, <2>3 DEF PeriodsTypeOK
    <2>4. CASE today + 1 < Date(LastYear, 1, 1) /\ today' = today + 1 /\ minute' = Min(Minutes)
      <3>1. today' \in UserDays
        BY <2>1, <2>4, UserHasDays DEF PeriodsTypeOK, UserDays
      <3> QED BY <2>4, <3>1, LeastMinute DEF PeriodsTypeOK
    <2> QED BY <2>1, <2>2, <2>3, <2>4 DEF PeriodsNext
  <1> QED BY <1>1, <1>2, PTL DEF PeriodsSpec

\* On every day of every calendar the named periods tile it, and a period that goes on beyond today
\* is compared with as many days as it has had, which this week and this year do not: they end
\* with today (PeriodSpec, usual_range.baseline_start, run_tool._same_length).
THEOREM DaysStayFit == PeriodsSpec => []PeriodsFit
  <1>1. PeriodsTypeOK => PeriodsFit
    BY PeriodsDoTile, ComparisonsAreFair DEF PeriodsTypeOK, PeriodsFit
  <1> QED BY <1>1, PeriodsInvariant, PTL

\* On every day of every calendar what was said of the past is past and not further back than it
\* has to be (SaidWhen.resolve).
THEOREM SaidStaysPast == PeriodsSpec => []SaidIsPast
  <1>1. PeriodsTypeOK => SaidIsPast
    BY SaidIsPastOnUserDays DEF PeriodsTypeOK
  <1> QED BY <1>1, PeriodsInvariant, PTL

-----------------------------------------------------------------------------
(* The calls of tools *)

\* The dates that are asked for: days that have a month before them.
Askable == Date(FirstYear + 1, 1, 1)..(Date(LastYear + 1, 1, 1) - 1)

LEMMA AskableIsADate ==
    ASSUME NEW day \in Askable
    PROVE  \E y, m, d : IsDate(day, y, m, d) /\ y > FirstYear
  <1>0. FirstYear \in Nat /\ LastYear \in Nat /\ FirstYear + 2 <= LastYear
    BY PeriodsAssumption
  <1>1. PICK a \in Int, b \in Int, e \in Int :
           /\ a = DaysBeforeYear(FirstYear) /\ b = DaysBeforeYear(FirstYear + 1)
           /\ e = DaysBeforeYear(LastYear + 1) /\ a < b
    <2>1. FirstYear \in Int /\ FirstYear + 1 \in Int /\ LastYear + 1 \in Int
      BY <1>0
    <2>2. /\ DaysBeforeYear(FirstYear) \in Int /\ DaysBeforeYear(FirstYear + 1) \in Int
          /\ DaysBeforeYear(LastYear + 1) \in Int
          /\ DaysBeforeYear(FirstYear + 1) = DaysBeforeYear(FirstYear) + YearLength(FirstYear)
      BY <2>1, YearIsLong
    <2> QED BY <2>2 DEF YearLength
  <1>2. Date(FirstYear + 1, 1, 1) = b + 1 /\ Date(LastYear + 1, 1, 1) = e + 1
    <2>1. 1 \in 1..12 /\ FirstYear + 1 \in Int /\ LastYear + 1 \in Int
      BY <1>0
    <2>2. DaysBeforeMonth(FirstYear + 1, 1) = 0 /\ DaysBeforeMonth(LastYear + 1, 1) = 0
      BY <2>1, MonthIsLong
    <2> QED BY <1>1, <2>1, <2>2, FirstIsInt
  <1>3. day \in Int /\ b < day /\ day <= e
    BY <1>1, <1>2 DEF Askable
  <1>4. day \in Days
    BY <1>1, <1>3 DEF Days
  <1>5. PICK y, m, d : IsDate(day, y, m, d)
    BY <1>4, EveryDayIsADate
  <1>6. y \in Int /\ FirstYear <= y
    BY <1>0, <1>5, YearIsInt DEF IsDate, Year
  <1>7. DaysBeforeYear(y) < day /\ day <= DaysBeforeYear(y + 1)
    BY <1>5, DateFits
  <1>8. y # FirstYear
    BY <1>1, <1>3, <1>7
  <1> QED BY <1>0, <1>5, <1>6, <1>8

\* A month that is asked for has as many days as one has.
LEMMA MonthIsAMonth ==
    ASSUME NEW day \in Askable
    PROVE  /\ FirstOfMonth(day) \in Int /\ day \in Int
           /\ NextMonth(day) - day \in 28..31
           /\ NextMonth(FirstOfMonth(day)) - FirstOfMonth(day) \in 28..31
  <1>1. PICK y, m, d : IsDate(day, y, m, d)
    BY AskableIsADate
  <1>2. y \in Year /\ y \in Int /\ m \in 1..12
    BY <1>1, YearIsInt DEF IsDate
  <1>3. PICK l \in 28..31, first \in Int : l = MonthDays(y, m) /\ first = Date(y, m, 1)
    BY <1>2, MonthIsLong, FirstIsInt
  <1>4. IsDate(first, y, m, 1)
    BY <1>2, <1>3 DEF IsDate
  <1>5. /\ YearOf(day) = y /\ MonthOf(day) = m /\ FirstOfMonth(day) = first /\ day \in Int
        /\ YearOf(first) = y /\ MonthOf(first) = m
    BY <1>1, <1>3, <1>4, DateFits
  <1> QED BY <1>3, <1>5 DEF NextMonth

\* What a parser makes a period of.
PeriodSpec == [name : PeriodName, days : Int, start : {None} \cup Int, end : {None} \cup Int]

\* A period that is asked for has a day and no more than a year of them.
LEMMA PeriodIsBounded ==
    ASSUME today \in Askable, NEW s \in PeriodSpec, SpecOk(s),
           s.name = "month" => NextMonth(s.start) - s.start \in 28..31 /\ s.start \in Int,
           s.name = "range" => s.start \in Int /\ s.end \in Int
    PROVE  Length(Bounds(s, today)) \in 1..(MaxDays + 1)
  <1>0. MaxDays \in Nat /\ MaxDays >= 365
    BY PeriodsAssumption
  <1>1. PICK y, m, d : IsDate(today, y, m, d) /\ y > FirstYear
    BY AskableIsADate
  <1>2. today \in Int /\ y \in Year /\ y \in Int /\ m \in 1..12
    BY <1>1, DateFits, YearIsInt DEF IsDate
  <1>3. PICK w \in 0..6 : w = Weekday(today)
    BY <1>2 DEF Weekday
  <1>4. PICK first \in Int, next \in Int, begun \in Int, before \in Int :
           /\ first = Date(y, m, 1) /\ next = MonthAfter(y, m) /\ begun = Date(y, 1, 1)
           /\ before = MonthBefore(y, m) /\ first - before \in 28..31 /\ next - first \in 28..31
           /\ begun <= today /\ today <= begun + 365
    <2>1. 1 \in 1..12
      OBVIOUS
    <2>2. Date(y, m, 1) \in Int /\ Date(y, 1, 1) \in Int /\ MonthDays(y, m) \in 28..31
      BY <1>2, <2>1, FirstIsInt, MonthIsLong
    <2>3. /\ MonthAfter(y, m) = Date(y, m, 1) + MonthDays(y, m)
          /\ MonthBefore(y, m) + 28 <= Date(y, m, 1) /\ MonthBefore(y, m) \in Int
          /\ Date(y, m, 1) <= MonthBefore(y, m) + 31
      BY <1>2, MonthsMeet
    <2>4. Date(y, 1, 1) = DaysBeforeYear(y) + 1
      <3>1. DaysBeforeMonth(y, 1) = 0
        BY <1>2, MonthIsLong
      <3> QED BY <1>2, <2>1, <3>1, FirstIsInt, YearIsLong
    <2>5. DaysBeforeYear(y) < today /\ today <= DaysBeforeYear(y + 1) /\ DaysBeforeYear(y) \in Int
      BY <1>1, <1>2, DateFits, YearIsLong
    <2>6. DaysBeforeYear(y + 1) = DaysBeforeYear(y) + YearLength(y)
      BY <1>2, YearIsLong
    <2>7. Date(y, 1, 1) <= today /\ today <= Date(y, 1, 1) + 365
      BY <1>2, <2>4, <2>5, <2>6 DEF YearLength
    <2> QED BY <1>2, <2>2, <2>3, <2>7
  <1>5. YearOf(today) = y /\ FirstOfMonth(today) = first
    BY <1>1, <1>4, DateFits
  <1>6. NextMonth(first) = next /\ PreviousMonth(first) = before
    BY <1>1, <1>4, <1>5, MonthTurns
  <1>7. s.name \in PeriodName
    BY DEF PeriodSpec
  <1>8. CASE s.name \in {"today", "yesterday", "this_week", "last_week"}
    <2>1. Bounds(s, today) \in {Span(today, today + 1), Span(today - 1, today),
                                Span(today - w, today + 1), Span(today - w - 7, today - w)}
      BY <1>3, <1>8 DEF Bounds, Span
    <2> QED BY <1>0, <1>2, <1>3, <2>1 DEF Span, Length
  <1>9. CASE s.name \in {"this_month", "last_month"}
    <2>1. Bounds(s, today) \in {Span(first, next), Span(before, first)}
      BY <1>5, <1>6, <1>9 DEF Bounds, Span
    <2> QED BY <1>0, <1>4, <2>1 DEF Span, Length
  <1>10. CASE s.name = "this_year"
    <2>1. Bounds(s, today) = Span(begun, today + 1)
      BY <1>4, <1>5, <1>10 DEF Bounds, Span
    <2> QED BY <1>0, <1>2, <1>4, <2>1 DEF Span, Length
  <1>11. CASE s.name = "last_n_days"
    <2>1. s.days \in 1..MaxDays
      BY <1>11 DEF SpecOk
    <2>2. Bounds(s, today) = Span(today - s.days + 1, today + 1)
      BY <1>11 DEF Bounds, Span
    <2> QED BY <1>0, <1>2, <2>1, <2>2 DEF Span, Length
  <1>12. CASE s.name = "month"
    <2>1. Bounds(s, today) = Span(s.start, NextMonth(s.start))
      BY <1>12 DEF Bounds, Span
    <2> QED BY <1>0, <1>12, <2>1 DEF Span, Length
  <1>13. CASE s.name = "range"
    <2>1. s.end >= s.start /\ s.end - s.start + 1 <= MaxDays
      BY <1>13 DEF SpecOk
    <2>2. Bounds(s, today) = Span(s.start, s.end + 1)
      BY <1>13 DEF Bounds, Span
    <2> QED BY <1>0, <1>13, <2>1, <2>2 DEF Span, Length
  <1> QED BY <1>7, <1>8, <1>9, <1>10, <1>11, <1>12, <1>13 DEF PeriodName

\* A period that both copies accept is one that a question can be asked of.
LEMMA AcceptedPeriod ==
    ASSUME today \in AskedDays, NEW p \in AskedPeriod, PeriodAccepted(p)
    PROVE  Length(Bounds(SpecOf(p), today)) \in 1..(MaxDays + 1)
  <1>0. today \in Askable /\ AskedDays \subseteq Askable /\ AskedCounts \subseteq Int /\ MaxDays \in Int
    BY ArgAssumption, PeriodsAssumption DEF Askable
  <1> DEFINE Start == IF p.month # None THEN p.month ELSE p.start
  <1>1. /\ p.name \in PeriodName /\ SpecOk(SpecOf(p)) /\ p.month # Wrong /\ p.end # Wrong
        /\ p.name = "last_n_days" => p.days \notin {None, Wrong} /\ p.days >= 1
        /\ p.month = None => p.start # Wrong
    BY DEF PeriodAccepted
  <1>2. /\ p.days \in {None, Wrong} \cup AskedCounts
        /\ p.month \in {None, Wrong} \cup {FirstOfMonth(d) : d \in AskedDays}
        /\ p.start \in {None, Wrong} \cup AskedDays /\ p.end \in {None, Wrong} \cup AskedDays
    BY DEF AskedPeriod
  <1>3. PICK start : start = Start
    OBVIOUS
  <1>4. start = None \/ start \in AskedDays \/ \E d \in AskedDays : start = FirstOfMonth(d)
    BY <1>1, <1>2, <1>3
  <1>5. ASSUME start # None PROVE NextMonth(start) - start \in 28..31 /\ start \in Int
    <2>1. CASE start \in AskedDays
      BY <1>0, <2>1, MonthIsAMonth
    <2>2. CASE \E d \in AskedDays : start = FirstOfMonth(d)
      <3>1. PICK d \in Askable : start = FirstOfMonth(d)
        BY <1>0, <2>2
      <3> QED BY <3>1, MonthIsAMonth
    <2> QED BY <1>4, <1>5, <2>1, <2>2
  <1>6. DayCount(p) \in Int
    <2>1. CASE p.name = "last_n_days"
      <3>1. p.days \in Int
        BY <1>0, <1>1, <1>2, <2>1
      <3> QED BY <1>0, <2>1, <3>1, MinOfTwo DEF DayCount
    <2>2. CASE p.name # "last_n_days"
      <3>1. p.days \notin {None, Wrong} => p.days \in Int
        BY <1>0, <1>2
      <3>2. DayCount(p) = 0 \/ (p.days \notin {None, Wrong} /\ DayCount(p) = p.days)
        BY <2>2 DEF DayCount
      <3> QED BY <3>1, <3>2
    <2> QED BY <2>1, <2>2
  <1>7. PICK end \in {None} \cup Askable : end = p.end
    BY <1>0, <1>1, <1>2
  <1>8. Askable \subseteq Int
    BY MonthIsAMonth
  <1>9. PICK s : s = SpecOf(p)
    OBVIOUS
  <1>10. s = [name |-> p.name, days |-> DayCount(p), start |-> start, end |-> end]
    BY <1>3, <1>7, <1>9 DEF SpecOf
  <1>11. s \in PeriodSpec /\ s.name = p.name /\ s.start = start /\ s.end = end
    BY <1>1, <1>5, <1>6, <1>7, <1>8, <1>10 DEF PeriodSpec
  <1>12. SpecOk(s)
    BY <1>1, <1>9
  <1>13. /\ s.name \in {"month", "range"} => start # None
         /\ s.name = "range" => end # None
    BY <1>11, <1>12 DEF SpecOk
  <1> QED BY <1>0, <1>5, <1>7, <1>8, <1>9, <1>11, <1>12, <1>13, PeriodIsBounded

\* A call is of a tool there is, and its periods have the shape of one; what was made of a call is
\* what the two make of it.
WellWritten ==
    /\ raw.tool \in Tool
    /\ \A key \in {"period", "a", "b"} \cap Keys[raw.tool] : raw.args[key] \in AskedPeriod
    /\ reply.lines \in Nat
ArgInductive ==
    /\ today \in AskedDays
    /\ raw # None => WellWritten
    /\ served # None => raw # None /\ served = [agent |-> RunTool, mcp |-> CallTool]

LEMMA WrittenWell ==
    ASSUME NEW mode, NEW tool \in Tool, NEW p \in AskedPeriod, NEW key, key \notin {"period", "a", "b"},
           NEW value, NEW given, given.lines \in Nat, Write(mode, tool, p, key, value, given)
    PROVE  WellWritten'
  <1>1. /\ reply' = given
        /\ raw' = [mode |-> mode, tool |-> tool, args |-> [k \in Key |->
              IF k = key THEN value
              ELSE IF k \in {"period", "a"} \cap Keys[tool] THEN p
              ELSE IF k = "b" /\ k \in Keys[tool] THEN Plain("this_month") ELSE None]]
    BY DEF Write
  <1>2. raw'.tool = tool /\ reply'.lines \in Nat
    BY <1>1
  <1>3. Plain("this_month") \in AskedPeriod
    BY DEF Plain, AskedPeriod, PeriodName
  <1>4. Keys[tool] \subseteq Key
    BY DEF Key
  <1>5. ASSUME NEW k \in {"period", "a", "b"} \cap Keys[tool] PROVE raw'.args[k] \in AskedPeriod
    <2>1. k \in Key /\ k # key
      BY <1>4, <1>5
    <2>2. raw'.args[k] = IF k \in {"period", "a"} \cap Keys[tool] THEN p
                         ELSE IF k = "b" /\ k \in Keys[tool] THEN Plain("this_month") ELSE None
      BY <1>1, <2>1
    <2> QED BY <1>3, <1>5, <2>2
  <1> QED BY <1>2, <1>5 DEF WellWritten

LEMMA AnswersAreWhole ==
    /\ Some.lines \in Nat /\ \A given \in Reply : given.lines \in Nat
    /\ \A name \in PeriodName : Plain(name) \in AskedPeriod
  <1>1. Lines \subseteq Nat
    BY ArgAssumption
  <1>2. Some.lines \in Nat
    BY DEF Some
  <1>3. ASSUME NEW given \in Reply PROVE given.lines \in Nat
    <2>1. given.lines \in Lines \/ given.lines = 0
      BY DEF Reply
    <2>2. CASE given.lines \in Lines
      BY <1>1, <2>2
    <2>3. CASE given.lines = 0
      BY <2>3
    <2> QED BY <2>1, <2>2, <2>3
  <1>4. \A name \in PeriodName : Plain(name) \in AskedPeriod
    BY DEF Plain, AskedPeriod
  <1> QED BY <1>2, <1>3, <1>4

\* What is written is a call of a tool, whoever wrote it.
LEMMA AskingIsWritten ==
    ASSUME AskNext, raw = None PROVE WellWritten' /\ UNCHANGED <<today, served>>
  <1>1. ASSUME NEW tool \in Tool, NEW p \in AskedPeriod, Write("query", tool, p, "none", None, Some)
        PROVE  WellWritten' /\ UNCHANGED <<today, served>>
    <2>1. WellWritten'
      BY <1>1, WrittenWell, AnswersAreWhole
    <2> QED BY <1>1, <2>1 DEF Write
  <1>2. ASSUME NEW tool \in Tool, NEW name \in {"this_month", "last_week"}, NEW key \in DOMAIN AskedValue,
               NEW value, Write("query", tool, Plain(name), key, value, Some)
        PROVE  WellWritten' /\ UNCHANGED <<today, served>>
    <2>1. key \notin {"period", "a", "b"}
      BY <1>2 DEF AskedValue
    <2>2. Plain(name) \in AskedPeriod
      BY <1>2, AnswersAreWhole DEF PeriodName
    <2>3. WellWritten'
      BY <1>2, <2>1, <2>2, WrittenWell, AnswersAreWhole
    <2> QED BY <1>2, <2>3 DEF Write
  <1>3. ASSUME NEW mode \in DOMAIN ModeTools, NEW tool \in Tool, NEW given \in Reply,
               Write(mode, tool, Plain("last_month"), "merchant", Word, given)
        PROVE  WellWritten' /\ UNCHANGED <<today, served>>
    <2>1. Plain("last_month") \in AskedPeriod /\ given.lines \in Nat
      BY AnswersAreWhole DEF PeriodName
    <2>2. WellWritten'
      BY <1>3, <2>1, WrittenWell
    <2> QED BY <1>3, <2>2 DEF Write
  <1> QED BY <1>1, <1>2, <1>3 DEF AskNext

\* A call is made as it was written, and answered as both make of it.
THEOREM ArgInvariant == ArgSpec => []ArgInductive
  <1>1. ArgInit => ArgInductive
    BY DEF ArgInit, NothingAsked, ArgInductive
  <1>2. ArgInductive /\ [ArgNext]_arg_vars => ArgInductive'
    <2>1. SUFFICES ASSUME ArgInductive, [ArgNext]_arg_vars PROVE ArgInductive'
      OBVIOUS
    <2>2. CASE UNCHANGED arg_vars
      <3>1. /\ WellWritten' <=> WellWritten
            /\ RunTool' = RunTool /\ CallTool' = CallTool
        BY <2>2 DEF arg_vars, WellWritten, RunTool, CallTool, AgentAccepts, McpAccepts, AgentQuestion,
           McpQuestion, Told, Rows, Written, PeriodsAccepted, PeriodAccepted, TextAccepted, Where, Wide,
           AgentPair, McpPair
      <3> QED BY <2>1, <2>2, <3>1 DEF ArgInductive, arg_vars
    <2>3. CASE raw = None /\ AskNext
      <3>1. WellWritten' /\ today' = today /\ served' = served
        BY <2>3, AskingIsWritten
      <3> QED BY <2>1, <2>3, <3>1 DEF ArgInductive
    <2>4. CASE Serve
      <3>1. /\ raw # None /\ served' = [agent |-> RunTool, mcp |-> CallTool]
            /\ UNCHANGED <<today, minute, raw, reply>>
        BY <2>4 DEF Serve
      <3>2. /\ WellWritten' <=> WellWritten
            /\ RunTool' = RunTool /\ CallTool' = CallTool
        BY <3>1 DEF WellWritten, RunTool, CallTool, AgentAccepts, McpAccepts, AgentQuestion,
           McpQuestion, Told, Rows, Written, PeriodsAccepted, PeriodAccepted, TextAccepted, Where, Wide,
           AgentPair, McpPair
      <3> QED BY <2>1, <3>1, <3>2 DEF ArgInductive
    <2> QED BY <2>1, <2>2, <2>3, <2>4 DEF ArgNext
  <1> QED BY <1>1, <1>2, PTL DEF ArgSpec

\* Of a tool that is open to both the parsers accept the same, but for a category that is not in
\* the dictionary and a budget's period that is no month.
LEMMA ParsersAgree ==
    ASSUME raw.tool \in Shared
    PROVE  /\ AgentAccepts /\ raw.args["category_id"] \in Category \cup {None} => McpAccepts
           /\ McpAccepts /\ (raw.tool = "get_budget_status" => MonthOnly(raw.args["period"])) => AgentAccepts
           /\ AgentQuestion = McpQuestion
  <1>1. raw.tool \in {"summarize_spending", "compare_periods", "count_frequency", "get_budget_status"}
    BY DEF Shared
  <1>2. Keys[raw.tool] # {} /\ "memo" \notin Keys[raw.tool] /\ "query" \notin Keys[raw.tool]
    BY <1>1 DEF Keys
  <1>3. ASSUME AgentAccepts, raw.args["category_id"] \in Category \cup {None} PROVE McpAccepts
    BY <1>3 DEF AgentAccepts, McpAccepts
  <1>4. ASSUME McpAccepts, raw.tool = "get_budget_status" => MonthOnly(raw.args["period"]) PROVE AgentAccepts
    <2>1. \A key \in {"category_id", "merchant", "direction", "memo", "query"} \cap Keys[raw.tool] :
             TextAccepted(key)
      BY <1>2, <1>4 DEF McpAccepts
    <2>2. raw.tool \notin {"search_transactions", "search_documents", "suggest_category"}
      BY <1>1
    <2> QED BY <1>2, <1>4, <2>1, <2>2 DEF AgentAccepts, McpAccepts
  <1>5. AgentQuestion = McpQuestion
    BY <1>1 DEF AgentQuestion, McpQuestion, AgentPair, McpPair
  <1> QED BY <1>3, <1>4, <1>5

\* A range that is asked for is that of the period of the call.
LEMMA RangesAreBounded ==
    ASSUME today \in AskedDays, WellWritten, PeriodsAccepted, NEW q, q = AgentQuestion, raw.tool # "create_transaction",
           raw.tool \in Tool, Keys[raw.tool] # {}, "range" \in DOMAIN q
    PROVE  Length(q.range) \in 1..(MaxDays + 1)
  <1>1. raw.tool \in {"search_transactions", "summarize_spending", "count_frequency", "compare_periods",
                      "get_budget_status", "detect_outliers", "suggest_category", "search_documents"}
    BY DEF Tool, Keys
  <1>2. CASE raw.tool = "search_transactions"
    <2>1. DOMAIN q = {"where", "limit"}
      BY <1>2 DEF AgentQuestion
    <2> QED BY <2>1
  <1>3. CASE raw.tool = "compare_periods"
    <2>1. DOMAIN q = {"pair", "category"}
      BY <1>3 DEF AgentQuestion
    <2> QED BY <2>1
  <1>4. CASE raw.tool = "get_budget_status"
    <2>1. DOMAIN q = {"month", "category"}
      BY <1>4 DEF AgentQuestion
    <2> QED BY <2>1
  <1>5. CASE raw.tool = "suggest_category"
    <2>1. DOMAIN q = {"merchant", "memo", "direction"}
      BY <1>5 DEF AgentQuestion
    <2> QED BY <2>1
  <1>6. CASE raw.tool = "search_documents"
    <2>1. DOMAIN q = {"query"}
      BY <1>6 DEF AgentQuestion
    <2> QED BY <2>1
  <1>7. CASE raw.tool \in {"summarize_spending", "count_frequency", "detect_outliers"}
    <2>1. q.range = Wide("period")
      BY <1>7 DEF AgentQuestion, Where
    <2>2. "period" \in Keys[raw.tool]
      BY <1>7 DEF Keys
    <2>3. raw.args["period"] \in AskedPeriod /\ PeriodAccepted(raw.args["period"])
      BY <2>2 DEF WellWritten, PeriodsAccepted
    <2> QED BY <2>1, <2>3, AcceptedPeriod DEF Wide
  <1> QED BY <1>1, <1>2, <1>3, <1>4, <1>5, <1>6, <1>7

\* Lines that do not fit are told of.
LEMMA CutLinesAreTold ==
    ASSUME reply.lines \in Nat, NEW cap \in Nat, Rows(cap).count < reply.lines
    PROVE  Rows(cap).truncated
  <1>1. Fits \in Nat
    BY ArgAssumption
  <1>2. PICK given \in Nat : given = Min({reply.lines, cap})
                             /\ given = IF reply.lines <= cap THEN reply.lines ELSE cap
    BY MinOfTwo
  <1>3. Min({given, Fits}) = IF given <= Fits THEN given ELSE Fits
    BY <1>1, MinOfTwo
  <1>4. Rows(cap).count = Min({given, Fits})
    BY <1>2 DEF Rows
  <1>5. reply.lines > cap \/ given > Fits
    BY <1>1, <1>2, <1>3, <1>4
  <1> QED BY <1>2, <1>5 DEF Rows

LEMMA CallsAgree == ArgInductive => SharedToolsAgree
  <1> SUFFICES ASSUME ArgInductive, served # None PROVE SharedToolsAgree
    BY DEF SharedToolsAgree
  <1>1. today \in AskedDays /\ WellWritten /\ served = [agent |-> RunTool, mcp |-> CallTool]
    BY DEF ArgInductive
  <1>2. PICK agent, mcp : agent = RunTool /\ mcp = CallTool /\ served.agent = agent /\ served.mcp = mcp
    BY <1>1
  <1>3. raw.tool \in Tool /\ reply.lines \in Nat
    BY <1>1 DEF WellWritten
  <1>4. ASSUME agent.question # None
        PROVE  /\ raw.tool \in ModeTools[raw.mode] /\ raw.tool # "create_transaction" /\ AgentAccepts
               /\ agent = [question |-> AgentQuestion, envelope |-> Told(raw.tool)]
    BY <1>2, <1>4 DEF RunTool
  <1>5. ASSUME mcp.question # None
        PROVE  /\ raw.tool \in Shared /\ McpAccepts
               /\ mcp = [question |-> McpQuestion, envelope |-> Told(raw.tool)]
    BY <1>2, <1>5 DEF CallTool
  <1>6. ASSUME raw.tool \in Shared, raw.mode = "query", agent.question # None,
               raw.args["category_id"] \in Category \cup {None}
        PROVE  mcp = agent
    <2>1. McpAccepts /\ AgentQuestion = McpQuestion
      BY <1>4, <1>6, ParsersAgree
    <2>2. mcp = [question |-> McpQuestion, envelope |-> Told(raw.tool)]
      BY <1>2, <1>6, <2>1 DEF CallTool
    <2> QED BY <1>4, <1>6, <2>1, <2>2
  <1>7. ASSUME raw.tool \in Shared, raw.mode = "query", mcp.question # None,
               raw.tool = "get_budget_status" => MonthOnly(raw.args["period"])
        PROVE  mcp = agent
    <2>1. AgentAccepts /\ AgentQuestion = McpQuestion
      BY <1>5, <1>7, ParsersAgree
    <2>2. raw.tool \in ModeTools[raw.mode] /\ raw.tool # "create_transaction"
      BY <1>7 DEF ModeTools, Shared
    <2>3. agent = [question |-> AgentQuestion, envelope |-> Told(raw.tool)]
      BY <1>2, <2>1, <2>2 DEF RunTool
    <2> QED BY <1>5, <1>7, <2>1, <2>3
  <1>8. ASSUME agent.question # None PROVE raw.tool \in ModeTools[raw.mode] \ {"create_transaction"}
    BY <1>4, <1>8
  <1>9. ASSUME NEW q \in {agent.question, mcp.question} \ {None}, "range" \in DOMAIN q
        PROVE  Length(q.range) \in 1..(MaxDays + 1)
    <2>1. CASE q = agent.question
      <3>1. AgentAccepts /\ raw.tool # "create_transaction" /\ q = AgentQuestion
        BY <1>4, <1>9, <2>1
      <3>2. PeriodsAccepted /\ Keys[raw.tool] # {}
        BY <3>1 DEF AgentAccepts
      <3> QED BY <1>1, <1>3, <1>9, <3>1, <3>2, RangesAreBounded
    <2>2. CASE q = mcp.question
      <3>1. raw.tool \in Shared /\ McpAccepts /\ q = McpQuestion
        BY <1>5, <1>9, <2>2
      <3>2. q = AgentQuestion
        BY <3>1, ParsersAgree
      <3>3. PeriodsAccepted /\ Keys[raw.tool] # {} /\ raw.tool # "create_transaction"
        BY <3>1 DEF McpAccepts, Shared, Keys
      <3> QED BY <1>1, <1>3, <1>9, <3>2, <3>3, RangesAreBounded
    <2> QED BY <1>9, <2>1, <2>2
  <1>10. ASSUME agent.question # None, agent.envelope.ok, raw.tool \in {"search_transactions",
                "compare_periods", "detect_outliers", "get_budget_status", "search_documents"},
                agent.envelope.count < reply.lines
         PROVE  agent.envelope.truncated
    <2>1. agent.envelope = Told(raw.tool)
      BY <1>4, <1>10
    <2>2. reply.code = "ok"
      <3>1. SUFFICES ASSUME reply.code # "ok" PROVE Told(raw.tool).ok = FALSE
        BY <1>10, <2>1
      <3> QED BY <3>1 DEF Told, Failure
    <2>3. PICK cap \in Nat : Told(raw.tool) = Rows(cap)
      <3>1. CASE raw.tool = "compare_periods"
        <4>1. Told(raw.tool) = Rows(MaxChanges)
          BY <2>2, <3>1 DEF Told
        <4> QED BY <3>1, <4>1, ArgAssumption
      <3>2. CASE raw.tool # "compare_periods"
        <4>1. Told(raw.tool) = Rows(reply.lines)
          BY <1>10, <2>2, <3>2 DEF Told
        <4> QED BY <1>3, <4>1
      <3> QED BY <3>1, <3>2
    <2> QED BY <1>3, <1>10, <2>1, <2>3, CutLinesAreTold
  <1> QED BY <1>2, <1>6, <1>7, <1>8, <1>9, <1>10 DEF SharedToolsAgree

\* The agent and mcp_server ask the same of the api for the same arguments and say the same of
\* its given, whatever the model writes (RunTool, CallTool, the two parsers).
THEOREM SharedToolsKeepAgreeing == ArgSpec => []SharedToolsAgree
  BY ArgInvariant, CallsAgree, PTL

=============================================================================
