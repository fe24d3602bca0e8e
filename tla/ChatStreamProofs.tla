-------------------------- MODULE ChatStreamProofs --------------------------
(* Theorems about QueryLoop, and about ChatStream that extends it, for every *)
(* value of their constants.                                                 *)
EXTENDS ChatStream, NumberFacts, SequenceTheorems

-----------------------------------------------------------------------------
(* The query loop *)

\* What has been paid for: a malformed reply is on no book, and a second one is the end.
BooksKept ==
    /\ calls <= MaxSteps
    /\ cost < MaxCost + MaxPrice
    /\ ~malformed => spent = cost
    /\ pc # "end" => spent <= cost + MaxPrice
    /\ spent <= cost + 2 * MaxPrice
    /\ malformed => calls >= 1

\* The time n calls of a reply can take, and that of n tries with the pause after each.
TimeOf(n) == CallTicks * n
Tried(n) == n * (TryTicks + 1)

\* How late it can be with so many calls of the reply left, each of which is tried three times.
TimeKept ==
    /\ pc = "start" => elapsed = 0
    /\ pc = "calls" => elapsed + TimeOf(Len(todo)) <= WallSeconds + TimeOf(Width)
    /\ pc = "tool" => elapsed + TimeOf(Len(todo)) <= WallSeconds + TimeOf(Width) + Tried(tries)
    /\ elapsed <= WallSeconds + TimeOf(Width)

\* How long nothing can have been yielded at each place.
QuietKept ==
    /\ pc = "start" => quiet = 0
    /\ pc = "look" => quiet <= CallTicks + 1 /\ (~malformed => quiet <= CallTicks)
    /\ pc = "calls" /\ todo = <<>> => quiet <= CallTicks
    /\ pc = "tool" => quiet <= Tried(tries)
    /\ quiet <= CallTicks + 2

\* The calls asked for are seen, and have a step once they have run.
StepsKept ==
    /\ pc \in {"start", "look"} => todo = <<>>
    /\ pc = "tool" => Head(todo) \in seen
    /\ \A s \in steps : s.asked \in seen
    /\ IsFiniteSet(steps)

\* Which reasons there can be at each place, and what each of them says of the steps.
ReasonKept ==
    /\ pc \in {"start", "look"} => stop = None
    /\ pc \in {"calls", "tool"} => stop \in {None, "tool_failed"}
    /\ \A t \in Tools : Failures(steps, t) > Fixes => stop \in {"tool_failed", "repeated"}
    /\ stop = "tool_failed" => \E t \in Tools : Failures(steps, t) > Fixes
    /\ stop = "repeated" => todo # <<>> /\ Head(todo) \in seen
    /\ stop \in Limits \cup {"answered", "malformed"} => todo = <<>>
    /\ stop = "malformed" => malformed /\ calls >= 2

Inductive == LoopTypeOK /\ BooksKept /\ TimeKept /\ QuietKept /\ StepsKept /\ ReasonKept

-----------------------------------------------------------------------------
(* Facts about replies and steps *)

\* What the calls and the tries take, without the products.
LEMMA TimeFacts ==
    /\ TryTicks \in Nat /\ TryTicks >= 1
    /\ CallTicks \in Nat /\ CallTicks = 3 * TryTicks + 2
    /\ \A n \in Nat : TimeOf(n) \in Nat /\ (n >= 1 => TimeOf(n) = TimeOf(n - 1) + CallTicks)
    /\ \A m, n \in Nat : m <= n => TimeOf(m) <= TimeOf(n)
    /\ Tried(0) = 0 /\ Tried(1) = TryTicks + 1 /\ Tried(2) = 2 * TryTicks + 2
  <1>1. TryTicks \in Nat /\ TryTicks >= 1
    BY LimitAssumption
  <1>2. CallTicks \in Nat /\ CallTicks = 3 * TryTicks + 2
    BY <1>1 DEF CallTicks, ServerRetries
  <1>3. PICK t \in Nat : t = CallTicks
    BY <1>2
  <1>4. \A n \in Nat : TimeOf(n) = t * n
    BY <1>3 DEF TimeOf
  <1>5. \A n \in Nat : t * n \in Nat /\ (n >= 1 => t * n = t * (n - 1) + t)
    BY <1>3
  <1>6. ASSUME NEW m \in Nat, NEW n \in Nat, m <= n
        PROVE  TimeOf(m) <= TimeOf(n)
    <2>1. PICK k \in Nat : n = m + k
      <3>1. n - m \in Nat /\ n = m + (n - m)
        BY <1>6
      <3> QED BY <3>1
    <2>2. t * n = t * m + t * k /\ t * k \in Nat /\ t * m \in Nat
      BY <1>3, <2>1
    <2> QED BY <1>4, <2>2
  <1>7. \A n \in Nat : n >= 1 => n - 1 \in Nat
    OBVIOUS
  <1>8. \A n \in Nat : TimeOf(n) \in Nat /\ (n >= 1 => TimeOf(n) = TimeOf(n - 1) + CallTicks)
    BY <1>3, <1>4, <1>5, <1>7
  <1>9. Tried(0) = 0 /\ Tried(1) = TryTicks + 1 /\ Tried(2) = 2 * TryTicks + 2
    BY <1>1 DEF Tried
  <1> QED BY <1>1, <1>2, <1>6, <1>8, <1>9

\* A reply has a call, and not more than Width of them.
LEMMA ReplyFacts ==
    ASSUME NEW reply \in Reply
    PROVE  reply \in Seq(Calls) /\ Len(reply) \in 1..Width
  <1>1. PICK n \in 1..Width : reply \in [1..n -> Calls]
    BY DEF Reply
  <1>2. n \in Nat
    BY <1>1, LimitAssumption
  <1>3. reply \in Seq(Calls) /\ Len(reply) = n
    BY <1>1, <1>2
  <1> QED BY <1>1, <1>3

\* The calls that are left when the first one is done.
LEMMA TodoFacts ==
    ASSUME LoopTypeOK, todo # <<>>
    PROVE  /\ Head(todo) \in Calls /\ Tail(todo) \in Seq(Calls)
           /\ Len(todo) \in 1..Width /\ Len(Tail(todo)) = Len(todo) - 1
  <1>1. todo \in Seq(Calls) /\ Len(todo) <= Width
    BY DEF LoopTypeOK
  <1>2. Len(todo) \in Nat /\ Len(todo) # 0
    BY <1>1
  <1> QED BY <1>1, <1>2, LimitAssumption

\* What the dictionary makes of a call is a call of the same tool.
LEMMA CheckedFacts ==
    ASSUME NEW c \in Calls, Checked[c] # None
    PROVE  Checked[c] \in Calls
  BY CallAssumption

\* More steps have as many failures of a tool, or more; and the same ones when the step that is
\* added is no failure of it.
LEMMA FailuresGrow ==
    ASSUME NEW ss, IsFiniteSet(ss), NEW s, NEW t
    PROVE  /\ Failures(ss, t) \in Nat /\ Failures(ss \cup {s}, t) \in Nat
           /\ Failures(ss, t) <= Failures(ss \cup {s}, t)
           /\ ~(ToolOf[s.asked] = t /\ s.code = "validation_error")
                 => Failures(ss \cup {s}, t) = Failures(ss, t)
  <1> DEFINE Bad(x) == ToolOf[x.asked] = t /\ x.code = "validation_error"
             old == {x \in ss : Bad(x)}
             new == {x \in ss \cup {s} : Bad(x)}
  <1>1. IsFiniteSet(ss \cup {s})
    BY FS_AddElement
  <1>2. new \in SUBSET (ss \cup {s}) /\ old \in SUBSET new
    OBVIOUS
  <1>3. IsFiniteSet(new)
    BY <1>1, <1>2, FS_Subset
  <1>4. IsFiniteSet(old) /\ Cardinality(old) <= Cardinality(new)
    BY <1>2, <1>3, FS_Subset
  <1>5. Cardinality(old) \in Nat /\ Cardinality(new) \in Nat
    BY <1>3, <1>4, FS_CardinalityType
  <1>6. ~Bad(s) => new = old
    OBVIOUS
  <1> HIDE DEF Bad
  <1>7. Failures(ss, t) = Cardinality(old) /\ Failures(ss \cup {s}, t) = Cardinality(new)
    BY DEF Failures, Bad
  <1>8. ~Bad(s) => Failures(ss \cup {s}, t) = Failures(ss, t)
    BY <1>6, <1>7
  <1> QED BY <1>4, <1>5, <1>7, <1>8 DEF Bad

\* A call after which no limit holds it back.
LEMMA NoLimit ==
    ASSUME LoopTypeOK, Limit = None
    PROVE  calls < MaxSteps /\ cost < MaxCost /\ elapsed < WallSeconds
  <1>1. {calls, cost, elapsed} \subseteq Nat
    BY DEF LoopTypeOK
  <1>2. None \notin Limits
    BY CallAssumption DEF StopReason
  <1> QED BY <1>1, <1>2, LimitAssumption DEF Limit, Limits

-----------------------------------------------------------------------------
(* Types *)

\* A run that begins is in its types and has nothing on its books.
LEMMA InitInductive == Init => Inductive
  <1> SUFFICES ASSUME Init PROVE Inductive
    OBVIOUS
  <1> USE LimitAssumption
  <1>1. LoopTypeOK
    <2>1. todo \in Seq(Calls) /\ Len(todo) = 0
      BY DEF Init
    <2>2. {calls, cost, spent, elapsed, quiet} \subseteq Nat /\ tries \in 0..ServerRetries
      BY DEF Init, ServerRetries
    <2>3. seen \subseteq Calls /\ steps \subseteq Step
      BY DEF Init
    <2>4. pc = "start" /\ malformed \in BOOLEAN /\ stop \in StopReason \cup {None}
      BY DEF Init
    <2>5. 0 <= Width
      OBVIOUS
    <2> QED BY <2>1, <2>2, <2>3, <2>4, <2>5 DEF LoopTypeOK
  <1>2. BooksKept
    BY DEF Init, BooksKept
  <1>0. TimeOf(Width) \in Nat /\ WallSeconds \in Nat /\ Width \in Nat /\ CallTicks \in Nat
    BY TimeFacts
  <1>3. TimeKept
    BY <1>0 DEF Init, TimeKept
  <1>4. QuietKept
    BY TimeFacts DEF Init, QuietKept
  <1>5. StepsKept
    BY FS_EmptySet DEF Init, StepsKept
  <1>6. \A t : Failures({}, t) = 0
    <2> SUFFICES ASSUME NEW t PROVE Failures({}, t) = 0
      OBVIOUS
    <2>1. {s \in {} : ToolOf[s.asked] = t /\ s.code = "validation_error"} = {}
      OBVIOUS
    <2> QED BY <2>1, FS_EmptySet DEF Failures
  <1>7. None \notin StopReason
    BY CallAssumption
  <1>8. ReasonKept
    BY <1>6, <1>7 DEF Init, ReasonKept, StopReason, Fixes, Limits
  <1> QED BY <1>1, <1>2, <1>3, <1>4, <1>5, <1>8 DEF Inductive

-----------------------------------------------------------------------------
(* The books and the clocks *)

\* No step pays more than a reply costs, and none is made past the steps and the cost there are.
LEMMA BooksStep == LoopTypeOK /\ BooksKept /\ [Next]_vars => BooksKept'
  <1> SUFFICES ASSUME LoopTypeOK /\ BooksKept, [Next]_vars PROVE BooksKept'
    OBVIOUS
  <1> USE LimitAssumption
  <1>0. {calls, cost, spent} \subseteq Nat /\ malformed \in BOOLEAN
    BY DEF LoopTypeOK
  <1>1. ASSUME NEW d \in Ticks, ReadDictionary(d) PROVE BooksKept'
    BY <1>0, <1>1 DEF ReadDictionary, BooksKept, Takes, Finish, budget
  <1>2. ASSUME NEW d \in Ticks, ModelDown(d) PROVE BooksKept'
    BY <1>0, <1>2 DEF ModelDown, BooksKept, Takes, Finish, budget
  <1>3. ASSUME NEW d \in 0..(TryTicks + 1), RetryTool(d) PROVE BooksKept'
    BY <1>0, <1>3 DEF RetryTool, BooksKept, Takes, budget
  <1>4. ASSUME NEW d \in Ticks, NEW p \in 0..MaxPrice, ModelMalformed(d, p) PROVE BooksKept'
    BY <1>0, <1>4, NoLimit DEF ModelMalformed, BooksKept, Takes, Finish
  <1>5. ASSUME NEW d \in Ticks, NEW p \in 0..MaxPrice, ModelAnswers(d, p) PROVE BooksKept'
    BY <1>0, <1>5, NoLimit DEF ModelAnswers, Counted, BooksKept, Takes, Finish
  <1>6. ASSUME NEW d \in Ticks, NEW p \in 0..MaxPrice, NEW reply \in Reply, ModelCalls(d, p, reply) PROVE BooksKept'
    BY <1>0, <1>6, NoLimit DEF ModelCalls, Counted, BooksKept, Takes
  <1>7. ASSUME NEW d \in 0..TryTicks, NEW code \in Code, ToolAnswers(d, code) PROVE BooksKept'
    BY <1>0, <1>7 DEF ToolAnswers, BooksKept, Takes, Observe, budget
  <1>8. CASE StopAtLimit
    BY <1>0, <1>8 DEF StopAtLimit, BooksKept, Finish, budget
  <1>9. CASE Repeated
    BY <1>0, <1>9 DEF Repeated, BooksKept, Finish, budget
  <1>10. CASE StartTool
    BY <1>0, <1>10 DEF StartTool, BooksKept, Yields, budget
  <1>11. CASE EndReply
    BY <1>0, <1>11 DEF EndReply, BooksKept, budget
  <1>12. CASE RefuseCategory
    BY <1>0, <1>12 DEF RefuseCategory, BooksKept, Observe, budget
  <1>13. CASE UNCHANGED vars
    BY <1>13 DEF vars, BooksKept, budget
  <1> QED BY <1>1, <1>2, <1>3, <1>4, <1>5, <1>6, <1>7, <1>8, <1>9, <1>10, <1>11, <1>12, <1>13 DEF Next

\* Every step keeps the types.
LEMMA TypesStep == LoopTypeOK /\ [Next]_vars => LoopTypeOK'
  <1> SUFFICES ASSUME LoopTypeOK, [Next]_vars PROVE LoopTypeOK'
    OBVIOUS
  <1> USE LimitAssumption
  <1>0. /\ {calls, cost, spent, elapsed, quiet} \subseteq Nat /\ tries \in 0..ServerRetries
        /\ malformed \in BOOLEAN /\ seen \subseteq Calls /\ steps \subseteq Step
        /\ todo \in Seq(Calls) /\ Len(todo) <= Width /\ stop \in StopReason \cup {None}
        /\ pc \in {"start", "look", "calls", "tool", "end"} /\ (pc = "tool" => todo # <<>>)
    BY DEF LoopTypeOK
  <1>1. ASSUME NEW d \in Ticks, ReadDictionary(d)
       PROVE  LoopTypeOK'
    <2>1. {calls, cost, spent, elapsed, quiet}' \subseteq Nat
      <3>1. calls' = calls /\ cost' = cost /\ spent' = spent
        BY <1>1 DEF ReadDictionary, budget
      <3>2. elapsed' = elapsed + d /\ quiet' = quiet + d /\ d \in Nat
        BY <1>1 DEF ReadDictionary, Takes, Ticks
      <3> QED BY <1>0, <3>1, <3>2, SMTT(40)
    <2>2. tries' \in 0..ServerRetries /\ malformed' \in BOOLEAN
      BY <1>0, <1>1 DEF ReadDictionary, Takes, Finish, budget, conversation
    <2>3. seen' \subseteq Calls /\ steps' \subseteq Step
      BY <1>0, <1>1 DEF ReadDictionary, Takes, Finish, budget, conversation
    <2>4. todo' \in Seq(Calls) /\ Len(todo') <= Width
      BY <1>0, <1>1 DEF ReadDictionary, Takes, Finish, budget, conversation
    <2>5. /\ pc' \in {"start", "look", "calls", "tool", "end"} /\ (pc' = "tool" => todo' # <<>>)
          /\ stop' \in StopReason \cup {None}
      BY <1>0, <1>1 DEF ReadDictionary, StopReason, Limits, Takes, Finish, budget, conversation
    <2> QED BY <2>1, <2>2, <2>3, <2>4, <2>5 DEF LoopTypeOK
  <1>2. ASSUME NEW d \in Ticks, ModelDown(d)
       PROVE  LoopTypeOK'
    <2>1. {calls, cost, spent, elapsed, quiet}' \subseteq Nat
      <3>1. calls' = calls /\ cost' = cost /\ spent' = spent
        BY <1>2 DEF ModelDown, budget
      <3>2. elapsed' = elapsed + d /\ quiet' = quiet + d /\ d \in Nat
        BY <1>2 DEF ModelDown, Takes, Ticks
      <3> QED BY <1>0, <3>1, <3>2, SMTT(40)
    <2>2. tries' \in 0..ServerRetries /\ malformed' \in BOOLEAN
      BY <1>0, <1>2 DEF ModelDown, Takes, Finish, budget, conversation
    <2>3. seen' \subseteq Calls /\ steps' \subseteq Step
      BY <1>0, <1>2 DEF ModelDown, Takes, Finish, budget, conversation
    <2>4. todo' \in Seq(Calls) /\ Len(todo') <= Width
      BY <1>0, <1>2 DEF ModelDown, Takes, Finish, budget, conversation
    <2>5. /\ pc' \in {"start", "look", "calls", "tool", "end"} /\ (pc' = "tool" => todo' # <<>>)
          /\ stop' \in StopReason \cup {None}
      BY <1>0, <1>2 DEF ModelDown, StopReason, Limits, Limit, Takes, Finish, budget, conversation
    <2> QED BY <2>1, <2>2, <2>3, <2>4, <2>5 DEF LoopTypeOK
  <1>3. ASSUME NEW d \in 0..(TryTicks + 1), RetryTool(d)
       PROVE  LoopTypeOK'
    <2>1. {calls, cost, spent, elapsed, quiet}' \subseteq Nat
      <3>1. calls' = calls /\ cost' = cost /\ spent' = spent
        BY <1>3 DEF RetryTool, budget
      <3>2. elapsed' = elapsed + d /\ quiet' = quiet + d /\ d \in Nat
        BY <1>3, TimeFacts DEF RetryTool, Takes
      <3> QED BY <1>0, <3>1, <3>2, SMTT(40)
    <2>2. tries' \in 0..ServerRetries /\ malformed' \in BOOLEAN
      BY <1>0, <1>3 DEF RetryTool, Retryable, ServerRetries, Takes, budget
    <2>3. seen' \subseteq Calls /\ steps' \subseteq Step
      BY <1>0, <1>3 DEF RetryTool, Takes, budget
    <2>4. todo' \in Seq(Calls) /\ Len(todo') <= Width
      BY <1>0, <1>3 DEF RetryTool, Takes, budget
    <2>5. /\ pc' \in {"start", "look", "calls", "tool", "end"} /\ (pc' = "tool" => todo' # <<>>)
          /\ stop' \in StopReason \cup {None}
      BY <1>0, <1>3 DEF RetryTool, StopReason, Limits, Takes, budget
    <2> QED BY <2>1, <2>2, <2>3, <2>4, <2>5 DEF LoopTypeOK
  <1>4. ASSUME NEW d \in Ticks, NEW p \in 0..MaxPrice, ModelMalformed(d, p)
       PROVE  LoopTypeOK'
    <2>1. {calls, cost, spent, elapsed, quiet}' \subseteq Nat
      <3>1. d \in Nat /\ p \in Nat /\ {calls, cost, spent, elapsed, quiet} \subseteq Nat
        BY <1>0 DEF Ticks
      <3>2. calls' = calls + 1 /\ cost' = cost /\ spent' = spent + p
        BY <1>4 DEF ModelMalformed
      <3>3. elapsed' = elapsed + d /\ quiet' = quiet + d
        BY <1>4 DEF ModelMalformed, Takes
      <3> QED BY <3>1, <3>2, <3>3
    <2>2. tries' \in 0..ServerRetries /\ malformed' \in BOOLEAN
      BY <1>0, <1>4 DEF ModelMalformed, Takes, Finish, conversation
    <2>3. seen' \subseteq Calls /\ steps' \subseteq Step
      BY <1>0, <1>4 DEF ModelMalformed, Takes, Finish, conversation
    <2>4. todo' \in Seq(Calls) /\ Len(todo') <= Width
      BY <1>0, <1>4 DEF ModelMalformed, Takes, Finish, conversation
    <2>5. /\ pc' \in {"start", "look", "calls", "tool", "end"} /\ (pc' = "tool" => todo' # <<>>)
          /\ stop' \in StopReason \cup {None}
      BY <1>0, <1>4 DEF ModelMalformed, StopReason, Limits, Takes, Finish, conversation
    <2> QED BY <2>1, <2>2, <2>3, <2>4, <2>5 DEF LoopTypeOK
  <1>5. ASSUME NEW d \in Ticks, NEW p \in 0..MaxPrice, ModelAnswers(d, p)
       PROVE  LoopTypeOK'
    <2>1. {calls, cost, spent, elapsed, quiet}' \subseteq Nat
      <3>1. d \in Nat /\ p \in Nat /\ {calls, cost, spent, elapsed, quiet} \subseteq Nat
        BY <1>0 DEF Ticks
      <3>2. calls' = calls + 1 /\ cost' = cost + p /\ spent' = spent + p
        BY <1>5 DEF ModelAnswers, Counted
      <3>3. elapsed' = elapsed + d /\ quiet' = quiet + d
        BY <1>5 DEF ModelAnswers, Counted, Takes
      <3> QED BY <3>1, <3>2, <3>3
    <2>2. tries' \in 0..ServerRetries /\ malformed' \in BOOLEAN
      BY <1>0, <1>5 DEF ModelAnswers, Counted, Takes, Finish, conversation
    <2>3. seen' \subseteq Calls /\ steps' \subseteq Step
      BY <1>0, <1>5 DEF ModelAnswers, Takes, Finish, conversation
    <2>4. todo' \in Seq(Calls) /\ Len(todo') <= Width
      BY <1>0, <1>5 DEF ModelAnswers, Takes, Finish, conversation
    <2>5. /\ pc' \in {"start", "look", "calls", "tool", "end"} /\ (pc' = "tool" => todo' # <<>>)
          /\ stop' \in StopReason \cup {None}
      BY <1>0, <1>5 DEF ModelAnswers, Counted, StopReason, Limits, Takes, Finish, conversation
    <2> QED BY <2>1, <2>2, <2>3, <2>4, <2>5 DEF LoopTypeOK
  <1>6. ASSUME NEW d \in Ticks, NEW p \in 0..MaxPrice, NEW reply \in Reply,
               ModelCalls(d, p, reply)
       PROVE  LoopTypeOK'
    <2>1. {calls, cost, spent, elapsed, quiet}' \subseteq Nat
      <3>1. d \in Nat /\ p \in Nat /\ {calls, cost, spent, elapsed, quiet} \subseteq Nat
        BY <1>0 DEF Ticks
      <3>2. calls' = calls + 1 /\ cost' = cost + p /\ spent' = spent + p
        BY <1>6 DEF ModelCalls, Counted
      <3>3. elapsed' = elapsed + d /\ quiet' = quiet + d
        BY <1>6 DEF ModelCalls, Counted, Takes
      <3> QED BY <3>1, <3>2, <3>3
    <2>2. tries' \in 0..ServerRetries /\ malformed' \in BOOLEAN
      BY <1>0, <1>6 DEF ModelCalls, Counted, Takes
    <2>3. seen' \subseteq Calls /\ steps' \subseteq Step
      BY <1>0, <1>6 DEF ModelCalls, Takes
    <2>4. todo' \in Seq(Calls) /\ Len(todo') <= Width
      BY <1>0, <1>6, ReplyFacts DEF ModelCalls, Takes
    <2>5. /\ pc' \in {"start", "look", "calls", "tool", "end"} /\ (pc' = "tool" => todo' # <<>>)
          /\ stop' \in StopReason \cup {None}
      BY <1>0, <1>6 DEF ModelCalls, Counted, StopReason, Limits, Takes
    <2> QED BY <2>1, <2>2, <2>3, <2>4, <2>5 DEF LoopTypeOK
  <1>7. ASSUME NEW d \in 0..TryTicks, NEW code \in Code, ToolAnswers(d, code)
       PROVE  LoopTypeOK'
    <2>1. todo # <<>> /\ Observe(Checked[Head(todo)], code)
      BY <1>0, <1>7 DEF ToolAnswers
    <2>2. /\ Head(todo) \in Calls /\ Tail(todo) \in Seq(Calls)
          /\ Len(todo) \in 1..Width /\ Len(Tail(todo)) = Len(todo) - 1
      BY <2>1, TodoFacts
    <2>3. Checked[Head(todo)] \in Calls /\ code \in Code
      BY <1>7, <2>2, CheckedFacts DEF ToolAnswers, Code
    <2>4. elapsed' \in Nat /\ quiet' \in Nat
      <3>1. elapsed \in Nat /\ quiet \in Nat
        BY <1>0
      <3>2. elapsed' = elapsed + (IF ReachesApi(Checked[Head(todo)]) THEN d ELSE 0)
        BY <1>7 DEF ToolAnswers, Takes
      <3>3. quiet' = quiet + (IF ReachesApi(Checked[Head(todo)]) THEN d ELSE 0)
        BY <1>7 DEF ToolAnswers, Takes
      <3>4. d \in Nat
        BY TimeFacts
      <3> QED BY <3>1, <3>2, <3>3, <3>4
    <2>5. {calls, cost, spent, elapsed, quiet}' \subseteq Nat
      BY <1>0, <2>1, <2>4 DEF Observe, budget
    <2>6. tries' \in 0..ServerRetries /\ malformed' \in BOOLEAN /\ seen' \subseteq Calls
      BY <1>0, <2>1 DEF Observe
    <2>7. [asked |-> Head(todo), ran |-> Checked[Head(todo)], code |-> code] \in Step
      BY <2>2, <2>3 DEF Step
    <2>8. steps' \subseteq Step
      BY <1>0, <2>1, <2>7 DEF Observe
    <2>9. todo' \in Seq(Calls) /\ Len(todo') <= Width
      BY <2>1, <2>2 DEF Observe
    <2>10. stop' \in StopReason \cup {None} /\ pc' = "calls"
      BY <1>0, <2>1 DEF Observe, StopReason
    <2> QED BY <2>5, <2>6, <2>8, <2>9, <2>10 DEF LoopTypeOK
  <1>8. CASE StopAtLimit
    <2>1. {calls, cost, spent, elapsed, quiet}' \subseteq Nat
      BY <1>0, <1>8 DEF StopAtLimit, Finish, budget, conversation
    <2>2. tries' \in 0..ServerRetries /\ malformed' \in BOOLEAN
      BY <1>0, <1>8 DEF StopAtLimit, Finish, budget, conversation
    <2>3. seen' \subseteq Calls /\ steps' \subseteq Step
      BY <1>0, <1>8 DEF StopAtLimit, Finish, budget, conversation
    <2>4. todo' \in Seq(Calls) /\ Len(todo') <= Width
      BY <1>0, <1>8 DEF StopAtLimit, Finish, budget, conversation
    <2>5. /\ pc' \in {"start", "look", "calls", "tool", "end"} /\ (pc' = "tool" => todo' # <<>>)
          /\ stop' \in StopReason \cup {None}
      BY <1>0, <1>8 DEF StopAtLimit, StopReason, Limits, Limit, Finish, budget, conversation
    <2> QED BY <2>1, <2>2, <2>3, <2>4, <2>5 DEF LoopTypeOK
  <1>9. CASE Repeated
    <2>1. {calls, cost, spent, elapsed, quiet}' \subseteq Nat
      BY <1>0, <1>9 DEF Repeated, Finish, budget, conversation
    <2>2. tries' \in 0..ServerRetries /\ malformed' \in BOOLEAN
      BY <1>0, <1>9 DEF Repeated, Finish, budget, conversation
    <2>3. seen' \subseteq Calls /\ steps' \subseteq Step
      BY <1>0, <1>9 DEF Repeated, Finish, budget, conversation
    <2>4. todo' \in Seq(Calls) /\ Len(todo') <= Width
      BY <1>0, <1>9 DEF Repeated, Finish, budget, conversation
    <2>5. /\ pc' \in {"start", "look", "calls", "tool", "end"} /\ (pc' = "tool" => todo' # <<>>)
          /\ stop' \in StopReason \cup {None}
      BY <1>0, <1>9 DEF Repeated, StopReason, Limits, Finish, budget, conversation
    <2> QED BY <2>1, <2>2, <2>3, <2>4, <2>5 DEF LoopTypeOK
  <1>10. CASE StartTool
    <2>1. {calls, cost, spent, elapsed, quiet}' \subseteq Nat
      <3>1. calls' = calls /\ cost' = cost /\ spent' = spent /\ elapsed' = elapsed /\ quiet' = 0
        BY <1>10 DEF StartTool, Yields, budget
      <3> QED BY <1>0, <3>1
    <2>2. tries' \in 0..ServerRetries /\ malformed' \in BOOLEAN
      BY <1>0, <1>10 DEF StartTool, ServerRetries, Yields, budget
    <2>3. seen' \subseteq Calls /\ steps' \subseteq Step
      BY <1>0, <1>10, TodoFacts DEF StartTool, Yields, budget
    <2>4. todo' \in Seq(Calls) /\ Len(todo') <= Width
      BY <1>0, <1>10 DEF StartTool, Yields, budget
    <2>5. /\ pc' \in {"start", "look", "calls", "tool", "end"} /\ (pc' = "tool" => todo' # <<>>)
          /\ stop' \in StopReason \cup {None}
      BY <1>0, <1>10 DEF StartTool, StopReason, Limits, Yields, budget
    <2> QED BY <2>1, <2>2, <2>3, <2>4, <2>5 DEF LoopTypeOK
  <1>11. CASE EndReply
    <2>1. {calls, cost, spent, elapsed, quiet}' \subseteq Nat
      BY <1>0, <1>11 DEF EndReply, budget, conversation
    <2>2. tries' \in 0..ServerRetries /\ malformed' \in BOOLEAN
      BY <1>0, <1>11 DEF EndReply, budget, conversation
    <2>3. seen' \subseteq Calls /\ steps' \subseteq Step
      BY <1>0, <1>11 DEF EndReply, budget, conversation
    <2>4. todo' \in Seq(Calls) /\ Len(todo') <= Width
      BY <1>0, <1>11 DEF EndReply, budget, conversation
    <2>5. /\ pc' \in {"start", "look", "calls", "tool", "end"} /\ (pc' = "tool" => todo' # <<>>)
          /\ stop' \in StopReason \cup {None}
      BY <1>0, <1>11 DEF EndReply, StopReason, Limits, budget, conversation
    <2> QED BY <2>1, <2>2, <2>3, <2>4, <2>5 DEF LoopTypeOK
  <1>12. CASE RefuseCategory
    <2>1. todo # <<>> /\ Observe(Head(todo), "validation_error")
      BY <1>0, <1>12 DEF RefuseCategory
    <2>2. /\ Head(todo) \in Calls /\ Tail(todo) \in Seq(Calls)
          /\ Len(todo) \in 1..Width /\ Len(Tail(todo)) = Len(todo) - 1
      BY <2>1, TodoFacts
    <2>3. Head(todo) \in Calls /\ "validation_error" \in Code
      BY <1>12, <2>2, CheckedFacts DEF RefuseCategory, Code
    <2>4. elapsed' \in Nat /\ quiet' \in Nat
      BY <1>0, <1>12 DEF RefuseCategory
    <2>5. {calls, cost, spent, elapsed, quiet}' \subseteq Nat
      BY <1>0, <2>1, <2>4 DEF Observe, budget
    <2>6. tries' \in 0..ServerRetries /\ malformed' \in BOOLEAN /\ seen' \subseteq Calls
      BY <1>0, <2>1 DEF Observe
    <2>7. [asked |-> Head(todo), ran |-> Head(todo), code |-> "validation_error"] \in Step
      BY <2>2, <2>3 DEF Step
    <2>8. steps' \subseteq Step
      BY <1>0, <2>1, <2>7 DEF Observe
    <2>9. todo' \in Seq(Calls) /\ Len(todo') <= Width
      BY <2>1, <2>2 DEF Observe
    <2>10. stop' \in StopReason \cup {None} /\ pc' = "calls"
      BY <1>0, <2>1 DEF Observe, StopReason
    <2> QED BY <2>5, <2>6, <2>8, <2>9, <2>10 DEF LoopTypeOK
  <1>13. CASE UNCHANGED vars
    <2>1. {calls, cost, spent, elapsed, quiet}' \subseteq Nat
      BY <1>0, <1>13 DEF vars, budget, conversation
    <2>2. tries' \in 0..ServerRetries /\ malformed' \in BOOLEAN
      BY <1>0, <1>13 DEF vars, budget, conversation
    <2>3. seen' \subseteq Calls /\ steps' \subseteq Step
      BY <1>0, <1>13 DEF vars, budget, conversation
    <2>4. todo' \in Seq(Calls) /\ Len(todo') <= Width
      BY <1>0, <1>13 DEF vars, budget, conversation
    <2>5. /\ pc' \in {"start", "look", "calls", "tool", "end"} /\ (pc' = "tool" => todo' # <<>>)
          /\ stop' \in StopReason \cup {None}
      BY <1>0, <1>13 DEF vars, StopReason, Limits, budget, conversation
    <2> QED BY <2>1, <2>2, <2>3, <2>4, <2>5 DEF LoopTypeOK
  <1> QED BY <1>1, <1>2, <1>3, <1>4, <1>5, <1>6, <1>7, <1>8, <1>9, <1>10, <1>11, <1>12, <1>13 DEF Next

-----------------------------------------------------------------------------
(* The clocks *)

\* Of the calls that are left each has its time.
LEMMA LeftFacts ==
    ASSUME NEW n \in 1..Width
    PROVE  /\ TimeOf(n) \in Nat /\ TimeOf(n - 1) \in Nat
           /\ TimeOf(n) = TimeOf(n - 1) + CallTicks /\ CallTicks <= TimeOf(n)
           /\ TimeOf(n) <= TimeOf(Width)
  <1>1. n \in Nat /\ n >= 1 /\ n - 1 \in Nat /\ Width \in Nat /\ n <= Width
    BY LimitAssumption
  <1>2. TimeOf(n) \in Nat /\ TimeOf(n - 1) \in Nat /\ TimeOf(n) = TimeOf(n - 1) + CallTicks
    BY <1>1, TimeFacts
  <1>3. TimeOf(n) <= TimeOf(Width)
    BY <1>1, TimeFacts
  <1> QED BY <1>2, <1>3, TimeFacts

\* However late it is, the calls that are left of the reply still fit.
LEMMA TimeStep == LoopTypeOK /\ TimeKept /\ [Next]_vars => TimeKept'
  <1> SUFFICES ASSUME LoopTypeOK /\ TimeKept, [Next]_vars PROVE TimeKept'
    OBVIOUS
  <1>0. /\ elapsed \in Nat /\ tries \in 0..2 /\ WallSeconds \in Nat /\ Width \in Nat /\ Width >= 1
        /\ TryTicks \in Nat /\ TryTicks >= 1 /\ CallTicks \in Nat /\ CallTicks = 3 * TryTicks + 2
        /\ TimeOf(Width) \in Nat /\ CallTicks <= TimeOf(Width)
        /\ Tried(0) = 0 /\ Tried(1) = TryTicks + 1 /\ Tried(2) = 2 * TryTicks + 2
    <2>1. /\ elapsed \in Nat /\ tries \in 0..2 /\ WallSeconds \in Nat /\ Width \in Nat
          /\ Width >= 1
      BY LimitAssumption DEF LoopTypeOK, ServerRetries
    <2>2. TimeOf(Width) = TimeOf(Width - 1) + CallTicks /\ TimeOf(Width - 1) \in Nat
      BY <2>1, TimeFacts
    <2> QED BY <2>1, <2>2, TimeFacts
  <1>1. ASSUME NEW d \in Ticks, ReadDictionary(d)
       PROVE  TimeKept'
    <2>1. /\ elapsed = 0 /\ elapsed' = elapsed + d /\ d \in 0..1 /\ pc' \in {"look", "end"}
      BY <1>1 DEF ReadDictionary, TimeKept, Takes, Finish, Ticks
    <2> QED BY <1>0, <2>1 DEF TimeKept
  <1>2. ASSUME NEW d \in Ticks, ModelDown(d)
       PROVE  TimeKept'
    BY <1>0, <1>2, NoLimit DEF ModelDown, TimeKept, Takes, Finish, budget, conversation, Ticks
  <1>3. ASSUME NEW d \in 0..(TryTicks + 1), RetryTool(d)
       PROVE  TimeKept'
    <2>1. /\ pc = "tool" /\ pc' = "tool" /\ todo' = todo /\ tries' = tries + 1
          /\ elapsed' = elapsed + d /\ tries < 2 /\ todo # <<>>
      BY <1>3 DEF RetryTool, Retryable, ServerRetries, Takes, LoopTypeOK
    <2>2. /\ Len(todo) \in 1..Width /\ d \in 0..(TryTicks + 1)
          /\ TimeOf(Len(todo)) \in Nat /\ CallTicks <= TimeOf(Len(todo))
      BY <2>1, TodoFacts, LeftFacts
    <2>3. elapsed + TimeOf(Len(todo)) <= WallSeconds + TimeOf(Width) + Tried(tries)
      BY <2>1 DEF TimeKept
    <2>4. \/ tries = 0 /\ tries' = 1
          \/ tries = 1 /\ tries' = 2
      BY <1>0, <2>1
    <2>5. /\ Tried(tries') = Tried(tries) + TryTicks + 1 /\ Tried(tries') <= CallTicks
          /\ Tried(tries) \in Nat
      BY <1>0, <2>4
    <2>6. PICK late \in Nat : late = elapsed
      BY <1>0
    <2>7. PICK left \in Nat : left = TimeOf(Len(todo))
      BY <2>2
    <2>8. PICK used \in Nat : used = Tried(tries)
      BY <2>5
    <2>9. PICK whole \in Nat : whole = WallSeconds + TimeOf(Width)
      BY <1>0
    <2>10. late + left <= whole + used
      BY <2>3, <2>6, <2>7, <2>8, <2>9
    <2>11. late + d + left <= whole + (used + TryTicks + 1)
      BY <1>0, <2>2, <2>10
    <2>12. elapsed' + TimeOf(Len(todo)) <= WallSeconds + TimeOf(Width) + Tried(tries')
      BY <2>1, <2>5, <2>6, <2>7, <2>8, <2>9, <2>11
    <2>13. TryTicks \in Nat /\ CallTicks \in Nat
      BY <1>0
    <2>14. late + d <= whole
      <3>1. used + TryTicks + 1 <= CallTicks
        BY <2>5, <2>8
      <3>2. CallTicks <= left
        BY <2>2, <2>7
      <3> QED BY <2>2, <2>11, <2>13, <3>1, <3>2
    <2>15. elapsed' <= WallSeconds + TimeOf(Width)
      BY <2>1, <2>6, <2>9, <2>14
    <2> QED BY <2>1, <2>12, <2>15 DEF TimeKept
  <1>4. ASSUME NEW d \in Ticks, NEW p \in 0..MaxPrice, ModelMalformed(d, p)
       PROVE  TimeKept'
    <2>1. elapsed' = elapsed + d /\ pc' \in {"look", "end"}
      BY <1>4 DEF ModelMalformed, Finish, Takes
    <2>2. elapsed < WallSeconds
      BY <1>4, NoLimit DEF ModelMalformed, Finish
    <2>3. d \in 0..1
      BY DEF Ticks
    <2> QED BY <1>0, <2>1, <2>2, <2>3 DEF TimeKept
  <1>5. ASSUME NEW d \in Ticks, NEW p \in 0..MaxPrice, ModelAnswers(d, p)
       PROVE  TimeKept'
    <2>1. elapsed' = elapsed + d /\ pc' = "end"
      BY <1>5 DEF ModelAnswers, Counted, Finish, Takes
    <2>2. elapsed < WallSeconds
      BY <1>5, NoLimit DEF ModelAnswers, Counted, Finish
    <2>3. d \in 0..1
      BY DEF Ticks
    <2> QED BY <1>0, <2>1, <2>2, <2>3 DEF TimeKept
  <1>6. ASSUME NEW d \in Ticks, NEW p \in 0..MaxPrice, NEW reply \in Reply,
               ModelCalls(d, p, reply)
       PROVE  TimeKept'
    <2>1. elapsed' = elapsed + d /\ pc' = "calls"
      BY <1>6 DEF ModelCalls, Counted, Takes
    <2>2. elapsed < WallSeconds
      BY <1>6, NoLimit DEF ModelCalls, Counted
    <2>3. d \in 0..1
      BY DEF Ticks
    <2>4. Len(todo') \in 1..Width
      BY <1>6, ReplyFacts DEF ModelCalls
    <2>5. elapsed' <= WallSeconds /\ elapsed' \in Nat
      BY <1>0, <2>1, <2>2, <2>3
    <2>6. TimeOf(Len(todo')) <= TimeOf(Width) /\ TimeOf(Len(todo')) \in Nat
      BY <2>4, LeftFacts
    <2>7. PICK left \in Nat : left = TimeOf(Len(todo'))
      BY <2>6
    <2>8. PICK all \in Nat : all = TimeOf(Width)
      BY <1>0
    <2>9. left <= all
      BY <2>6, <2>7, <2>8
    <2>10. WallSeconds \in Nat
      BY <1>0
    <2>11. elapsed' + left <= WallSeconds + all /\ elapsed' <= WallSeconds + all
      BY ONLY <2>5, <2>7, <2>8, <2>9, <2>10
    <2> QED BY <2>1, <2>7, <2>8, <2>11 DEF TimeKept
  <1>7. ASSUME NEW d \in 0..TryTicks, NEW code \in Code, ToolAnswers(d, code)
       PROVE  TimeKept'
    <2>1. /\ todo # <<>> /\ pc = "tool" /\ pc' = "calls" /\ todo' = Tail(todo)
          /\ elapsed' = elapsed + (IF ReachesApi(Checked[Head(todo)]) THEN d ELSE 0)
      BY <1>7 DEF ToolAnswers, Observe, Takes, LoopTypeOK
    <2>2. PICK e \in 0..TryTicks : elapsed' = elapsed + e
      BY <1>0, <2>1
    <2>3. /\ Len(todo) \in 1..Width /\ Len(todo') = Len(todo) - 1
          /\ TimeOf(Len(todo)) = TimeOf(Len(todo')) + CallTicks /\ TimeOf(Len(todo')) \in Nat
      BY <2>1, TodoFacts, LeftFacts
    <2>4. elapsed + TimeOf(Len(todo)) <= WallSeconds + TimeOf(Width) + Tried(tries)
      BY <2>1 DEF TimeKept
    <2>5. Tried(tries) \in Nat /\ Tried(tries) <= 2 * TryTicks + 2
      BY <1>0
    <2>6. PICK late \in Nat : late = elapsed
      BY <1>0
    <2>7. PICK left \in Nat : left = TimeOf(Len(todo'))
      BY <2>3
    <2>8. PICK used \in Nat : used = Tried(tries)
      BY <2>5
    <2>9. PICK whole \in Nat : whole = WallSeconds + TimeOf(Width)
      BY <1>0
    <2>10. late + (left + CallTicks) <= whole + used
      BY <2>3, <2>4, <2>6, <2>7, <2>8, <2>9
    <2>11. e + used <= CallTicks
      BY <1>0, <2>5, <2>8
    <2>12. late + e + left <= whole
      BY <1>0, <2>10, <2>11
    <2>13. elapsed' + TimeOf(Len(todo')) <= WallSeconds + TimeOf(Width)
      BY <2>2, <2>6, <2>7, <2>9, <2>12
    <2>14. elapsed' <= WallSeconds + TimeOf(Width)
      BY <2>2, <2>6, <2>7, <2>9, <2>12
    <2> QED BY <2>1, <2>13, <2>14 DEF TimeKept
  <1>8. CASE StopAtLimit
    BY <1>0, <1>8 DEF StopAtLimit, TimeKept, Finish, budget, conversation
  <1>9. CASE Repeated
    BY <1>0, <1>9 DEF Repeated, TimeKept, Finish, budget, conversation
  <1>10. CASE StartTool
    BY <1>0, <1>10 DEF StartTool, TimeKept, Yields, budget, ServerRetries
  <1>11. CASE EndReply
    BY <1>0, <1>11 DEF EndReply, TimeKept, budget, conversation
  <1>12. CASE RefuseCategory
    <2>1. todo # <<>> /\ pc = "tool" /\ pc' = "calls" /\ todo' = Tail(todo) /\ elapsed' = elapsed
      BY <1>12 DEF RefuseCategory, Observe, LoopTypeOK
    <2>2. /\ Len(todo) \in 1..Width /\ Len(todo') = Len(todo) - 1
          /\ TimeOf(Len(todo)) = TimeOf(Len(todo')) + CallTicks /\ TimeOf(Len(todo')) \in Nat
      BY <2>1, TodoFacts, LeftFacts
    <2>3. elapsed + TimeOf(Len(todo)) <= WallSeconds + TimeOf(Width) + Tried(tries)
      BY <2>1 DEF TimeKept
    <2>4. Tried(tries) \in Nat /\ Tried(tries) <= CallTicks
      BY <1>0
    <2>5. elapsed' + TimeOf(Len(todo')) <= WallSeconds + TimeOf(Width)
      BY <1>0, <2>1, <2>2, <2>3, <2>4
    <2> QED BY <1>0, <2>1, <2>2, <2>5 DEF TimeKept
  <1>13. CASE UNCHANGED vars
    BY <1>0, <1>13 DEF vars, TimeKept, budget, conversation
  <1> QED BY <1>1, <1>2, <1>3, <1>4, <1>5, <1>6, <1>7, <1>8, <1>9, <1>10, <1>11, <1>12, <1>13 DEF Next


\* Whatever takes time has its place among the calls that may follow each other unheard.
LEMMA QuietStep == LoopTypeOK /\ QuietKept /\ [Next]_vars => QuietKept'
  <1> SUFFICES ASSUME LoopTypeOK /\ QuietKept, [Next]_vars PROVE QuietKept'
    OBVIOUS
  <1>0. /\ quiet \in Nat /\ tries \in 0..2 /\ malformed \in BOOLEAN
        /\ TryTicks \in Nat /\ TryTicks >= 1 /\ CallTicks \in Nat /\ CallTicks = 3 * TryTicks + 2
        /\ Tried(0) = 0 /\ Tried(1) = TryTicks + 1 /\ Tried(2) = 2 * TryTicks + 2
    BY TimeFacts DEF LoopTypeOK, ServerRetries
  <1>1. ASSUME NEW d \in Ticks, ReadDictionary(d)
       PROVE  QuietKept'
    BY <1>0, <1>1 DEF ReadDictionary, QuietKept, Takes, Finish, budget, conversation, Ticks
  <1>2. ASSUME NEW d \in Ticks, ModelDown(d)
       PROVE  QuietKept'
    BY <1>0, <1>2 DEF ModelDown, QuietKept, Takes, Finish, budget, conversation, Ticks
  <1>3. ASSUME NEW d \in 0..(TryTicks + 1), RetryTool(d)
       PROVE  QuietKept'
    <2>1. /\ pc = "tool" /\ pc' = "tool" /\ quiet' = quiet + d /\ d \in 0..(TryTicks + 1)
          /\ tries' = tries + 1 /\ tries < 2
      BY <1>3 DEF RetryTool, Retryable, ServerRetries, Takes
    <2>2. \/ tries = 0 /\ tries' = 1
          \/ tries = 1 /\ tries' = 2
      BY <1>0, <2>1
    <2>3. Tried(tries') = Tried(tries) + TryTicks + 1 /\ Tried(tries') <= CallTicks
      BY <1>0, <2>2
    <2>4. quiet <= Tried(tries) /\ Tried(tries) \in Nat
      BY <1>0, <2>1, <2>2 DEF QuietKept
    <2>5. quiet' <= Tried(tries')
      BY <1>0, <2>1, <2>3, <2>4
    <2> QED BY <1>0, <2>1, <2>3, <2>5, <2>4 DEF QuietKept
  <1>4. ASSUME NEW d \in Ticks, NEW p \in 0..MaxPrice, ModelMalformed(d, p)
       PROVE  QuietKept'
    <2>1. pc = "look" /\ quiet' = quiet + d /\ d \in 0..1
      BY <1>4 DEF ModelMalformed, Takes, Finish, Ticks
    <2>2. malformed' = TRUE /\ (malformed => pc' = "end") /\ (~malformed => pc' = "look")
      BY <1>0, <1>4 DEF ModelMalformed, Takes, Finish
    <2>3. quiet <= CallTicks + 1 /\ (~malformed => quiet <= CallTicks)
      BY <2>1 DEF QuietKept
    <2>4. quiet' <= CallTicks + 2 /\ (pc' = "look" => quiet' <= CallTicks + 1)
      BY <1>0, <2>1, <2>2, <2>3
    <2> QED BY <2>2, <2>4 DEF QuietKept
  <1>5. ASSUME NEW d \in Ticks, NEW p \in 0..MaxPrice, ModelAnswers(d, p)
       PROVE  QuietKept'
    <2>1. pc = "look" /\ quiet' = quiet + d /\ d \in 0..1
      BY <1>5 DEF ModelAnswers, Counted, Finish, Takes, Ticks
    <2>2. pc' = "end"
      BY <1>0, <1>5 DEF ModelAnswers, Counted, Finish, Takes
    <2> QED BY <1>0, <2>1, <2>2 DEF QuietKept
  <1>6. ASSUME NEW d \in Ticks, NEW p \in 0..MaxPrice, NEW reply \in Reply,
               ModelCalls(d, p, reply)
       PROVE  QuietKept'
    <2>1. todo' # <<>>
      BY <1>6, ReplyFacts DEF ModelCalls
    <2>2. pc = "look" /\ pc' = "calls" /\ quiet' = quiet + d /\ d \in 0..1
      BY <1>6 DEF ModelCalls, Counted, Takes, Ticks
    <2> QED BY <1>0, <2>1, <2>2 DEF QuietKept
  <1>7. ASSUME NEW d \in 0..TryTicks, NEW code \in Code, ToolAnswers(d, code)
       PROVE  QuietKept'
    <2>1. /\ pc = "tool" /\ pc' = "calls"
          /\ quiet' = quiet + (IF ReachesApi(Checked[Head(todo)]) THEN d ELSE 0)
      BY <1>7 DEF ToolAnswers, Observe, Takes
    <2>2. PICK e \in 0..TryTicks : quiet' = quiet + e
      BY <1>0, <2>1
    <2>3. quiet <= Tried(tries) /\ Tried(tries) \in Nat /\ Tried(tries) <= 2 * TryTicks + 2
      BY <1>0, <2>1 DEF QuietKept
    <2> QED BY <1>0, <2>1, <2>2, <2>3 DEF QuietKept
  <1>8. CASE StopAtLimit
    BY <1>0, <1>8 DEF StopAtLimit, QuietKept, Finish, budget, conversation
  <1>9. CASE Repeated
    BY <1>0, <1>9 DEF Repeated, QuietKept, Finish, budget, conversation
  <1>10. CASE StartTool
    BY <1>0, <1>10 DEF StartTool, QuietKept, Yields, budget, ServerRetries
  <1>11. CASE EndReply
    BY <1>0, <1>11 DEF EndReply, QuietKept, budget, conversation
  <1>12. CASE RefuseCategory
    BY <1>0, <1>12 DEF RefuseCategory, QuietKept, Observe, budget, Retryable, ServerRetries
  <1>13. CASE UNCHANGED vars
    BY <1>0, <1>13 DEF vars, QuietKept, budget, conversation
  <1> QED BY <1>1, <1>2, <1>3, <1>4, <1>5, <1>6, <1>7, <1>8, <1>9, <1>10, <1>11, <1>12, <1>13 DEF Next


-----------------------------------------------------------------------------
(* Steps and reasons *)

\* A call is seen before it has a step.
LEMMA StepsStep == LoopTypeOK /\ StepsKept /\ [Next]_vars => StepsKept'
  <1> SUFFICES ASSUME LoopTypeOK /\ StepsKept, [Next]_vars PROVE StepsKept'
    OBVIOUS
  <1> USE LimitAssumption
  <1>0. todo \in Seq(Calls) /\ (pc = "tool" => todo # <<>>)
    BY DEF LoopTypeOK
  <1>1. ASSUME NEW d \in Ticks, ReadDictionary(d)
       PROVE  StepsKept'
    BY <1>0, <1>1 DEF ReadDictionary, StepsKept, Takes, Finish, budget, conversation, Ticks
  <1>2. ASSUME NEW d \in Ticks, ModelDown(d)
       PROVE  StepsKept'
    BY <1>0, <1>2 DEF ModelDown, StepsKept, Takes, Finish, budget, conversation, Ticks
  <1>3. ASSUME NEW d \in 0..(TryTicks + 1), RetryTool(d)
       PROVE  StepsKept'
    BY <1>0, <1>3 DEF RetryTool, StepsKept, Takes, budget, Retryable, ServerRetries, Ticks
  <1>4. ASSUME NEW d \in Ticks, NEW p \in 0..MaxPrice, ModelMalformed(d, p)
       PROVE  StepsKept'
    BY <1>0, <1>4 DEF ModelMalformed, StepsKept, Takes, Finish, conversation, Ticks
  <1>5. ASSUME NEW d \in Ticks, NEW p \in 0..MaxPrice, ModelAnswers(d, p)
       PROVE  StepsKept'
    BY <1>0, <1>5 DEF ModelAnswers, StepsKept, Counted, Takes, Finish, conversation, Ticks
  <1>6. ASSUME NEW d \in Ticks, NEW p \in 0..MaxPrice, NEW reply \in Reply,
               ModelCalls(d, p, reply)
       PROVE  StepsKept'
    BY <1>0, <1>6 DEF ModelCalls, StepsKept, Counted, Takes, Ticks
  <1>7. ASSUME NEW d \in 0..TryTicks, NEW code \in Code, ToolAnswers(d, code)
       PROVE  StepsKept'
    <2>1. /\ pc = "tool" /\ pc' = "calls" /\ seen' = seen
          /\ \E s : s.asked = Head(todo) /\ steps' = steps \cup {s}
      BY <1>7 DEF ToolAnswers, Observe
    <2>2. PICK s : s.asked = Head(todo) /\ steps' = steps \cup {s}
      BY <2>1
    <2>3. IsFiniteSet(steps')
      BY <2>2, FS_AddElement DEF StepsKept
    <2>4. \A t \in steps' : t.asked \in seen'
      BY <2>1, <2>2 DEF StepsKept
    <2> QED BY <2>1, <2>3, <2>4 DEF StepsKept
  <1>8. CASE StopAtLimit
    BY <1>0, <1>8 DEF StopAtLimit, StepsKept, Finish, budget, conversation
  <1>9. CASE Repeated
    BY <1>0, <1>9 DEF Repeated, StepsKept, Finish, budget, conversation
  <1>10. CASE StartTool
    BY <1>0, <1>10 DEF StartTool, StepsKept, Yields, budget, ServerRetries
  <1>11. CASE EndReply
    BY <1>0, <1>11 DEF EndReply, StepsKept, budget, conversation
  <1>12. CASE RefuseCategory
    <2>1. /\ pc = "tool" /\ pc' = "calls" /\ seen' = seen
          /\ \E s : s.asked = Head(todo) /\ steps' = steps \cup {s}
      BY <1>12 DEF RefuseCategory, Observe
    <2>2. PICK s : s.asked = Head(todo) /\ steps' = steps \cup {s}
      BY <2>1
    <2>3. IsFiniteSet(steps')
      BY <2>2, FS_AddElement DEF StepsKept
    <2>4. \A t \in steps' : t.asked \in seen'
      BY <2>1, <2>2 DEF StepsKept
    <2> QED BY <2>1, <2>3, <2>4 DEF StepsKept
  <1>13. CASE UNCHANGED vars
    BY <1>0, <1>13 DEF vars, StepsKept, budget, conversation
  <1> QED BY <1>1, <1>2, <1>3, <1>4, <1>5, <1>6, <1>7, <1>8, <1>9, <1>10, <1>11, <1>12, <1>13 DEF Next


\* A step that is added is a failure too many for the tool of its call only, and then it is the reason.
LEMMA ObserveReason ==
    ASSUME LoopTypeOK, StepsKept, ReasonKept, pc = "tool", NEW ran, NEW code, Observe(ran, code)
    PROVE  ReasonKept'
  <1> DEFINE call == Head(todo)
             s == [asked |-> call, ran |-> ran, code |-> code]
             bad == code = "validation_error" /\ Failures(steps', ToolOf[call]) > Fixes
  <1>1. /\ steps' = steps \cup {s} /\ pc' = "calls"
        /\ stop' = IF bad THEN "tool_failed" ELSE stop
    BY DEF Observe
  <1>2. call \in Calls /\ ToolOf[call] \in Tools
    BY TodoFacts DEF LoopTypeOK, Tools
  <1>3. stop \in {None, "tool_failed"} /\ None \notin StopReason
    BY CallAssumption DEF ReasonKept
  <1>4. stop' \in {None, "tool_failed"}
    BY <1>1, <1>3
  <1>5. ASSUME NEW t
        PROVE  /\ Failures(steps, t) \in Nat /\ Failures(steps', t) \in Nat
               /\ Failures(steps, t) <= Failures(steps', t)
               /\ ~(ToolOf[call] = t /\ code = "validation_error") => Failures(steps', t) = Failures(steps, t)
    <2>1. s.asked = call /\ s.code = code /\ IsFiniteSet(steps)
      BY DEF StepsKept
    <2> HIDE DEF s, call
    <2> QED BY <1>1, <2>1, FailuresGrow
  <1> HIDE DEF s
  <1>6. ASSUME NEW t \in Tools, Failures(steps', t) > Fixes
        PROVE  stop' = "tool_failed"
    <2>1. CASE ToolOf[call] = t /\ code = "validation_error"
      BY <1>1, <1>6, <2>1
    <2>2. CASE ~(ToolOf[call] = t /\ code = "validation_error")
      <3>1. Failures(steps, t) > Fixes
        BY <1>5, <1>6, <2>2
      <3>2. stop = "tool_failed"
        BY <1>3, <3>1 DEF ReasonKept, StopReason
      <3> QED BY <1>1, <3>2
    <2> QED BY <2>1, <2>2
  <1>7. stop' = "tool_failed" => \E t \in Tools : Failures(steps', t) > Fixes
    <2>1. CASE bad
      BY <1>2, <2>1
    <2>2. CASE ~bad
      <3>1. SUFFICES ASSUME stop = "tool_failed" PROVE \E t \in Tools : Failures(steps', t) > Fixes
        BY <1>1, <2>2
      <3>2. PICK t \in Tools : Failures(steps, t) > Fixes
        BY <3>1 DEF ReasonKept
      <3>3. Failures(steps', t) > Fixes
        BY <1>5, <3>2 DEF Fixes
      <3> QED BY <3>3
    <2> QED BY <2>1, <2>2
  <1>8. stop' \notin Limits \cup {"answered", "malformed", "repeated"}
    BY <1>3, <1>4 DEF StopReason, Limits
  <1> QED BY <1>1, <1>4, <1>6, <1>7, <1>8 DEF ReasonKept

\* Every step that stops the loop has its reason.
LEMMA ReasonStep == LoopTypeOK /\ BooksKept /\ StepsKept /\ ReasonKept /\ [Next]_vars => ReasonKept'
  <1> SUFFICES ASSUME LoopTypeOK /\ BooksKept /\ StepsKept /\ ReasonKept, [Next]_vars PROVE ReasonKept'
    OBVIOUS
  <1>0. /\ None \notin StopReason /\ stop \in StopReason \cup {None}
        /\ malformed \in BOOLEAN /\ calls \in Nat
    BY CallAssumption DEF LoopTypeOK
  <1>1. ASSUME NEW d \in Ticks, ReadDictionary(d)
       PROVE  ReasonKept'
    <2>1. steps' = steps
      BY <1>1 DEF ReadDictionary, conversation
    <2> QED BY <1>0, <1>1, <2>1 DEF ReadDictionary, ReasonKept, StepsKept, BooksKept, StopReason, Limits, Takes, Finish, budget, conversation, Ticks
  <1>2. ASSUME NEW d \in Ticks, ModelDown(d)
       PROVE  ReasonKept'
    <2>1. steps' = steps
      BY <1>2 DEF ModelDown, conversation
    <2> QED BY <1>0, <1>2, <2>1 DEF ModelDown, ReasonKept, StepsKept, BooksKept, StopReason, Limits, Limit, Takes, Finish, budget, conversation, Ticks
  <1>3. ASSUME NEW d \in 0..(TryTicks + 1), RetryTool(d)
       PROVE  ReasonKept'
    <2>1. steps' = steps
      BY <1>3 DEF RetryTool
    <2> QED BY <1>0, <1>3, <2>1 DEF RetryTool, ReasonKept, StepsKept, BooksKept, StopReason, Limits, Takes, budget, Retryable, ServerRetries, Ticks
  <1>4. ASSUME NEW d \in Ticks, NEW p \in 0..MaxPrice, ModelMalformed(d, p)
       PROVE  ReasonKept'
    <2>1. steps' = steps
      BY <1>4 DEF ModelMalformed, conversation
    <2> QED BY <1>0, <1>4, <2>1 DEF ModelMalformed, ReasonKept, StepsKept, BooksKept, StopReason, Limits, Takes, Finish, conversation, Ticks
  <1>5. ASSUME NEW d \in Ticks, NEW p \in 0..MaxPrice, ModelAnswers(d, p)
       PROVE  ReasonKept'
    <2>1. steps' = steps
      BY <1>5 DEF ModelAnswers, conversation, Counted
    <2> QED BY <1>0, <1>5, <2>1 DEF ModelAnswers, ReasonKept, StepsKept, BooksKept, StopReason, Limits, Counted, Takes, Finish, conversation, Ticks
  <1>6. ASSUME NEW d \in Ticks, NEW p \in 0..MaxPrice, NEW reply \in Reply,
               ModelCalls(d, p, reply)
       PROVE  ReasonKept'
    <2>1. steps' = steps
      BY <1>6 DEF ModelCalls, Counted
    <2> QED BY <1>0, <1>6, <2>1 DEF ModelCalls, ReasonKept, StepsKept, BooksKept, StopReason, Limits, Counted, Takes, Ticks
  <1>7. ASSUME NEW d \in 0..TryTicks, NEW code \in Code, ToolAnswers(d, code)
       PROVE  ReasonKept'
    <2>1. pc = "tool" /\ Observe(Checked[Head(todo)], code)
      BY <1>7 DEF ToolAnswers
    <2> QED BY <2>1, ObserveReason
  <1>8. CASE StopAtLimit
    <2>1. steps' = steps
      BY <1>8 DEF StopAtLimit, conversation
    <2> QED BY <1>0, <1>8, <2>1 DEF StopAtLimit, ReasonKept, StepsKept, BooksKept, StopReason, Limits, Limit, Finish, budget, conversation
  <1>9. CASE Repeated
    <2>1. steps' = steps
      BY <1>9 DEF Repeated, conversation
    <2> QED BY <1>0, <1>9, <2>1 DEF Repeated, ReasonKept, StepsKept, BooksKept, StopReason, Limits, Finish, budget, conversation
  <1>10. CASE StartTool
    <2>1. steps' = steps
      BY <1>10 DEF StartTool
    <2> QED BY <1>0, <1>10, <2>1 DEF StartTool, ReasonKept, StepsKept, BooksKept, StopReason, Limits, Yields, budget, ServerRetries
  <1>11. CASE EndReply
    <2>1. steps' = steps
      BY <1>11 DEF EndReply, conversation
    <2> QED BY <1>0, <1>11, <2>1 DEF EndReply, ReasonKept, StepsKept, BooksKept, StopReason, Limits, budget, conversation
  <1>12. CASE RefuseCategory
    <2>1. pc = "tool" /\ Observe(Head(todo), "validation_error")
      BY <1>12 DEF RefuseCategory
    <2> QED BY <2>1, ObserveReason
  <1>13. CASE UNCHANGED vars
    <2>1. steps' = steps
      BY <1>13 DEF vars, conversation
    <2> QED BY <1>0, <1>13, <2>1 DEF vars, ReasonKept, StepsKept, BooksKept, StopReason, Limits, budget, conversation
  <1> QED BY <1>1, <1>2, <1>3, <1>4, <1>5, <1>6, <1>7, <1>8, <1>9, <1>10, <1>11, <1>12, <1>13 DEF Next


-----------------------------------------------------------------------------
(* The theorems *)

\* No step leaves what the proof carries along.
LEMMA StepInductive == Inductive /\ [Next]_vars => Inductive'
  BY TypesStep, BooksStep, TimeStep, QuietStep, StepsStep, ReasonStep DEF Inductive

\* What holds of a run from its first step to its end, and from which the rest follows.
THEOREM InductiveInvariant == Spec => []Inductive
  BY InitInductive, StepInductive, PTL DEF Spec

\* The loop's state has its types: no call past the width of a reply, no fourth try of a tool
\* (LoopState, AnswerQuestion._tool).
THEOREM TypeCorrect == Spec => []LoopTypeOK
  <1>1. Inductive => LoopTypeOK
    BY DEF Inductive
  <1> QED BY <1>1, InductiveInvariant, PTL

\* What the invariant says of the limits and of the reason to stop.
LEMMA LimitsFollow == Inductive => WithinLimits
  <1> SUFFICES ASSUME Inductive PROVE WithinLimits
    OBVIOUS
  <1>1. elapsed <= WallSeconds + CallTicks * Width
    BY DEF Inductive, TimeKept, TimeOf
  <1> QED BY <1>1 DEF Inductive, BooksKept, WithinLimits

\* What is known of the loop tells why it stopped.
LEMMA ReasonFollows == Inductive => StopIsTrue
  <1> SUFFICES ASSUME Inductive PROVE StopIsTrue
    OBVIOUS
  <1>1. None \notin StopReason
    BY CallAssumption
  <1>2. /\ Limits \subseteq StopReason
        /\ {"tool_failed", "repeated", "answered", "malformed"} \subseteq StopReason
        /\ Limits \cap {"tool_failed", "repeated", "answered", "malformed"} = {}
    BY DEF StopReason, Limits
  <1>3. \A t \in Tools : Failures(steps, t) \in Nat
    BY FailuresGrow DEF Inductive, StepsKept
  <1>4. stop \notin {"tool_failed", "repeated"} => \A t \in Tools : Failures(steps, t) <= Fixes
    BY <1>3 DEF Inductive, ReasonKept, Fixes
  <1>5. pc = "look" => \A t \in Tools : Failures(steps, t) <= Fixes
    BY <1>1, <1>2, <1>4 DEF Inductive, ReasonKept
  <1>6. stop \in Limits \cup {"answered", "malformed"} =>
            todo = <<>> /\ \A t \in Tools : Failures(steps, t) <= Fixes
    BY <1>2, <1>4 DEF Inductive, ReasonKept
  <1> QED BY <1>5, <1>6 DEF Inductive, ReasonKept, StepsKept, StopIsTrue

\* Whatever the limits, the prices, the model's replies and the time a try of a tool takes, a run
\* overdraws each limit by what one reply can do at most (AnswerQuestion._limit, _tool).
THEOREM KeepsLimits == Spec => []WithinLimits
  BY LimitsFollow, InductiveInvariant, PTL

\* The reason a run is said to have stopped for is what happened in it, whatever the model asks
\* for and however many tools there are (AnswerQuestion.__call__).
THEOREM TrueReason == Spec => []StopIsTrue
  BY ReasonFollows, InductiveInvariant, PTL

\* Between two events nothing is yielded for the tries and pauses of one call of a tool and two
\* model calls at most, however long a try is (AnswerQuestion.__call__, _tool).
THEOREM SilenceIsShort == Spec => []SilenceIsBounded
  <1>1. Inductive => SilenceIsBounded
    <2> SUFFICES ASSUME Inductive PROVE quiet <= CallTicks + 2
      BY DEF SilenceIsBounded
    <2> QED BY DEF Inductive, QuietKept
  <1> QED BY <1>1, InductiveInvariant, PTL

-----------------------------------------------------------------------------
(* The stream of a chat *)

\* Reasons, errors and "done" are told apart.
LEMMA EventsDiffer ==
    /\ "error" \notin StopReason /\ "done" \notin StopReason
    /\ StopReason \subseteq Event /\ {"error", "done"} \subseteq Event
  BY DEF StopReason, Limits, Event

-----------------------------------------------------------------------------
(* Short sequences of events *)

\* What was sent of two events, and what is on its way.
LEMMA SplitNone ==
    ASSUME NEW S, NEW s \in Seq(S), NEW t \in Seq(S), s \o t = <<>>
    PROVE  s = <<>> /\ t = <<>>
  BY ConcatEqualIffEmpty

\* The ways to cut one event in two parts.
LEMMA SplitOne ==
    ASSUME NEW S, NEW s \in Seq(S), NEW t \in Seq(S), NEW a, s \o t = <<a>>
    PROVE  \/ s = <<>> /\ t = <<a>>
           \/ s = <<a>> /\ t = <<>>
  <1>1. /\ Len(s) + Len(t) = 1 /\ Len(s) \in Nat /\ Len(t) \in Nat
        /\ \A i \in 1..1 : <<a>>[i] = IF i <= Len(s) THEN s[i] ELSE t[i - Len(s)]
    <2>1. Len(s) \in Nat /\ Len(t) \in Nat
      OBVIOUS
    <2>2. /\ Len(s \o t) = Len(s) + Len(t)
          /\ \A i \in 1..Len(s) + Len(t) :
                 (s \o t)[i] = IF i <= Len(s) THEN s[i] ELSE t[i - Len(s)]
      BY ConcatProperties
    <2>3. Len(<<a>>) = 1
      OBVIOUS
    <2> QED BY <2>1, <2>2, <2>3
  <1>2. CASE Len(s) = 0
    BY <1>1, <1>2
  <1>3. CASE Len(s) = 1
    BY <1>1, <1>3
  <1>4. Len(s) \in {0, 1}
    <2>1. \A x, y \in Nat : x + y = 1 => x \in {0, 1}
      OBVIOUS
    <2> QED BY <1>1, <2>1
  <1> QED BY <1>2, <1>3, <1>4

\* The ways to cut two events.
LEMMA SplitTwo ==
    ASSUME NEW S, NEW s \in Seq(S), NEW t \in Seq(S), NEW a, NEW b, s \o t = <<a, b>>
    PROVE  \/ s = <<>> /\ t = <<a, b>>
           \/ s = <<a>> /\ t = <<b>>
           \/ s = <<a, b>> /\ t = <<>>
  <1>1. /\ Len(s) + Len(t) = 2 /\ Len(s) \in Nat /\ Len(t) \in Nat
        /\ \A i \in 1..2 : <<a, b>>[i] = IF i <= Len(s) THEN s[i] ELSE t[i - Len(s)]
    <2>1. Len(s) \in Nat /\ Len(t) \in Nat
      OBVIOUS
    <2>2. /\ Len(s \o t) = Len(s) + Len(t)
          /\ \A i \in 1..Len(s) + Len(t) :
                 (s \o t)[i] = IF i <= Len(s) THEN s[i] ELSE t[i - Len(s)]
      BY ConcatProperties
    <2>3. Len(<<a, b>>) = 2
      OBVIOUS
    <2> QED BY <2>1, <2>2, <2>3
  <1>2. CASE Len(s) = 0
    BY <1>1, <1>2
  <1>3. CASE Len(s) = 1
    BY <1>1, <1>3
  <1>4. CASE Len(s) = 2
    BY <1>1, <1>4
  <1>5. Len(s) \in {0, 1, 2}
    <2>1. \A x, y \in Nat : x + y = 2 => x \in {0, 1, 2}
      OBVIOUS
    <2> QED BY <1>1, <2>1
  <1> QED BY <1>2, <1>3, <1>4, <1>5

\* Two events after one another, and a third.
LEMMA JoinTwo == ASSUME NEW a, NEW b PROVE <<a>> \o <<b>> = <<a, b>>
  <1> DEFINE S == {a, b}
             s == <<a>> \o <<b>>
  <1>1. <<a>> \in Seq(S) /\ <<b>> \in Seq(S) /\ <<a, b>> \in Seq(S)
    OBVIOUS
  <1>2. /\ s \in Seq(S) /\ Len(s) = 2
        /\ \A i \in 1..2 : s[i] = IF i <= 1 THEN <<a>>[i] ELSE <<b>>[i - 1]
    <2> HIDE DEF S
    <2> QED BY <1>1, ConcatProperties
  <1>3. s[1] = a /\ s[2] = b
    BY <1>2
  <1>4. \A i \in 1..2 : s[i] = <<a, b>>[i]
    BY <1>3
  <1> HIDE DEF S
  <1> QED BY <1>1, <1>2, <1>4, SeqEqual

\* Two events and one more.
LEMMA JoinThree == ASSUME NEW a, NEW b, NEW c PROVE <<a, b>> \o <<c>> = <<a, b, c>>
  <1> DEFINE S == {a, b, c}
             s == <<a, b>> \o <<c>>
  <1>1. <<a, b>> \in Seq(S) /\ <<c>> \in Seq(S) /\ <<a, b, c>> \in Seq(S)
    OBVIOUS
  <1>2. /\ s \in Seq(S) /\ Len(s) = 3
        /\ \A i \in 1..3 : s[i] = IF i <= 2 THEN <<a, b>>[i] ELSE <<c>>[i - 2]
    <2> HIDE DEF S
    <2> QED BY <1>1, ConcatProperties
  <1>3. s[1] = a /\ s[2] = b /\ s[3] = c
    BY <1>2
  <1>4. \A i \in 1..3 : s[i] = <<a, b, c>>[i]
    BY <1>3
  <1> HIDE DEF S
  <1> QED BY <1>1, <1>2, <1>4, SeqEqual

\* To relay an event leaves all that is said as it is.
LEMMA RelayKeeps ==
    ASSUME NEW S, NEW s \in Seq(S), NEW t \in Seq(S), t # <<>>
    PROVE  Append(s, Head(t)) \o Tail(t) = s \o t
  <1>1. Head(t) \in S /\ Tail(t) \in Seq(S) /\ Append(s, Head(t)) = s \o <<Head(t)>>
    BY HeadTailProperties, AppendIsConcat
  <1>2. t = <<Head(t)>> \o Tail(t)
    OBVIOUS
  <1>3. (s \o <<Head(t)>>) \o Tail(t) = s \o (<<Head(t)>> \o Tail(t))
    BY <1>1, ConcatAssociative
  <1> QED BY <1>1, <1>2, <1>3

\* ScreenIsWhole of any sequence of events, but for its last conjunct.
Often(s, events) == Cardinality({i \in DOMAIN s : s[i] \in events})
Whole(s) ==
    /\ Often(s, StopReason) <= 1 /\ Often(s, {"done"}) <= 1 /\ Often(s, {"error"}) <= 2
    /\ \A i, j \in DOMAIN s : s[i] = "done" /\ j > i => j = i + 1 /\ s[j] = "error"

\* A screen is whole whose reasons, ends and errors are in these places only.
LEMMA WholeIf ==
    ASSUME NEW s, NEW k, NEW l, NEW m, NEW n,
           \A i \in DOMAIN s : /\ s[i] \in StopReason => i = k
                               /\ s[i] = "done" => i = l
                               /\ s[i] = "error" => i = m \/ i = n,
           \A i, j \in DOMAIN s : s[i] = "done" /\ j > i => j = i + 1 /\ s[j] = "error"
    PROVE  Whole(s)
  <1>1. {i \in DOMAIN s : s[i] \in StopReason} \in SUBSET {k}
    OBVIOUS
  <1>2. {i \in DOMAIN s : s[i] \in {"done"}} \in SUBSET {l}
    OBVIOUS
  <1>3. {i \in DOMAIN s : s[i] \in {"error"}} \in SUBSET {m, n}
    OBVIOUS
  <1>4. Often(s, StopReason) <= 1
    BY <1>1, AtMostOne DEF Often
  <1>5. Often(s, {"done"}) <= 1
    BY <1>2, AtMostOne DEF Often
  <1>6. Often(s, {"error"}) <= 2
    BY <1>3, AtMostTwo DEF Often
  <1> QED BY <1>4, <1>5, <1>6 DEF Whole

\* What a browser can be left with, and what a stream that ends can leave on its screen.
LEMMA WholeWhenLeft ==
    ASSUME NEW s, NEW r \in StopReason,
           s \in {<<>>, <<r>>, <<r, "done">>, <<"error">>, <<"error", "done">>}
    PROVE  Whole(s)
  <1> USE EventsDiffer
  <1>1. CASE s = <<>>
    BY <1>1, WholeIf
  <1>2. CASE s = <<r>>
    BY <1>2, WholeIf, SMTT(40)
  <1>3. CASE s = <<r, "done">>
    BY <1>3, WholeIf, SMTT(40)
  <1>4. CASE s = <<"error">>
    BY <1>4, WholeIf, SMTT(40)
  <1>5. CASE s = <<"error", "done">>
    BY <1>5, WholeIf, SMTT(40)
  <1> QED BY <1>1, <1>2, <1>3, <1>4, <1>5

\* These are whole, and end.
LEMMA WholeAtTheEnd ==
    ASSUME NEW s, NEW r \in StopReason,
           s \in {<<r, "done">>, <<"error", "done">>, <<r, "error", "done">>,
                  <<r, "done", "error">>, <<"error", "error", "done">>,
                  <<"error", "done", "error">>}
    PROVE  /\ Whole(s) /\ (\E i \in DOMAIN s : s[i] = "done")
           /\ Often(s, StopReason \cup {"error"}) >= 1
  <1> USE EventsDiffer
  <1> DEFINE T == {i \in DOMAIN s : s[i] \in StopReason \cup {"error"}}
  <1>1. CASE s = <<r, "done">> \/ s = <<"error", "done">>
    <2>1. Whole(s)
      BY <1>1, WholeWhenLeft
    <2>2. T \in SUBSET {1} /\ 1 \in T /\ s[2] = "done" /\ 2 \in DOMAIN s
      BY <1>1
    <2> QED BY <2>1, <2>2, AtMostOne, AtLeastOne DEF Often
  <1>2. CASE s = <<r, "error", "done">> \/ s = <<"error", "error", "done">>
    <2>1. Whole(s)
      <3>1. CASE s = <<r, "error", "done">>
        BY <3>1, WholeIf, SMTT(40)
      <3>2. CASE s = <<"error", "error", "done">>
        BY <3>2, WholeIf, SMTT(40)
      <3> QED BY <1>2, <3>1, <3>2
    <2>2. T \in SUBSET {1, 2} /\ 1 \in T /\ s[3] = "done" /\ 3 \in DOMAIN s
      BY <1>2
    <2> QED BY <2>1, <2>2, AtMostTwo, AtLeastOne DEF Often
  <1>3. CASE s = <<r, "done", "error">> \/ s = <<"error", "done", "error">>
    <2>1. Whole(s)
      <3>1. CASE s = <<r, "done", "error">>
        <4>1. DOMAIN s = 1..3 /\ s[1] = r /\ s[2] = "done" /\ s[3] = "error"
          BY <3>1
        <4>2. \A i, j \in DOMAIN s : s[i] = "done" /\ j > i => j = i + 1 /\ s[j] = "error"
          <5>1. \A i \in DOMAIN s : s[i] = "done" => i = 2
            BY <4>1
          <5>2. \A j \in DOMAIN s : j > 2 => j = 3
            BY <4>1
          <5> QED BY <4>1, <5>1, <5>2
        <4> QED BY <3>1, <4>2, WholeIf, SMTT(40)
      <3>2. CASE s = <<"error", "done", "error">>
        <4>1. DOMAIN s = 1..3 /\ s[1] = "error" /\ s[2] = "done" /\ s[3] = "error"
          BY <3>2
        <4>2. \A i, j \in DOMAIN s : s[i] = "done" /\ j > i => j = i + 1 /\ s[j] = "error"
          <5>1. \A i \in DOMAIN s : s[i] = "done" => i = 2
            BY <4>1
          <5>2. \A j \in DOMAIN s : j > 2 => j = 3
            BY <4>1
          <5> QED BY <4>1, <5>1, <5>2
        <4>3. {i \in DOMAIN s : s[i] \in StopReason} \in SUBSET {0}
          BY <3>2
        <4>4. {i \in DOMAIN s : s[i] \in {"done"}} \in SUBSET {2}
          BY <3>2
        <4>5. {i \in DOMAIN s : s[i] \in {"error"}} \in SUBSET {1, 3}
          BY <3>2
        <4>6. Often(s, StopReason) <= 1
          BY <4>3, AtMostOne DEF Often
        <4>7. Often(s, {"done"}) <= 1
          BY <4>4, AtMostOne DEF Often
        <4>8. Often(s, {"error"}) <= 2
          BY <4>5, AtMostTwo DEF Often
        <4> QED BY <4>2, <4>6, <4>7, <4>8 DEF Whole
      <3> QED BY <1>3, <3>1, <3>2
    <2>2. T \in SUBSET {1, 3} /\ 1 \in T /\ s[2] = "done" /\ 2 \in DOMAIN s
      BY <1>3
    <2> QED BY <2>1, <2>2, AtMostTwo, AtLeastOne DEF Often
  <1> QED BY <1>1, <1>2, <1>3

-----------------------------------------------------------------------------
(* What a browser has seen while events are relayed *)

\* All that can be said: the sequences that an agent sends.
Sayable(line, r) == line \in {<<>>, <<r>>, <<r, "done">>, <<"error", "done">>}

\* What has been said so far is the beginning of it.
LEMMA Prefixes ==
    ASSUME NEW s \in Seq(Event), NEW t \in Seq(Event), NEW r \in StopReason, Sayable(s \o t, r)
    PROVE  /\ s \in {<<>>, <<r>>, <<r, "done">>, <<"error">>, <<"error", "done">>}
           /\ t = <<>> => s = s \o t
           /\ t # <<>> => s \in {<<>>, <<r>>, <<"error">>}
           /\ s # <<>> => t \in {<<>>, <<"done">>}
  <1>1. CASE s \o t = <<>>
    BY <1>1, SplitNone
  <1>2. CASE s \o t = <<r>>
    BY <1>2, SplitOne
  <1>3. CASE s \o t = <<r, "done">>
    BY <1>3, SplitTwo
  <1>4. CASE s \o t = <<"error", "done">>
    BY <1>4, SplitTwo
  <1> QED BY <1>1, <1>2, <1>3, <1>4 DEF Sayable

\* What is relayed has been said for some reason to stop.
LEMMA SaidIsSayable ==
    ASSUME TypeOK, SaidInHand, ui = "relaying"
    PROVE  \E r \in StopReason : Sayable(Said, r)
  <1>1. \E r \in StopReason : TRUE
    BY DEF StopReason
  <1> QED BY <1>1 DEF SaidInHand, Sayable

\* While it relays, the browser has seen nothing that is not whole, and no answer but the
\* run's.
LEMMA RelayingIsWhole ==
    ASSUME TypeOK, SaidInHand, ui = "relaying"
    PROVE  ScreenIsWhole /\ AnswerInHand
  <1>1. PICK r \in StopReason : Sayable(Said, r)
    BY SaidIsSayable
  <1>2. screen \in {<<>>, <<r>>, <<r, "done">>, <<"error">>, <<"error", "done">>}
    BY <1>1, Prefixes DEF Said, TypeOK
  <1>3. ScreenIsWhole
    BY <1>2, WholeWhenLeft DEF ScreenIsWhole, Whole, Count, Often
  <1>4. ASSUME NEW q \in StopReason, Has(q) PROVE q = r /\ Said \in {<<q>>, <<q, "done">>}
    <2>1. screen \in {<<r>>, <<r, "done">>} /\ q = r
      BY <1>2, <1>4, EventsDiffer DEF Has
    <2>2. Said # <<>> /\ Said # <<"error", "done">>
      <3>1. screen \in Seq(Event) /\ wire \in Seq(Event)
        BY DEF TypeOK
      <3>4. Len(screen) \in {1, 2} /\ screen[1] = q
        BY <2>1
      <3>2. Len(Said) # 0 /\ Said[1] = q
        BY <3>1, <3>4 DEF Said
      <3>3. q # "error"
        BY EventsDiffer
      <3> QED BY <3>2, <3>3
    <2> QED BY <1>1, <2>1, <2>2 DEF Sayable
  <1>5. AnswerInHand
    <2> SUFFICES ASSUME NEW q \in StopReason, Has(q)
                 PROVE  agent = "gone" \/ (run = Answered(q) /\ (agent = "streaming" => pc = "end"))
      BY DEF AnswerInHand
    <2>1. Said \in {<<q>>, <<q, "done">>}
      BY <1>4
    <2>2. /\ Said # <<>> /\ Said # <<"error", "done">>
          /\ \A p : Said \in {<<p>>, <<p, "done">>} => p = q
      BY <2>1, EventsDiffer
    <2> QED BY <2>1, <2>2 DEF SaidInHand
  <1> QED BY <1>3, <1>5

\* What an error of the ui's own makes of a screen.
Broken(s, t, r) ==
    \/ s = <<>> /\ t = <<"error", "done">>
    \/ s = <<r>> /\ t = <<r, "error", "done">>
    \/ s = <<r, "done">> /\ t = <<r, "done", "error">>
    \/ s = <<"error">> /\ t = <<"error", "error", "done">>
    \/ s = <<"error", "done">> /\ t = <<"error", "done", "error">>

\* An error on the way breaks the answer off.
LEMMA ErrorBreaks ==
    ASSUME TypeOK, SaidInHand, ui = "relaying",
           screen' = screen \o <<"error">> \o DoneIfMissing
    PROVE  \E r \in StopReason : Broken(screen, screen', r)
  <1> USE EventsDiffer
  <1>1. PICK r \in StopReason : Sayable(Said, r)
    BY SaidIsSayable
  <1>2. screen \in {<<>>, <<r>>, <<r, "done">>, <<"error">>, <<"error", "done">>}
    BY <1>1, Prefixes DEF Said, TypeOK
  <1>3. CASE screen \in {<<>>, <<r>>, <<"error">>}
    <2>1. DoneIfMissing = <<"done">>
      BY <1>3 DEF DoneIfMissing, Has
    <2>2. screen' = screen \o <<"error">> \o <<"done">>
      BY <2>1
    <2>3. CASE screen = <<>>
      <3>1. <<>> \o <<"error">> = <<"error">>
        OBVIOUS
      <3>2. screen' = <<"error", "done">>
        BY <2>2, <2>3, <3>1, JoinTwo
      <3>3. Broken(screen, screen', r)
        BY <2>3, <3>2 DEF Broken
      <3> QED BY <3>3
    <2>4. CASE screen = <<r>>
      <3>1. screen' = <<r, "error", "done">>
        <4>1. screen \o <<"error">> = <<r, "error">>
          BY <2>4, JoinTwo
        <4> QED BY <2>2, <4>1, JoinThree
      <3>2. Broken(screen, screen', r)
        BY <2>4, <3>1 DEF Broken
      <3> QED BY <3>2
    <2>5. CASE screen = <<"error">>
      <3>1. screen' = <<"error", "error", "done">>
        <4>1. screen \o <<"error">> = <<"error", "error">>
          BY <2>5, JoinTwo
        <4> QED BY <2>2, <4>1, JoinThree
      <3>2. Broken(screen, screen', r)
        BY <2>5, <3>1 DEF Broken
      <3> QED BY <3>2
    <2> QED BY <1>3, <2>3, <2>4, <2>5
  <1>4. CASE screen \in {<<r, "done">>, <<"error", "done">>}
    <2>1. DoneIfMissing = <<>>
      BY <1>4 DEF DoneIfMissing, Has
    <2> QED BY <1>4, <2>1, JoinThree DEF Broken
  <1> QED BY <1>2, <1>3, <1>4

\* An error leaves a whole screen, and no answer that was not there.
LEMMA BrokenIsWhole ==
    ASSUME NEW r \in StopReason, NEW s, NEW t, Broken(s, t, r)
    PROVE  /\ Whole(t) /\ (\E i \in DOMAIN t : t[i] = "done")
           /\ Often(t, StopReason \cup {"error"}) >= 1
           /\ t \in Seq(Event)
           /\ \A q \in StopReason : (\E i \in DOMAIN t : t[i] = q) => \E i \in DOMAIN s : s[i] = q
  <1> USE EventsDiffer
  <1>1. t \in {<<"error", "done">>, <<r, "error", "done">>, <<r, "done", "error">>,
               <<"error", "error", "done">>, <<"error", "done", "error">>}
    BY DEF Broken
  <1>2. /\ Whole(t) /\ (\E i \in DOMAIN t : t[i] = "done")
        /\ Often(t, StopReason \cup {"error"}) >= 1
    BY <1>1, WholeAtTheEnd
  <1>3. t \in Seq(Event)
    <2>1. /\ r \in Event /\ "error" \in Event /\ "done" \in Event
          /\ \A a, b, c \in Event : <<a, b>> \in Seq(Event) /\ <<a, b, c>> \in Seq(Event)
      OBVIOUS
    <2> QED BY <1>1, <2>1
  <1>4. ASSUME NEW q \in StopReason, \E i \in DOMAIN t : t[i] = q
        PROVE  \E i \in DOMAIN s : s[i] = q
    <2>1. CASE t \in {<<"error", "done">>, <<"error", "error", "done">>, <<"error", "done", "error">>}
      BY <1>4, <2>1
    <2>2. CASE s = <<r>> /\ t = <<r, "error", "done">>
      BY <1>4, <2>2
    <2>3. CASE s = <<r, "done">> /\ t = <<r, "done", "error">>
      BY <1>4, <2>3
    <2> QED BY <2>1, <2>2, <2>3 DEF Broken
  <1> QED BY <1>2, <1>3, <1>4

-----------------------------------------------------------------------------
(* The loop below the stream *)

\* A step of the loop begins before its end, and ends with a reason.
LEMMA EndsWithReason ==
    ASSUME Inductive, Next
    PROVE  pc # "end" /\ (pc' = "end" => stop' \in StopReason)
  <1>1. Limit # None => Limit \in StopReason
    BY DEF Limit, Limits, StopReason
  <1>2. stop \in StopReason \cup {None}
    BY DEF Inductive, LoopTypeOK
  <1> QED BY <1>1, <1>2
      DEF Next, ReadDictionary, ModelDown, RetryTool, ModelMalformed, ModelAnswers, ModelCalls,
          StopAtLimit, Repeated, StartTool, EndReply, RefuseCategory, ToolAnswers, Observe,
          Counted, Finish, StopReason

\* A generator that is gone has kept what the loop keeps.
LEMMA ForgetIsInductive == Forget => Inductive'
  <1> SUFFICES ASSUME Forget PROVE Inductive'
    OBVIOUS
  <1> USE LimitAssumption
  <1>1. LoopTypeOK'
    <2>1. todo' \in Seq(Calls) /\ Len(todo') = 0
      BY DEF Forget
    <2>2. {calls', cost', spent', elapsed', quiet'} \subseteq Nat /\ tries' \in 0..ServerRetries
      BY DEF Forget, ServerRetries
    <2>3. malformed' \in BOOLEAN
      BY Zenon DEF Forget
    <2> QED BY <2>1, <2>2, <2>3 DEF Forget, LoopTypeOK
  <1>2. BooksKept' /\ TimeKept' /\ QuietKept'
    <2>1. TimeOf(Width) \in Nat /\ WallSeconds \in Nat /\ CallTicks \in Nat
      BY TimeFacts
    <2>2. BooksKept'
      BY DEF Forget, BooksKept
    <2>3. /\ pc' \notin {"start", "look", "calls", "tool"} /\ elapsed' = 0 /\ quiet' = 0
      BY DEF Forget
    <2>4. 0 <= WallSeconds + TimeOf(Width) /\ 0 <= CallTicks + 2
      BY <2>1
    <2>5. TimeKept'
      BY <2>3, <2>4 DEF TimeKept
    <2> QED BY <2>2, <2>3, <2>4, <2>5 DEF QuietKept
  <1>3. StepsKept'
    BY FS_EmptySet DEF Forget, StepsKept
  <1>4. ReasonKept'
    <2>1. \A t : Failures({}, t) = 0
      BY FS_EmptySet DEF Failures
    <2>2. None \notin StopReason
      BY CallAssumption
    <2> QED BY <2>1, <2>2 DEF Forget, ReasonKept, Fixes, StopReason
  <1> QED BY <1>1, <1>2, <1>3, <1>4 DEF Inductive

\* A step of the stream keeps what is known of the loop.
LEMMA LoopKept == Inductive /\ [ChatNext]_chat_vars => Inductive'
  <1> SUFFICES ASSUME Inductive, [ChatNext]_chat_vars PROVE Inductive'
    OBVIOUS
  <1>1. CASE [Next]_vars
    BY <1>1, StepInductive
  <1>2. CASE Forget
    BY <1>2, ForgetIsInductive
  <1>3. [Next]_vars \/ Forget
    BY DEF ChatNext, AgentStep, AgentDone, AgentFails, Record, AgentGone, UiStep, Relay,
           EndOfStream, GiveUp, HttpError, DrawFails, BrowserLeaves, chat_vars
  <1> QED BY <1>1, <1>2, <1>3

-----------------------------------------------------------------------------
(* The stream above the loop *)

\* It holds at the start.
LEMMA InitInHand == ChatInit => Inductive /\ TypeOK /\ InHand
  <1> SUFFICES ASSUME ChatInit PROVE Inductive /\ TypeOK /\ InHand
    OBVIOUS
  <1>1. Inductive
    BY InitInductive DEF ChatInit
  <1>2. TypeOK
    BY <1>1 DEF ChatInit, TypeOK, Inductive
  <1>3. Said = <<>> /\ pc = "start"
    BY DEF ChatInit, Init, Said
  <1> QED BY <1>1, <1>2, <1>3 DEF ChatInit, InHand, SaidInHand

\* What is sent keeps the wire a sequence of events, and comes after all that was said.
LEMMA SentIsSaid ==
    ASSUME TypeOK, NEW events \in Seq(Event), Sent(events), UNCHANGED <<ui, screen>>
    PROVE  /\ wire' \in Seq(Event)
           /\ ui = "relaying" => Said' = Said \o events
           /\ ui # "relaying" => wire' = wire
  <1>1. ui = "relaying" => wire' = wire \o events
    BY DEF Sent
  <1>2. screen \o (wire \o events) = (screen \o wire) \o events
    <2>1. screen \in Seq(Event) /\ wire \in Seq(Event) /\ events \in Seq(Event)
      BY DEF TypeOK
    <2> QED BY <2>1, ConcatAssociative, SMTT(40)
  <1>3. ui # "relaying" => wire' = wire
    BY DEF Sent
  <1>4. ui = "relaying" => Said' = Said \o events
    BY <1>1, <1>2 DEF Said
  <1>5. wire' \in Seq(Event)
    <2>1. wire \in Seq(Event)
      BY DEF TypeOK
    <2>2. wire \o events \in Seq(Event)
      BY <2>1
    <2>3. CASE ui = "relaying"
      BY <1>1, <2>2, <2>3
    <2>4. CASE ui # "relaying"
      BY <1>3, <2>1, <2>4
    <2> QED BY <2>3, <2>4
  <1> QED BY <1>3, <1>4, <1>5

\* Each step keeps the types.
LEMMA ChatTypes == Inductive /\ TypeOK /\ [ChatNext]_chat_vars => TypeOK'
  <1> SUFFICES ASSUME Inductive, TypeOK, [ChatNext]_chat_vars PROVE TypeOK'
    OBVIOUS
  <1>0. LoopTypeOK'
    BY LoopKept DEF Inductive
  <1>1. CASE AgentStep
    <2>1. CASE pc' = "end"
      <3>1. stop' \in StopReason
        BY <1>1, <2>1, EndsWithReason DEF AgentStep
      <3>2. <<stop'>> \in Seq(Event) /\ [failed |-> FALSE, stop |-> stop'] \in Run
        BY <3>1, EventsDiffer DEF Run
      <3>3. wire' \in Seq(Event) /\ run' \in Run
        BY <1>1, <2>1, <3>2, SentIsSaid DEF AgentStep
      <3> QED BY <1>0, <1>1, <3>3 DEF AgentStep, TypeOK
    <2>2. CASE pc' # "end"
      BY <1>0, <1>1, <2>2 DEF AgentStep, TypeOK
    <2> QED BY <2>1, <2>2
  <1>2. CASE AgentDone
    <2>1. wire' \in Seq(Event)
      <3>1. <<"done">> \in Seq(Event)
        BY EventsDiffer
      <3> QED BY <1>2, <3>1, SentIsSaid DEF AgentDone
    <2> QED BY <1>0, <1>2, <2>1 DEF AgentDone, TypeOK
  <1>3. CASE AgentFails
    <2>1. wire' \in Seq(Event) /\ FailedRun \in Run
      <3>1. <<"error", "done">> \in Seq(Event)
        BY EventsDiffer
      <3> QED BY <1>3, <3>1, SentIsSaid DEF AgentFails, FailedRun, Run
    <2> QED BY <1>0, <1>3, <2>1 DEF AgentFails, TypeOK
  <1>4. CASE Record \/ AgentGone
    BY <1>0, <1>4 DEF Record, AgentGone, TypeOK
  <1>5. CASE Relay
    <2>1. /\ Head(wire) \in Event /\ Tail(wire) \in Seq(Event)
          /\ Append(screen, Head(wire)) \in Seq(Event)
      BY <1>5, HeadTailProperties, AppendProperties DEF Relay, TypeOK
    <2> QED BY <1>0, <1>5, <2>1 DEF Relay, TypeOK
  <1>6. CASE EndOfStream
    <2>1. screen \o DoneIfMissing \in Seq(Event)
      BY EventsDiffer DEF DoneIfMissing, TypeOK
    <2> QED BY <1>0, <1>6, <2>1 DEF EndOfStream, TypeOK
  <1>7. CASE HttpError
    <2>1. (screen \o <<"error">>) \o DoneIfMissing \in Seq(Event)
      BY EventsDiffer DEF DoneIfMissing, TypeOK
    <2> QED BY <1>0, <1>7, <2>1 DEF HttpError, TypeOK
  <1>8. CASE DrawFails
    <2>1. screen \o <<"error", "done">> \in Seq(Event)
      BY EventsDiffer DEF TypeOK
    <2> QED BY <1>0, <1>8, <2>1 DEF DrawFails, TypeOK
  <1>9. CASE BrowserLeaves
    BY <1>0, <1>9 DEF BrowserLeaves, TypeOK
  <1>10. CASE UNCHANGED chat_vars
    BY <1>0, <1>10 DEF chat_vars, stream_vars, TypeOK
  <1> QED BY <1>1, <1>2, <1>3, <1>4, <1>5, <1>6, <1>7, <1>8, <1>9, <1>10
          DEF ChatNext, UiStep, GiveUp

\* What a step of the agent does, told by what is said and by the run.
LEMMA AgentKeeps ==
    ASSUME Inductive, TypeOK, InHand, AgentStep \/ AgentDone \/ AgentFails \/ Record \/ AgentGone
    PROVE  InHand'
  <1>1. ui' = ui /\ screen' = screen /\ \A q : Has(q)' = Has(q)
    BY DEF AgentStep, AgentDone, AgentFails, Record, AgentGone, Has
  <1>2. ASSUME AgentStep PROVE InHand'
    <2>1. /\ agent = "streaming" /\ agent' = agent /\ record' = record
          /\ pc # "end" /\ (pc' = "end" => stop' \in StopReason)
      BY <1>2, EndsWithReason DEF AgentStep
    <2>2. CASE pc' = "end"
      <3>1. /\ stop' \in StopReason /\ run' = Answered(stop')
            /\ Sent(<<stop'>>) /\ <<stop'>> \in Seq(Event)
        BY <1>2, <2>1, <2>2, EventsDiffer DEF AgentStep, Answered
      <3>2. /\ ui = "relaying" => Said' = Said \o <<stop'>>
            /\ ui # "relaying" => wire' = wire
        BY <1>1, <3>1, SentIsSaid
      <3>3. ui = "relaying" => Said' = <<stop'>>
        BY <2>1, <3>2 DEF InHand, SaidInHand
      <3>4. SaidInHand'
        BY <1>1, <2>1, <2>2, <3>1, <3>3 DEF SaidInHand
      <3>5. ui # "relaying" => ScreenIsWhole' /\ AnswerInHand'
        BY <1>1, <2>1 DEF InHand, ScreenIsWhole, Count, AnswerInHand
      <3> QED BY <1>1, <2>1, <3>2, <3>4, <3>5 DEF InHand
    <2>3. CASE pc' # "end"
      <3>1. run' = run /\ wire' = wire /\ Said' = Said
        BY <1>1, <1>2, <2>3 DEF AgentStep, Said
      <3>2. SaidInHand'
        BY <1>1, <2>1, <2>3, <3>1 DEF InHand, SaidInHand
      <3>3. ui # "relaying" => ScreenIsWhole' /\ AnswerInHand'
        BY <1>1, <2>1 DEF InHand, ScreenIsWhole, Count, AnswerInHand
      <3> QED BY <1>1, <2>1, <3>1, <3>2, <3>3 DEF InHand
    <2> QED BY <2>2, <2>3
  <1>3. ASSUME AgentDone PROVE InHand'
    <2>1. /\ agent = "streaming" /\ pc = "end" /\ agent' = "done" /\ run' = run /\ record' = record
          /\ Sent(<<"done">>) /\ <<"done">> \in Seq(Event)
      BY <1>3, EventsDiffer DEF AgentDone
    <2>2. /\ ui = "relaying" => Said' = Said \o <<"done">>
          /\ ui # "relaying" => wire' = wire
      BY <1>1, <2>1, SentIsSaid
    <2>3. SaidInHand'
      <3>1. ASSUME ui = "relaying"
            PROVE  stop \in StopReason /\ run = Answered(stop) /\ Said = <<stop>>
        BY <2>1, <3>1 DEF InHand, SaidInHand
      <3>2. ASSUME ui = "relaying" PROVE Said' = <<stop, "done">>
        BY <2>2, <3>1, <3>2, JoinTwo
      <3> QED BY <1>1, <2>1, <3>1, <3>2 DEF SaidInHand
    <2>4. ui # "relaying" => ScreenIsWhole' /\ AnswerInHand'
      BY <1>1, <2>1 DEF InHand, ScreenIsWhole, Count, AnswerInHand
    <2> QED BY <1>1, <2>1, <2>2, <2>3, <2>4 DEF InHand
  <1>4. ASSUME AgentFails PROVE InHand'
    <2>1. /\ agent = "streaming" /\ pc # "end" /\ agent' = "done" /\ run' = FailedRun
          /\ record' = record
          /\ Sent(<<"error", "done">>) /\ <<"error", "done">> \in Seq(Event)
      BY <1>4, EventsDiffer DEF AgentFails
    <2>2. /\ ui = "relaying" => Said' = Said \o <<"error", "done">>
          /\ ui # "relaying" => wire' = wire
      BY <1>1, <2>1, SentIsSaid
    <2>3. ui = "relaying" => Said' = <<"error", "done">>
      BY <2>1, <2>2 DEF InHand, SaidInHand
    <2>4. SaidInHand'
      BY <1>1, <2>1, <2>3 DEF SaidInHand
    <2>5. ui # "relaying" => ScreenIsWhole' /\ AnswerInHand'
      BY <1>1, <2>1 DEF InHand, ScreenIsWhole, Count, AnswerInHand
    <2> QED BY <1>1, <2>1, <2>2, <2>4, <2>5 DEF InHand
  <1>5. ASSUME Record PROVE InHand'
    <2>1. /\ agent = "done" /\ agent' = "closed" /\ record' \in {None, run} /\ run' = run
          /\ wire' = wire /\ Said' = Said
      BY <1>1, <1>5 DEF Record, Said
    <2>2. SaidInHand'
      BY <1>1, <2>1 DEF InHand, SaidInHand
    <2>3. ui # "relaying" => ScreenIsWhole' /\ AnswerInHand'
      BY <1>1, <2>1 DEF InHand, ScreenIsWhole, Count, AnswerInHand
    <2> QED BY <1>1, <2>1, <2>2, <2>3 DEF InHand
  <1>6. ASSUME AgentGone PROVE InHand'
    <2>1. /\ agent \in {"streaming", "done"} /\ agent' = "gone" /\ record' = record
          /\ wire' = wire /\ Said' = Said
      BY <1>1, <1>6 DEF AgentGone, Said
    <2>2. SaidInHand'
      BY <1>1, <2>1 DEF InHand, SaidInHand
    <2>3. ui # "relaying" => ScreenIsWhole' /\ AnswerInHand'
      BY <1>1, <2>1 DEF InHand, ScreenIsWhole, Count, AnswerInHand
    <2> QED BY <1>1, <2>1, <2>2, <2>3 DEF InHand
  <1> QED BY <1>2, <1>3, <1>4, <1>5, <1>6

\* What a step of the ui does, told by what is on the screen.
LEMMA UiKeeps ==
    ASSUME TypeOK, InHand, Relay \/ EndOfStream \/ HttpError \/ DrawFails \/ BrowserLeaves
    PROVE  InHand'
  <1> USE EventsDiffer
  <1>1. /\ ui = "relaying" /\ agent' = agent /\ run' = run /\ record' = record
        /\ pc' = pc /\ stop' = stop
        /\ SaidInHand /\ ScreenIsWhole /\ AnswerInHand
    BY RelayingIsWhole DEF InHand, Relay, EndOfStream, HttpError, DrawFails, BrowserLeaves, vars
  <1>2. record' # None => agent' = "closed" /\ record' = run'
    BY <1>1 DEF InHand
  \* A screen that ends whole, and shows no answer that was not there.
  <1>3. ASSUME ui' = "ended", wire' = <<>>, Whole(screen'), Has("done")',
               Often(screen', StopReason \cup {"error"}) >= 1,
               \A q \in StopReason : Has(q)' => Has(q)
        PROVE  InHand'
    <2>1. ScreenIsWhole'
      BY <1>3 DEF ScreenIsWhole, Whole, Count, Often
    <2>2. AnswerInHand'
      BY <1>1, <1>3 DEF AnswerInHand
    <2>3. SaidInHand'
      BY <1>3 DEF SaidInHand
    <2> QED BY <1>2, <1>3, <2>1, <2>2, <2>3 DEF InHand
  <1>4. CASE Relay
    <2>1. Said' = Said /\ ui' = ui
      BY <1>4, RelayKeeps DEF Relay, Said, TypeOK
    <2>2. SaidInHand'
      BY <1>1, <2>1 DEF SaidInHand
    <2> QED BY <1>1, <1>2, <2>1, <2>2 DEF InHand
  <1>5. CASE EndOfStream
    <2>1. wire = <<>> /\ agent = "closed" /\ wire' = wire /\ ui' = "ended"
          /\ screen' = screen \o DoneIfMissing
      BY <1>5 DEF EndOfStream
    <2>2. Said = screen
      BY <2>1, ConcatEmptySeq DEF Said, TypeOK
    <2>3. PICK r \in StopReason : screen \in {<<r, "done">>, <<"error", "done">>}
      BY <1>1, <2>1, <2>2, SaidIsSayable DEF SaidInHand
    <2>4. Has("done")
      BY <2>3 DEF Has
    <2>5. screen' = screen
      BY <2>1, <2>4, ConcatEmptySeq DEF DoneIfMissing, TypeOK
    <2>6. Whole(screen) /\ Often(screen, StopReason \cup {"error"}) >= 1
      BY <2>3, WholeAtTheEnd
    <2> QED BY <1>3, <2>1, <2>4, <2>5, <2>6 DEF Has
  <1>6. CASE HttpError
    <2>1. /\ screen' = screen \o <<"error">> \o DoneIfMissing
          /\ ui' = "ended" /\ wire' = <<>>
      BY <1>6 DEF HttpError
    <2>2. PICK r \in StopReason : Broken(screen, screen', r)
      BY <1>1, <2>1, ErrorBreaks
    <2>3. /\ Whole(screen') /\ Often(screen', StopReason \cup {"error"}) >= 1
          /\ Has("done")' /\ \A q \in StopReason : Has(q)' => Has(q)
      <3>1. PICK q \in StopReason : Broken(screen, screen', q)
        BY <2>2
      <3>2. Whole(screen') /\ Often(screen', StopReason \cup {"error"}) >= 1
        BY <3>1, BrokenIsWhole
      <3>3. Has("done")'
        BY <3>1, BrokenIsWhole DEF Has
      <3>4. ASSUME NEW p \in StopReason, Has(p)' PROVE Has(p)
        BY <3>1, <3>4, BrokenIsWhole DEF Has
      <3> QED BY <3>2, <3>3, <3>4
    <2> QED BY <1>3, <2>1, <2>3
  <1>7. CASE DrawFails
    <2>1. /\ wire # <<"done">> /\ (wire # <<>> \/ (agent = "streaming" /\ pc = "tool"))
          /\ screen' = screen \o <<"error", "done">>
          /\ ui' = "ended" /\ wire' = <<>>
      BY <1>7 DEF DrawFails
    <2>2. screen = <<>>
      <3>1. CASE wire # <<>>
        BY <1>1, <2>1, <3>1, SaidIsSayable, Prefixes DEF Said, TypeOK
      <3>2. CASE agent = "streaming" /\ pc = "tool"
        BY <1>1, <3>2, SplitNone DEF SaidInHand, Said, TypeOK
      <3> QED BY <2>1, <3>1, <3>2
    <2>3. screen' = <<"error", "done">>
      BY <2>1, <2>2
    <2>4. \E r \in StopReason : Broken(screen, screen', r)
      BY <1>1, <2>2, <2>3, SaidIsSayable DEF Broken
    <2>5. /\ Whole(screen') /\ Often(screen', StopReason \cup {"error"}) >= 1
          /\ Has("done")' /\ \A q \in StopReason : Has(q)' => Has(q)
      <3>1. PICK q \in StopReason : Broken(screen, screen', q)
        BY <2>4
      <3>2. Whole(screen') /\ Often(screen', StopReason \cup {"error"}) >= 1
        BY <3>1, BrokenIsWhole
      <3>3. Has("done")'
        BY <3>1, BrokenIsWhole DEF Has
      <3>4. ASSUME NEW p \in StopReason, Has(p)' PROVE Has(p)
        BY <3>1, <3>4, BrokenIsWhole DEF Has
      <3> QED BY <3>2, <3>3, <3>4
    <2> QED BY <1>3, <2>1, <2>5
  <1>8. CASE BrowserLeaves
    <2>1. ui' = "left" /\ wire' = <<>> /\ screen' = screen
      BY <1>8 DEF BrowserLeaves
    <2>2. ScreenIsWhole' /\ AnswerInHand'
      BY <1>1, <2>1 DEF ScreenIsWhole, Count, AnswerInHand, Has
    <2> QED BY <1>2, <2>1, <2>2 DEF InHand, SaidInHand
  <1> QED BY <1>4, <1>5, <1>6, <1>7, <1>8

-----------------------------------------------------------------------------
(* The theorems *)

\* Whatever breaks, what is said follows the run, and a screen that has ended is whole.
THEOREM ChatInductive == ChatSpec => [](Inductive /\ TypeOK /\ InHand)
  <1>1. Inductive /\ TypeOK /\ InHand /\ [ChatNext]_chat_vars => InHand'
    <2> SUFFICES ASSUME Inductive, TypeOK, InHand, [ChatNext]_chat_vars PROVE InHand'
      OBVIOUS
    <2>1. CASE UNCHANGED chat_vars
      BY <2>1 DEF chat_vars, vars, stream_vars, InHand, SaidInHand, Said, ScreenIsWhole, Count,
                  AnswerInHand, Has
    <2> QED BY <2>1, AgentKeeps, UiKeeps DEF ChatNext, UiStep, GiveUp
  <1> QED BY <1>1, InitInHand, LoopKept, ChatTypes, PTL DEF ChatSpec

\* Whatever breaks, the browser sees at most one answer and one "done", and a stream that ends
\* ends with "done" and an answer or an error (ScreenIsWhole).
THEOREM WholeScreens == ChatSpec => []ScreenIsWhole
  <1>1. TypeOK /\ InHand => ScreenIsWhole
    BY RelayingIsWhole DEF InHand
  <1> QED BY <1>1, ChatInductive, PTL

\* The audit log tells of the answer that was sent (RecordMatchesAnswer).
THEOREM RecordsMatch == ChatSpec => []RecordMatchesAnswer
  <1>1. TypeOK /\ InHand => RecordMatchesAnswer
    <2> SUFFICES ASSUME TypeOK, InHand, record # None, NEW q \in StopReason, Has(q)
                 PROVE  record = [failed |-> FALSE, stop |-> q]
      BY DEF RecordMatchesAnswer
    <2>1. AnswerInHand
      BY RelayingIsWhole DEF InHand
    <2> QED BY <2>1 DEF InHand, AnswerInHand, Answered
  <1> QED BY <1>1, ChatInductive, PTL

\* What the loop keeps to it keeps to in a stream that can end at any moment too: its limits,
\* and the reason it stops for (WithinLimits, StopIsTrue).
THEOREM LoopInStream == ChatSpec => [](WithinLimits /\ StopIsTrue)
  BY LimitsFollow, ReasonFollows, ChatInductive, PTL
=============================================================================
