----------------------------- MODULE QueryLoop -----------------------------
(***************************************************************************)
(* AnswerQuestion: one question answered by a short loop of model calls    *)
(* and tool calls.  A call is a tool's name with its arguments; what the   *)
(* executor (RunTool) and the api make of it is a code.  Time is counted   *)
(* in ticks: a call of the model or of the api takes one tick at most, its *)
(* time limit, and so does a pause; a try of a tool can be many calls and  *)
(* a wait.  Costs are in units of which a reply takes at most MaxPrice.    *)
(***************************************************************************)
EXTENDS Naturals, Sequences, FiniteSets

CONSTANTS
    Calls,       \* what a model may ask for: a tool name with arguments
    ToolOf,      \* call -> the name of its tool
    Offered,     \* the tools of query mode
    WellFormed,  \* the calls whose arguments parse
    Checked,     \* call -> the call with its category corrected, None if it cannot be
    None,        \* no call, no reason to stop
    MaxSteps,    \* LoopLimits.max_steps
    MaxCost,     \* LoopLimits.max_cost_usd
    WallSeconds, \* LoopLimits.wall_seconds
    MaxPrice,    \* bound: the cost of one model call
    TryTicks,    \* bound: the ticks one try of a tool takes (see RetryTool)
    Width        \* bound: the calls in one reply

Fixes == 2          \* FIXES_PER_TOOL
ServerRetries == 2  \* _SERVER_RETRIES

Tools == {ToolOf[c] : c \in Calls}
Limits == {"max_steps", "max_cost", "wall_clock"}
StopReason == Limits \cup {"answered", "repeated", "tool_failed", "malformed",
                           "model_unavailable", "ledger_unavailable"}

ASSUME CallAssumption ==
    /\ Checked \in [Calls -> Calls \cup {None}]
    /\ None \notin Calls \cup StopReason
    /\ \A c \in Calls : Checked[c] # None => ToolOf[Checked[c]] = ToolOf[c]
ASSUME LimitAssumption ==
    /\ {MaxSteps, MaxCost, WallSeconds, TryTicks, Width} \subseteq Nat \ {0}
    /\ MaxPrice \in Nat

VARIABLES
    pc,         \* "start", "look" (at the limits), "calls", "tool", "end"
    calls,      \* LoopState.calls: model calls made
    cost,       \* LoopState.usage.cost_usd
    spent,      \* what the model calls have cost, malformed replies included
    elapsed,    \* the timer since LoopState.started
    quiet,      \* ticks since the last event was yielded
    malformed,  \* LoopState.malformed
    seen,       \* LoopState._seen: the calls asked for
    steps,      \* LoopState.steps, without their order: [asked, ran, code], one for each call asked
    todo,       \* the calls of the current reply that are left
    tries,      \* repetitions of the current tool call
    stop        \* why the loop stops, None while it goes on

vars == <<pc, calls, cost, spent, elapsed, quiet, malformed, seen, steps, todo, tries, stop>>
conversation == <<seen, steps, todo, tries>>
budget == <<calls, cost, spent>>

\* An envelope; "other" is one the loop takes as it comes: rows, not_found, another refusal.
Code == {"validation_error", "internal_error", "other"}
Step == [asked : Calls, ran : Calls, code : Code]
Reply == UNION {[1..n -> Calls] : n \in 1..Width}

Init ==
    /\ pc = "start" /\ stop = None
    /\ calls = 0 /\ cost = 0 /\ spent = 0 /\ elapsed = 0 /\ quiet = 0 /\ tries = 0
    /\ malformed = FALSE
    /\ seen = {} /\ steps = {} /\ todo = <<>>

\* What is waited for takes d ticks; yielding an event ends the silence.
Takes(d) == elapsed' = elapsed + d /\ quiet' = quiet + d
Yields == quiet' = 0 /\ UNCHANGED elapsed

\* The outcome is yielded with the reason.
Finish(reason) == pc' = "end" /\ stop' = reason

\* GET /v1/categories, whose failure (a refusal too) ends the run before it began.
ReadDictionary(d) ==
    /\ pc = "start"
    /\ Takes(d)
    /\ \/ pc' = "look" /\ UNCHANGED stop
       \/ Finish("ledger_unavailable")
    /\ UNCHANGED <<budget, malformed, conversation>>

\* What keeps the loop from another model call.
Limit ==
    IF calls >= MaxSteps THEN "max_steps"
    ELSE IF cost >= MaxCost THEN "max_cost"
    ELSE IF elapsed >= WallSeconds THEN "wall_clock"
    ELSE None

StopAtLimit ==
    /\ pc = "look" /\ Limit # None
    /\ Finish(Limit)
    /\ UNCHANGED <<budget, elapsed, quiet, malformed, conversation>>

ModelDown(d) ==
    /\ pc = "look" /\ Limit = None
    /\ Takes(d)
    /\ Finish("model_unavailable")
    /\ UNCHANGED <<budget, malformed, conversation>>

\* A reply of the wrong shape is asked for once more; its cost is not counted.
ModelMalformed(d, p) ==
    /\ pc = "look" /\ Limit = None
    /\ Takes(d)
    /\ calls' = calls + 1 /\ spent' = spent + p
    /\ malformed' = TRUE
    /\ IF malformed THEN Finish("malformed") ELSE UNCHANGED <<pc, stop>>
    /\ UNCHANGED <<cost, conversation>>

Counted(d, p) ==
    /\ pc = "look" /\ Limit = None
    /\ Takes(d)
    /\ calls' = calls + 1 /\ cost' = cost + p /\ spent' = spent + p
    /\ UNCHANGED malformed

ModelAnswers(d, p) ==
    /\ Counted(d, p)
    /\ Finish("answered")
    /\ UNCHANGED conversation

ModelCalls(d, p, reply) ==
    /\ Counted(d, p)
    /\ pc' = "calls" /\ todo' = reply
    /\ UNCHANGED <<stop, seen, steps, tries>>

\* The same tool with the same arguments: nothing new can come of it.
Repeated ==
    /\ pc = "calls" /\ todo # <<>> /\ Head(todo) \in seen
    /\ Finish("repeated")
    /\ UNCHANGED <<budget, elapsed, quiet, malformed, conversation>>

\* The tool's name is yielded before the tool runs.
StartTool ==
    /\ pc = "calls" /\ todo # <<>> /\ Head(todo) \notin seen
    /\ pc' = "tool" /\ seen' = seen \cup {Head(todo)} /\ tries' = 0
    /\ Yields
    /\ UNCHANGED <<budget, malformed, steps, todo, stop>>

EndReply ==
    /\ pc = "calls" /\ todo = <<>>
    /\ pc' = IF stop = None THEN "look" ELSE "end"
    /\ UNCHANGED <<budget, elapsed, quiet, malformed, conversation, stop>>

\* How often a tool was called with arguments it refused.
Failures(ss, tool) ==
    Cardinality({s \in ss : ToolOf[s.asked] = tool /\ s.code = "validation_error"})

\* (mistake) A later call of the same reply takes the reason back.
Observe_LastOnly(ran, code) ==
    LET call == Head(todo) IN
    /\ steps' = steps \cup {[asked |-> call, ran |-> ran, code |-> code]}
    /\ stop' = IF code = "validation_error" /\ Failures(steps', ToolOf[call]) > Fixes
               THEN "tool_failed" ELSE None
    /\ todo' = Tail(todo)
    /\ pc' = "calls"
    /\ UNCHANGED <<budget, malformed, seen, tries>>

\* The result becomes a step; a tool that was refused too often stops the loop after this reply.
Observe(ran, code) ==
    LET call == Head(todo) IN
    /\ steps' = steps \cup {[asked |-> call, ran |-> ran, code |-> code]}
    /\ stop' = IF code = "validation_error" /\ Failures(steps', ToolOf[call]) > Fixes
               THEN "tool_failed" ELSE stop
    /\ todo' = Tail(todo)
    /\ pc' = "calls"
    /\ UNCHANGED <<budget, malformed, seen, tries>>

\* A category outside the dictionary that nothing can be made of is refused without a call.
RefuseCategory ==
    /\ pc = "tool" /\ Checked[Head(todo)] = None
    /\ Observe(Head(todo), "validation_error")
    /\ UNCHANGED <<elapsed, quiet>>

\* RunTool: what is not offered or does not parse is refused without asking the api.
ReachesApi(c) == ToolOf[c] \in Offered /\ c \in WellFormed
Envelopes(c) == IF ReachesApi(c) THEN Code ELSE {"validation_error"}

Retryable(code) == code = "internal_error" /\ tries < ServerRetries

\* (mistake) Tool calls are repeated for as long as the api cannot be reached.
RetryTool_Forever(d) ==
    /\ pc = "tool" /\ Checked[Head(todo)] # None
    /\ ReachesApi(Checked[Head(todo)])
    /\ Takes(d)
    /\ UNCHANGED <<pc, budget, malformed, conversation, stop>>

\* The api could not be reached: after a pause the same call again, whatever the limits say.
\* A try of search_documents first waits at the lock of the index, behind the syncs of other
\* questions, then makes up to 20 rounds of a pull, an embedding and up to 100 writes, embeds
\* the question and searches, each a call with a time limit of its own; a comparison asks twice.
\* All of this is TryTicks, and d is a try that failed with the pause after it.
RetryTool(d) ==
    /\ pc = "tool" /\ Checked[Head(todo)] # None
    /\ ReachesApi(Checked[Head(todo)]) /\ Retryable("internal_error")
    /\ Takes(d)
    /\ tries' = tries + 1
    /\ UNCHANGED <<pc, budget, malformed, seen, steps, todo, stop>>

ToolAnswers(d, code) ==
    LET c == Checked[Head(todo)] IN
    /\ pc = "tool" /\ c # None
    /\ code \in Envelopes(c) /\ ~Retryable(code)
    /\ Takes(IF ReachesApi(c) THEN d ELSE 0)
    /\ Observe(c, code)

Ticks == 0..1

Next ==
    \/ \E d \in Ticks : ReadDictionary(d) \/ ModelDown(d)
    \/ \E d \in 0..(TryTicks + 1) : RetryTool(d)
    \/ \E d \in Ticks, p \in 0..MaxPrice : ModelMalformed(d, p) \/ ModelAnswers(d, p)
    \/ \E d \in Ticks, p \in 0..MaxPrice, reply \in Reply : ModelCalls(d, p, reply)
    \/ StopAtLimit \/ Repeated \/ StartTool \/ EndReply \/ RefuseCategory
    \/ \E d \in 0..TryTicks, code \in Code : ToolAnswers(d, code)

Spec == Init /\ [][Next]_vars

-----------------------------------------------------------------------------

LoopTypeOK ==
    /\ pc \in {"start", "look", "calls", "tool", "end"}
    /\ {calls, cost, spent, elapsed, quiet} \subseteq Nat
    /\ tries \in 0..ServerRetries
    /\ malformed \in BOOLEAN
    /\ seen \subseteq Calls
    /\ steps \subseteq Step /\ todo \in Seq(Calls) /\ Len(todo) <= Width
    /\ stop \in StopReason \cup {None}
    /\ pc = "tool" => todo # <<>>

\* The time of one call of a reply: its tries and the pauses between them.
CallTicks == (ServerRetries + 1) * TryTicks + ServerRetries

\* The limits are looked at before a model call only, and a malformed reply is not paid for in
\* the books; yet a run overdraws each limit by what one reply can do: its own cost and two
\* malformed ones', and of each of its calls three tries and the two pauses between them,
\* however many calls of the api a try is (AnswerQuestion._limit, _tool).
WithinLimits ==
    /\ calls <= MaxSteps
    /\ cost < MaxCost + MaxPrice
    /\ spent <= cost + 2 * MaxPrice
    /\ elapsed <= WallSeconds + CallTicks * Width

\* The model is asked again only while every tool has a fix left, and the reason to stop is
\* what happened: a tool failed too often only if it did, a call is repeated only if it was
\* asked before, and a run that went past its calls did not come to a limit (AnswerQuestion.__call__).
StopIsTrue ==
    /\ pc = "look" => \A t \in Tools : Failures(steps, t) <= Fixes
    /\ stop = "tool_failed" => \E t \in Tools : Failures(steps, t) > Fixes
    /\ stop = "repeated" => /\ todo # <<>> /\ Head(todo) \in seen
                            /\ \A s \in steps : s.asked \in seen
    /\ stop \in Limits \cup {"answered", "malformed"} =>
           todo = <<>> /\ \A t \in Tools : Failures(steps, t) <= Fixes
    /\ stop = "malformed" => malformed /\ calls >= 2

\* Between two events the agent is silent for one call of a tool, with its tries and pauses,
\* and two of the model, a malformed reply and the next one (AnswerQuestion.__call__, _tool).
SilenceIsBounded == quiet <= CallTicks + 2
=============================================================================
