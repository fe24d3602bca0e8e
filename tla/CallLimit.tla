------------------------------ MODULE CallLimit ------------------------------
(***************************************************************************)
(* mcp_server: the calls of one client under the limit of calls per        *)
(* minute, each answered with an envelope and then recorded.  The clock    *)
(* counts in ticks, TicksPerSecond of them a second.                       *)
(***************************************************************************)
EXTENDS Integers, Sequences, FiniteSets, FiniteSetsExt

CONSTANTS
    PerMinute,       \* the limit
    WindowSeconds,   \* WINDOW_SECONDS
    TicksPerSecond,  \* bound: how finely the clock is looked at
    MaxTick,         \* bound: when the clock stops
    CallId           \* bound: the calls that may be made

ASSUME LimitAssumption ==
    PerMinute \in Nat \ {0} /\ WindowSeconds \in Nat \ {0} /\ TicksPerSecond \in Nat \ {0}

VARIABLES
    tick,      \* the monotonic clock
    counted,   \* _calls: when the calls of the last minute came
    call,      \* id -> what became of it
    accepted,  \* when every call that was let through came, in order
    told       \* the last wait that was told: until when, and the calls let through until then

limit_vars == <<tick, counted, call, accepted, told>>

WindowTicks == WindowSeconds * TicksPerSecond
CeilSeconds(ticks) == (ticks + TicksPerSecond - 1) \div TicksPerSecond

(***************************************************************************)
(* RateLimit.take                                                          *)
(***************************************************************************)

From(calls, kept) == IF kept = {} THEN <<>> ELSE SubSeq(calls, Min(kept), Len(calls))

\* (mistake) A call exactly as old as the window still counts.
Live_Longer(calls) == From(calls, {i \in DOMAIN calls : tick - calls[i] <= WindowTicks})

\* What is left when the calls as old as the window are taken from the front.
Live(calls) == From(calls, {i \in DOMAIN calls : tick - calls[i] < WindowTicks})

Full(calls) == Len(calls) >= PerMinute
Wait(calls) ==
    LET seconds == CeilSeconds(WindowTicks - (tick - calls[1])) IN IF seconds < 1 THEN 1 ELSE seconds

(***************************************************************************)
(* CallTool                                                                *)
(***************************************************************************)

LimitInit ==
    /\ tick = 0 /\ counted = <<>> /\ accepted = <<>>
    /\ call = [c \in CallId |-> "none"]
    /\ told = [until |-> 0, after |-> 0]

\* A refused call reaches neither the api nor the record of runs.
Refuse(c) ==
    /\ call[c] = "none" /\ Full(Live(counted))
    /\ counted' = Live(counted)
    /\ call' = [call EXCEPT ![c] = "rate_limited"]
    /\ told' = [until |-> tick + Wait(Live(counted)) * TicksPerSecond, after |-> Len(accepted)]
    /\ UNCHANGED <<tick, accepted>>

Accept(c) ==
    /\ call[c] = "none" /\ ~Full(Live(counted))
    /\ counted' = Append(Live(counted), tick)
    /\ accepted' = Append(accepted, tick)
    /\ call' = [call EXCEPT ![c] = "running"]
    /\ UNCHANGED <<tick, told>>

\* Every outcome of the call is an envelope, and every envelope is sent to be recorded.
Answer(c, code) ==
    /\ call[c] = "running"
    /\ call' = [call EXCEPT ![c] = code]
    /\ UNCHANGED <<tick, counted, accepted, told>>

\* The record may fail: the answer goes out all the same.
RecordRun(c, ok) ==
    /\ call[c] \in {"ok", "validation_error", "rejected", "internal_error"}
    /\ call' = [call EXCEPT ![c] = IF ok THEN "recorded" ELSE "unrecorded"]
    /\ UNCHANGED <<tick, counted, accepted, told>>

Tick == tick < MaxTick /\ tick' = tick + 1 /\ UNCHANGED <<counted, call, accepted, told>>

LimitNext ==
    \/ \E c \in CallId :
          \/ Refuse(c)
          \/ Accept(c)
          \/ \E code \in {"ok", "validation_error", "rejected", "internal_error"} : Answer(c, code)
          \/ \E ok \in BOOLEAN : RecordRun(c, ok)
    \/ Tick

LimitSpec == LimitInit /\ [][LimitNext]_limit_vars

-----------------------------------------------------------------------------

LimitTypeOK ==
    /\ tick \in Nat /\ counted \in Seq(Nat) /\ accepted \in Seq(Nat)
    /\ call \in [CallId -> {"none", "rate_limited", "running", "ok", "validation_error", "rejected",
                            "internal_error", "recorded", "unrecorded"}]
    /\ told \in [until : Nat, after : Nat]

\* Counted are the last calls that were let through; the ones before are as old as the window.
CountedAreLast ==
    LET gone == Len(accepted) - Len(counted) IN
    /\ gone >= 0 /\ Len(counted) <= PerMinute
    /\ \A i \in 1..Len(counted) : counted[i] = accepted[gone + i]
    /\ \A i \in 1..gone : tick - accepted[i] >= WindowTicks

\* Calls are let through in order, and between one and the next but PerMinute lies a window.
CallsAreSpread ==
    /\ \A i \in DOMAIN accepted : accepted[i] <= tick
    /\ \A i, j \in DOMAIN accepted : i <= j => accepted[i] <= accepted[j]
    /\ \A i, j \in DOMAIN accepted : j = i + PerMinute => accepted[j] - accepted[i] >= WindowTicks

\* Until then the oldest call counted when it was told is gone.
WaitIsEnough ==
    /\ told.until - tick <= WindowTicks /\ told.after <= Len(accepted)
    /\ told.after = Len(accepted) /\ Len(counted) = PerMinute => counted[1] + WindowTicks <= told.until

LimitInductive == LimitTypeOK /\ CountedAreLast /\ CallsAreSpread /\ WaitIsEnough

-----------------------------------------------------------------------------

\* In no stretch of a minute more calls are let through than the limit, wherever it begins; who
\* waits as long as told is let through unless others came first, and nobody is told to wait
\* longer than the minute (RateLimit.take).
MinuteHolds ==
    /\ \A i \in DOMAIN accepted :
           Cardinality({j \in DOMAIN accepted :
               accepted[j] - accepted[i] \in 0..(WindowTicks - 1)}) <= PerMinute
    /\ told.until - tick <= WindowTicks
    /\ told.until <= tick /\ told.after = Len(accepted) => ~Full(Live(counted))
=============================================================================
