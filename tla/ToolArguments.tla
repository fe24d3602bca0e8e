----------------------------- MODULE ToolArguments -----------------------------
(***************************************************************************)
(* One call of a tool: the arguments a model wrote, what the agent's       *)
(* executor and mcp_server each make of them, and the envelope each        *)
(* answers with.  The two hold copies of the rules, and four tools are     *)
(* open to both.  A value of a shape that is not accepted is Wrong, an     *)
(* absent one None; a date is a day of Periods.                            *)
(***************************************************************************)
EXTENDS Periods

CONSTANTS
    Category,    \* the ids of the dictionary
    Ghost,       \* an id that is not one of them
    Word,        \* a text that is not blank
    AskedDays,   \* bound: the dates that are written, and the days it is today
    AskedCounts, \* bound: the numbers that are written for days and limit
    DefaultRows, MaxRows, MaxChanges, \* DEFAULT_ROWS, MAX_ROWS, _MAX_CHANGES
    Lines, Fits  \* bound: the lines the api may have; how many fit into MAX_BYTES

VARIABLES
    raw,     \* the call as it was written: [mode, tool, args], or None
    reply,   \* what the api has to answer
    served   \* what the agent and mcp_server made of it: [question, envelope] each, or None

call_vars == <<raw, reply, served>>
arg_vars == <<today, minute, raw, reply, served>>

Tool == {"search_transactions", "summarize_spending", "count_frequency", "compare_periods",
         "get_budget_status", "detect_outliers", "create_transaction", "suggest_category",
         "search_documents", "set_budget"}
Shared == {"summarize_spending", "compare_periods", "count_frequency", "get_budget_status"}
ModeTools == [
    classify |-> {"suggest_category"},
    query |-> Shared \cup {"search_transactions", "search_documents"},
    insight |-> Shared \cup {"detect_outliers"},
    capture |-> {"suggest_category", "create_transaction"}]

\* _KEYS: what a tool has no other key than.
Keys == [
    search_transactions |-> {"period", "category_id", "merchant", "direction", "limit"},
    summarize_spending |-> {"period", "category_id", "merchant", "direction"},
    count_frequency |-> {"period", "category_id", "merchant", "direction"},
    compare_periods |-> {"a", "b", "category_id"},
    get_budget_status |-> {"period", "category_id"},
    detect_outliers |-> {"period", "category_id", "merchant", "direction"},
    create_transaction |-> {"direction", "amount", "occurred_at", "category_id", "account",
                            "merchant", "memo"},
    suggest_category |-> {"merchant", "memo", "direction"},
    search_documents |-> {"query"},
    set_budget |-> {}]
Key == UNION {Keys[t] : t \in Tool}
Written == {k \in Key : raw.args[k] # None}

(***************************************************************************)
(* The rules both have a copy of                                           *)
(***************************************************************************)

DayCount(p) ==
    IF p.name = "last_n_days" THEN Min({p.days, MaxDays})
    ELSE IF p.days \in {None, Wrong} THEN 0 ELSE p.days
SpecOf(p) ==
    [name |-> p.name, days |-> DayCount(p),
     start |-> IF p.month # None THEN p.month ELSE p.start, end |-> p.end]

\* A start that was written in no shape does no harm when a month was.
PeriodAccepted(p) ==
    /\ p \notin {None, Wrong}
    /\ p.name \in PeriodName
    /\ p.name = "last_n_days" => p.days \notin {None, Wrong} /\ p.days >= 1
    /\ p.month # Wrong /\ p.end # Wrong
    /\ p.month = None => p.start # Wrong
    /\ SpecOk(SpecOf(p))

Wide(key) == Bounds(SpecOf(raw.args[key]), today)
TextAccepted(key) == raw.args[key] # Wrong
Or(value, default) == IF value = None THEN default ELSE value
MonthOnly(p) == p.name \in {"this_month", "last_month", "month"}

\* (mistake) mcp_server compares with the whole of a.
McpPair_Unclipped == [a |-> Wide("a"), b |-> Wide("b")]

McpPair == [a |-> SameLength(Wide("a"), Wide("b"), today), b |-> Wide("b")]
AgentPair == [a |-> SameLength(Wide("a"), Wide("b"), today), b |-> Wide("b")]

(***************************************************************************)
(* parse_tool_arguments and the question RunTool asks of the api           *)
(***************************************************************************)

PeriodsAccepted ==
    \A key \in {"period", "a", "b"} \cap Keys[raw.tool] : PeriodAccepted(raw.args[key])

AgentAccepts ==
    /\ Keys[raw.tool] # {} /\ Written \subseteq Keys[raw.tool]
    /\ PeriodsAccepted
    /\ \A key \in {"category_id", "merchant", "direction", "memo", "query"} \cap Keys[raw.tool] :
           TextAccepted(key)
    /\ raw.tool = "search_transactions" =>
           raw.args["limit"] = None \/ (raw.args["limit"] # Wrong /\ raw.args["limit"] >= 1)
    /\ raw.tool = "get_budget_status" => MonthOnly(raw.args["period"])
    /\ raw.tool = "search_documents" => raw.args["query"] # None
    /\ raw.tool = "suggest_category" => raw.args["merchant"] # None \/ raw.args["memo"] # None

Where(direction) ==
    [tool |-> raw.tool, range |-> Wide("period"), category |-> raw.args["category_id"],
     text |-> raw.args["merchant"], direction |-> direction]

AgentQuestion ==
    CASE raw.tool = "search_transactions" ->
             [where |-> Where(raw.args["direction"]),
              limit |-> Min({Or(raw.args["limit"], DefaultRows), MaxRows})]
      [] raw.tool = "summarize_spending" -> Where(raw.args["direction"])
      [] raw.tool \in {"count_frequency", "detect_outliers"} ->
             Where(Or(raw.args["direction"], "expense"))
      [] raw.tool = "compare_periods" -> [pair |-> AgentPair, category |-> raw.args["category_id"]]
      [] raw.tool = "get_budget_status" ->
             [month |-> FirstOfMonth(Wide("period").first), category |-> raw.args["category_id"]]
      [] raw.tool = "suggest_category" ->
             [merchant |-> raw.args["merchant"], memo |-> raw.args["memo"],
              direction |-> Or(raw.args["direction"], "expense")]
      [] raw.tool = "search_documents" -> [query |-> raw.args["query"]]

(***************************************************************************)
(* parse_arguments and RunAggregate of mcp_server                          *)
(***************************************************************************)

\* A category the dictionary does not have is refused: the api would answer it with nothing.
McpAccepts ==
    /\ Written \subseteq Keys[raw.tool]
    /\ PeriodsAccepted
    /\ \A key \in {"category_id", "merchant", "direction"} \cap Keys[raw.tool] : TextAccepted(key)
    /\ raw.args["category_id"] \in Category \cup {None}

\* Of a budget the month its period begins in is asked for, whatever period it is.
McpQuestion ==
    CASE raw.tool = "compare_periods" -> [pair |-> McpPair, category |-> raw.args["category_id"]]
      [] raw.tool = "get_budget_status" ->
             [month |-> FirstOfMonth(Wide("period").first), category |-> raw.args["category_id"]]
      [] raw.tool = "count_frequency" -> Where(Or(raw.args["direction"], "expense"))
      [] raw.tool = "summarize_spending" -> Where(raw.args["direction"])

(***************************************************************************)
(* Envelopes                                                               *)
(***************************************************************************)

Failure(code, retryable) == [ok |-> FALSE, code |-> code, retryable |-> retryable]

\* _rows: what does not fit is cut from the end, and that is told.
Rows(cap) ==
    LET given == Min({reply.lines, cap}) IN
    [ok |-> TRUE, count |-> Min({given, Fits}),
     truncated |-> reply.more \/ reply.lines > cap \/ given > Fits]

Told(tool) ==
    IF reply.code # "ok"
    THEN Failure(IF reply.code = "unavailable" THEN "internal_error" ELSE reply.code,
                 reply.code \in {"unavailable", "validation_error"})
    ELSE IF tool \in {"summarize_spending", "count_frequency"}
    THEN [ok |-> TRUE, count |-> 1, truncated |-> FALSE]
    ELSE Rows(IF tool = "compare_periods" THEN MaxChanges ELSE reply.lines)

(***************************************************************************)
(* The calls                                                               *)
(***************************************************************************)

NothingAsked == raw = None /\ reply = None /\ served = None
ArgInit == today \in AskedDays /\ minute = Min(Minutes) /\ NothingAsked

Reply == [code : {"ok"}, lines : Lines, more : BOOLEAN]
         \cup [code : {"unavailable", "validation_error", "not_found", "rate_limited"},
               lines : {0}, more : {FALSE}]
Some == [code |-> "ok", lines |-> 1, more |-> FALSE]

AskedPeriod ==
    [name : PeriodName \cup {Wrong}, days : {None, Wrong} \cup AskedCounts,
     month : {None, Wrong} \cup {FirstOfMonth(d) : d \in AskedDays},
     start : {None, Wrong} \cup AskedDays, end : {None, Wrong} \cup AskedDays]
Plain(name) == [name |-> name, days |-> None, month |-> None, start |-> None, end |-> None]
AskedValue == [
    category_id |-> Category \cup {Ghost, Wrong}, merchant |-> {Word, Wrong},
    direction |-> {"income", Wrong}, memo |-> {Word, Wrong}, query |-> {Word, Wrong},
    limit |-> AskedCounts \cup {Wrong}]

\* A model writes the call of a tool in a mode: a period, and another value or none.
Write(mode, tool, p, key, value, answer) ==
    /\ raw = None
    /\ reply' = answer
    /\ raw' = [mode |-> mode, tool |-> tool, args |-> [k \in Key |->
           IF k = key THEN value
           ELSE IF k \in {"period", "a"} \cap Keys[tool] THEN p
           ELSE IF k = "b" /\ k \in Keys[tool] THEN Plain("this_month") ELSE None]]
    /\ UNCHANGED <<today, minute, served>>

\* Writing is not for the executor: it goes through the gate.
RunTool ==
    IF raw.tool \notin ModeTools[raw.mode]
    THEN [question |-> None, envelope |-> Failure("validation_error", FALSE)]
    ELSE IF raw.tool = "create_transaction" \/ ~AgentAccepts
    THEN [question |-> None, envelope |-> Failure("validation_error", TRUE)]
    ELSE [question |-> AgentQuestion, envelope |-> Told(raw.tool)]

\* A name that is not open to the clients is as good as none.
CallTool ==
    IF raw.tool \notin Shared THEN [question |-> None, envelope |-> None]
    ELSE IF ~McpAccepts THEN [question |-> None, envelope |-> Failure("validation_error", TRUE)]
    ELSE [question |-> McpQuestion, envelope |-> Told(raw.tool)]

\* The same call is made of both.
Serve ==
    /\ raw # None /\ served = None
    /\ served' = [agent |-> RunTool, mcp |-> CallTool]
    /\ UNCHANGED <<today, minute, raw, reply>>

AskNext ==
    \/ \E tool \in Tool, p \in AskedPeriod : Write("query", tool, p, "none", None, Some)
    \/ \E tool \in Tool, name \in {"this_month", "last_week"}, key \in DOMAIN AskedValue :
          \E value \in AskedValue[key] : Write("query", tool, Plain(name), key, value, Some)
    \/ \E mode \in DOMAIN ModeTools, tool \in Tool, answer \in Reply :
          Write(mode, tool, Plain("last_month"), "merchant", Word, answer)

ArgNext ==
    \/ raw = None /\ AskNext
    \/ Serve
ArgSpec == ArgInit /\ [][ArgNext]_arg_vars

(***************************************************************************)
(* What the constants are: the dates that are asked for have a month       *)
(* before them in the calendar, and what is written for a number is one.   *)
(***************************************************************************)

ASSUME ArgAssumption ==
    /\ AskedDays \subseteq Date(FirstYear + 1, 1, 1)..(Date(LastYear + 1, 1, 1) - 1)
    /\ AskedCounts \subseteq Int /\ Lines \subseteq Nat /\ Fits \in Nat /\ MaxChanges \in Nat

-----------------------------------------------------------------------------

\* Of a tool that is open to both the same arguments make both ask the api for the same thing
\* and say the same of its answer; only a category that is not in the dictionary, and a budget's
\* period that is no month, are told apart.  Neither reaches the api with a tool that was not
\* offered or one that writes, a period it asks for has a day and no more than a year of them,
\* and lines that are left out are told of (RunTool, CallTool, the two parsers).
SharedToolsAgree ==
    served # None =>
        LET agent == served.agent
            mcp == served.mcp
            known == raw.args["category_id"] \in Category \cup {None} IN
        /\ raw.tool \in Shared /\ raw.mode = "query" =>
               /\ agent.question # None /\ known => mcp = agent
               /\ /\ mcp.question # None
                  /\ raw.tool = "get_budget_status" => MonthOnly(raw.args["period"])
                  => mcp = agent
        /\ agent.question # None => raw.tool \in ModeTools[raw.mode] \ {"create_transaction"}
        /\ \A q \in {agent.question, mcp.question} \ {None} :
               "range" \in DOMAIN q => Length(q.range) \in 1..(MaxDays + 1)
        /\ agent.question # None /\ agent.envelope.ok /\ raw.tool \in {"search_transactions",
               "compare_periods", "detect_outliers", "get_budget_status", "search_documents"} =>
               (agent.envelope.count < reply.lines => agent.envelope.truncated)
=============================================================================
