-------------------------------- MODULE RunLog --------------------------------
(***************************************************************************)
(* The record of the runs: what each seat of the agent and the mcp server  *)
(* make of a run that has ended, the one attempt to send it, the rows the  *)
(* api keeps of it, and the list of runs that is read while they change.   *)
(* An id of a call is a name with the numbers behind it: <<"call", <<3>>>> *)
(* is call_3, <<"a", <<>>>> an id the model's provider gave, and           *)
(* <<"a", <<2>>>> the same id with #2 behind it.                           *)
(***************************************************************************)
EXTENDS Integers, Sequences, FiniteSets, SequencesExt, Places, Absent

CONSTANTS
    RunId,        \* bound: the runs, numbered in the order they end
    Chats,        \* bound: the steps a chat may have: sequences of [id, tool]
    PlanSizes,    \* bound: how many steps of a plan stand its check
    FixedCalls,   \* len(_FIXED)
    FitTools,     \* the names of tools of 1 to 50 characters
    MaxCalls,     \* MAX_TOOL_CALLS
    RunMoment,    \* bound: when a row is made
    RunLimit,     \* the runs on a page
    RunFilters    \* bound: the conditions of a list: [seat, status], None for any

VARIABLES
    ended,    \* id -> the run as its seat recorded it, None before it ended
    lost,     \* the runs of which a step was dropped and a plan made again
    air,      \* the runs whose record the api has not handled yet
    heard,    \* id -> what the recorder heard of it: None, "stored", "refused", "nothing"
    said,     \* id -> what the user was told: None, "answer", "failed", "card", "not_saved"
    filed,    \* id -> the row of the run with the rows of its calls, None when there is none
    walk      \* the list that is open: its conditions, lines, cursor, and what was there

run_vars == <<ended, lost, air, heard, said, filed, walk>>

(***************************************************************************)
(* A run as its seat records it: agent run_records, mcp RunEntry           *)
(***************************************************************************)

Flow(seat) ==
    CASE seat = "chat" -> "react" [] seat = "insight" -> "plan_execute"
      [] seat = "mcp" -> "direct" [] OTHER -> "single"

ToolCall(id, tool, result) == [id |-> id, tool |-> tool, result |-> result]
Recorded(seat, status, stop, calls) ==
    [seat |-> seat, flow |-> Flow(seat), status |-> status, stop |-> stop, calls |-> calls,
     client |-> None]

Numbered(name, n) == <<name, <<n>>>>
SuggestCall == ToolCall(Numbered("c", 1), "suggest_category", "choice")
CaptureRuns ==
    {Recorded("capture", "done", "refused", <<>>), Recorded("capture", "done", "read", <<SuggestCall>>)}

\* Nothing was asked when merchant and memo are blank.
ClassifyRuns ==
    {Recorded("classify", "done", "rule", <<SuggestCall>>), Recorded("classify", "done", "none", <<>>)}

\* (mistake) The ids are kept as the provider gave them.
ChatCalls_AsGiven(steps) == [n \in DOMAIN steps |-> ToolCall(steps[n].id, steps[n].tool, "envelope")]

\* An id that a call before it has gets the number of its step.
Again(id, n) == <<id[1], Append(id[2], n)>>
ChatCalls(steps) ==
    LET calls[n \in DOMAIN steps] ==
            LET again == \E m \in 1..(n - 1) : calls[m].id = steps[n].id IN
            ToolCall(IF again THEN Again(steps[n].id, n) ELSE steps[n].id, steps[n].tool, "envelope") IN
    calls

ChatRun(steps) == Recorded("chat", "done", "answered", ChatCalls(steps))
AskRun == Recorded("ask", "done", "answered", <<ToolCall(Numbered("c", 1), "search_documents", "chunks")>>)

\* The steps of a report are numbered on from as many as there are: a plan made again after a
\* step of the first was dropped may number one anew.
PlanCalls(first, count) == [n \in 1..count |-> Numbered("call", first + n - 1)]
InsightIds(fixed, first, dropped, again) ==
    LET ran == Those(PlanCalls(fixed + 1, first), (1..first) \ dropped) IN
    PlanCalls(1, fixed) \o ran \o PlanCalls(fixed + Len(ran) + 1, again)
InsightRun(ids) ==
    Recorded("insight", "done", "assembled",
             [n \in DOMAIN ids |-> ToolCall(ids[n], "sum", IF n > FixedCalls THEN "why" ELSE "envelope")])

FailedRun(seat) ==
    Recorded(seat, "failed", IF seat = "classify" THEN "ledger_unavailable" ELSE "model_unavailable", <<>>)

\* The choice is the first call when there was one, the write the last.
ProposalRun(chosen) ==
    LET before == IF chosen THEN <<SuggestCall>> ELSE <<>> IN
    Recorded("capture", "awaiting", "proposed",
             Append(before, ToolCall(Numbered("c", Len(before) + 1), "create_transaction", None)))

EntryStop(code) == IF code = None THEN "answered" ELSE code
EntryRun(id, code) ==
    [Recorded("mcp", IF code = "internal_error" THEN "failed" ELSE "done", EntryStop(code),
              <<ToolCall(Numbered("run", id), "sum", "envelope")>>) EXCEPT !.client = "named"]

(***************************************************************************)
(* The api: RunWrite, RecordRun, SqlRunLog                                 *)
(***************************************************************************)

\* An id that is empty, or longer than the api takes, has no name.
CallFits(c) == c.tool \in FitTools /\ c.id[1] # None
UniqueCalls(calls) == IsInjective([n \in DOMAIN calls |-> calls[n].id])
Accepted(run) ==
    /\ run.status # "aborted"
    /\ Len(run.calls) <= MaxCalls
    /\ \A n \in DOMAIN run.calls : CallFits(run.calls[n])
    /\ UniqueCalls(run.calls)

\* The run and its calls go in together: one transaction.
RunRow(run, at) == [run |-> run, at |-> at]
RowOf(r) == filed[r].run
RunFits(r, f) == f.seat \in {None, RowOf(r).seat} /\ f.status \in {None, RowOf(r).status}
RunsFor(f) == {r \in RunId : filed[r] # None /\ RunFits(r, f)}
RunNewer(q, r) == filed[q].at > filed[r].at \/ (filed[q].at = filed[r].at /\ q > r)
RunBefore(r, c) == filed[r].at < c.at \/ (filed[r].at = c.at /\ r < c.id)
RunLine(r) == [id |-> r, seat |-> RowOf(r).seat, status |-> RowOf(r).status, count |-> Len(RowOf(r).calls)]

\* One row more than the page tells of a next page; the cursor is the last row of the page.
RunsLeft(f, after) == {r \in RunsFor(f) : after = None \/ RunBefore(r, after)}
NewerThan(runs, r) == {q \in runs : RunNewer(q, r)}
FirstRuns(runs, n) == [k \in 1..n |-> RunLine(CHOOSE r \in runs : Cardinality(NewerThan(runs, r)) = k - 1)]
RunPage(f, after) ==
    LET left == RunsLeft(f, after)
        lines == FirstRuns(left, RunLimit)
        last == lines[RunLimit].id IN
    IF Cardinality(left) <= RunLimit THEN [lines |-> FirstRuns(left, Cardinality(left)), next |-> None]
    ELSE [lines |-> lines, next |-> [at |-> filed[last].at, id |-> last]]

(***************************************************************************)
(* Runs end, are sent once, and are said of                                *)
(***************************************************************************)

RunsInit ==
    /\ ended = [r \in RunId |-> None] /\ lost = {} /\ air = {}
    /\ heard = [r \in RunId |-> None] /\ said = [r \in RunId |-> None]
    /\ filed = [r \in RunId |-> None] /\ walk = None

\* Ids are drawn for the run.  The chat tells first and records then, the others wait for the
\* record.
EndRun(r, run, again) ==
    /\ ended[r] = None /\ \A q \in RunId : q < r => ended[q] # None
    /\ ended' = [ended EXCEPT ![r] = run]
    /\ lost' = IF again THEN lost \cup {r} ELSE lost
    /\ air' = air \cup {r}
    /\ said' = IF run.seat # "chat" THEN said
               ELSE [said EXCEPT ![r] = IF run.status = "failed" THEN "failed" ELSE "answer"]
    /\ UNCHANGED <<heard, filed, walk>>

EndCapture(r) == \E run \in CaptureRuns \cup {FailedRun("capture")} : EndRun(r, run, FALSE)
EndProposal(r) == \E chosen \in BOOLEAN : EndRun(r, ProposalRun(chosen), FALSE)
EndClassify(r) == \E run \in ClassifyRuns \cup {FailedRun("classify")} : EndRun(r, run, FALSE)
EndChat(r) == \/ \E steps \in Chats : EndRun(r, ChatRun(steps), FALSE)
              \/ EndRun(r, FailedRun("chat"), FALSE)
EndAsk(r) == EndRun(r, AskRun, FALSE)
EndCall(r) == \E code \in {None, "internal_error"} : EndRun(r, EntryRun(r, code), FALSE)

\* Only a plan that left nothing but empty steps is made again; any step may have been dropped.
EndInsight(r) ==
    \/ EndRun(r, FailedRun("insight"), FALSE)
    \/ \E first, again \in PlanSizes : \E dropped \in SUBSET (1..first) :
          EndRun(r, InsightRun(InsightIds(FixedCalls, first, dropped, again)), again > 0 /\ dropped # {})

\* The api takes the run or refuses its form; the recorder may no longer be listening.
StoreRun(r, at) ==
    /\ r \in air /\ air' = air \ {r}
    /\ filed' = IF Accepted(ended[r]) THEN [filed EXCEPT ![r] = RunRow(ended[r], at)] ELSE filed
    /\ heard' = IF heard[r] # None THEN heard
                ELSE [heard EXCEPT ![r] = IF Accepted(ended[r]) THEN "stored" ELSE "refused"]
    /\ UNCHANGED <<ended, lost, said, walk>>

\* No answer in time, or no connection at all; the record is not sent again.
HearNothing(r) ==
    /\ r \in air /\ heard[r] = None
    /\ heard' = [heard EXCEPT ![r] = "nothing"]
    /\ air' \in {air, air \ {r}}
    /\ UNCHANGED <<ended, lost, said, filed, walk>>

\* A record that failed holds no answer back; a proposal that was not kept gets no card.
TellUser(r) ==
    /\ heard[r] # None /\ said[r] = None
    /\ said' = [said EXCEPT ![r] =
           IF ended[r].status = "awaiting" THEN IF heard[r] = "stored" THEN "card" ELSE "not_saved"
           ELSE IF ended[r].status = "failed" THEN "failed" ELSE "answer"]
    /\ UNCHANGED <<ended, lost, air, heard, filed, walk>>

\* How DecideRecord closes a proposal, and what that makes of its run: the write has a result when
\* it was made.
Closings ==
    {[status |-> "done", stop |-> "confirmed"], [status |-> "failed", stop |-> "rejected"],
     [status |-> "aborted", stop |-> "cancelled"], [status |-> "aborted", stop |-> "expired"]}
WithEntry(calls) == [n \in DOMAIN calls |-> IF n # Len(calls) THEN calls[n]
                                            ELSE [calls[n] EXCEPT !.result = "entry"]]
Decided(run, c) ==
    [run EXCEPT !.status = c.status, !.stop = c.stop,
                !.calls = IF c.status = "done" THEN WithEntry(run.calls) ELSE run.calls]

\* SqlRunLog.close changes what waits, and nothing else.  Which decision comes, and that one that
\* is confirmed is not aborted but in a race, is CaptureGate's: here any may come.
CloseRun(r, c) ==
    /\ filed[r] # None /\ RowOf(r).status = "awaiting"
    /\ filed' = [filed EXCEPT ![r].run = Decided(RowOf(r), c)]
    /\ UNCHANGED <<ended, lost, air, heard, said, walk>>

\* The page of runs: a filter that is not known is no filter; each page is drawn below the last.
OpenRuns(f) ==
    LET page == RunPage(f, None) IN
    /\ walk' = [filter |-> f, lines |-> page.lines, cursor |-> page.next, there |-> RunsFor(f)]
    /\ UNCHANGED <<ended, lost, air, heard, said, filed>>

MoreRuns ==
    /\ walk # None /\ walk.cursor # None
    /\ LET page == RunPage(walk.filter, walk.cursor) IN
       walk' = [walk EXCEPT !.lines = @ \o page.lines, !.cursor = page.next]
    /\ UNCHANGED <<ended, lost, air, heard, said, filed>>

RunsNext ==
    \/ \E r \in RunId :
          \/ EndCapture(r) \/ EndProposal(r) \/ EndClassify(r) \/ EndChat(r)
          \/ EndAsk(r) \/ EndInsight(r) \/ EndCall(r)
          \/ \E at \in RunMoment : StoreRun(r, at)
          \/ HearNothing(r) \/ TellUser(r)
          \/ \E c \in Closings : CloseRun(r, c)
    \/ \E f \in RunFilters : OpenRuns(f)
    \/ MoreRuns

RunsSpec == RunsInit /\ [][RunsNext]_run_vars

(***************************************************************************)
(* What the constants are: the calls of a report are no more than the api  *)
(* takes, and the tools of the servers have names that fit.  What the      *)
(* model of a chat names, and how often it calls, is not limited.          *)
(***************************************************************************)

RunSeat == {"capture", "classify", "chat", "ask", "insight", "mcp"}
RunStatus == {"done", "failed", "awaiting", "aborted"}
RecordedStop ==
    {"refused", "read", "rule", "none", "answered", "assembled", "proposed", "internal_error",
     "model_unavailable", "ledger_unavailable"}
RunStop == RecordedStop \cup {"confirmed", "rejected", "cancelled", "expired"}
GivenNames == UNION {{steps[n].id[1] : n \in DOMAIN steps} : steps \in Chats}
GivenTools == UNION {{steps[n].tool : n \in DOMAIN steps} : steps \in Chats}
ChatStep == [id : GivenNames \X Seq(Int), tool : GivenTools]
CallName == GivenNames \cup {"c", "call", "run"}
RunCall ==
    [id : CallName \X Seq(Int), tool : FitTools \cup GivenTools,
     result : {"choice", "envelope", "chunks", "why", "entry", None}]
RunRecord ==
    [seat : RunSeat, flow : {"react", "plan_execute", "direct", "single"}, status : RunStatus,
     stop : RunStop, calls : Seq(RunCall), client : {None, "named"}]
FiledRun == [run : RunRecord, at : RunMoment]
RunCursor == [at : RunMoment, id : RunId]
RunLines == [id : RunId, seat : RunSeat, status : RunStatus, count : Nat]
RunWalk ==
    [filter : RunFilters, lines : Seq(RunLines), cursor : RunCursor \cup {None}, there : SUBSET RunId]

ASSUME RunsAssumption ==
    /\ IsFiniteSet(RunId) /\ RunId \subseteq Int /\ RunMoment \subseteq Int
    /\ FixedCalls \in Nat /\ PlanSizes \subseteq Nat /\ MaxCalls \in Nat /\ RunLimit \in Nat \ {0}
    /\ \A steps \in Chats : steps \in Seq(ChatStep)
    /\ MaxCalls >= 2 /\ \A first, again \in PlanSizes : FixedCalls + first + again <= MaxCalls
    /\ {"sum", "suggest_category", "search_documents", "create_transaction"} \subseteq FitTools
    /\ None \notin
           {"c", "call", "run", "internal_error", "entry", "stored", "refused", "nothing", "answer", "failed", "card", "not_saved"}
    /\ None \notin RunRecord /\ None \notin FiledRun
    /\ None \notin RunCursor /\ None \notin RunWalk

-----------------------------------------------------------------------------

LinesOf(r) == Cardinality({n \in DOMAIN walk.lines : walk.lines[n].id = r})
MisfitCall(run) == \E n \in DOMAIN run.calls : ~CallFits(run.calls[n])
TooMany(run) == Len(run.calls) > MaxCalls
NumberedTwice(run) ==
    \E m, n \in DOMAIN run.calls :
        m < n /\ run.calls[m].id = run.calls[n].id /\ run.calls[n].id[2] # <<>>

EndsWithWrite(calls) ==
    /\ calls # <<>> /\ Last(calls).tool = "create_transaction"
    /\ Last(calls).id = Numbered("c", Len(calls))

\* The runs the api may refuse.
MayBeRefused(r) ==
    \/ ended[r].seat = "chat" /\ (MisfitCall(ended[r]) \/ TooMany(ended[r]) \/ NumberedTwice(ended[r]))
    \/ ended[r].seat = "insight" /\ r \in lost

RunsTypeOK ==
    /\ ended \in [RunId -> RunRecord \cup {None}] /\ lost \subseteq RunId /\ air \subseteq RunId
    /\ heard \in [RunId -> {None, "stored", "refused", "nothing"}]
    /\ said \in [RunId -> {None, "answer", "failed", "card", "not_saved"}]
    /\ filed \in [RunId -> FiledRun \cup {None}] /\ walk \in RunWalk \cup {None}

\* A run that ended is one the api takes, or may refuse; a proposal ends with its write.
EndedWell(r) ==
    /\ ~Accepted(ended[r]) => MayBeRefused(r)
    /\ ended[r].status = "awaiting" => EndsWithWrite(ended[r].calls) /\ Last(ended[r].calls).result = None
    /\ ended[r].stop \in RecordedStop

\* A row is the record of its run, or what one decision on a proposal made of it.
AsRecorded(r) ==
    \/ RowOf(r) = ended[r]
    \/ ended[r].status = "awaiting" /\ \E c \in Closings : RowOf(r) = Decided(ended[r], c)
FiledAsEnded(r) == ended[r] # None /\ Accepted(ended[r]) /\ AsRecorded(r)

\* Nothing is heard or told of a run before it ends; what the api has answered is what it did; and
\* the user is told what the answer was.
Handled(r) ==
    /\ ended[r] = None => heard[r] = None /\ said[r] = None /\ filed[r] = None /\ r \notin air
    /\ ended[r] # None => EndedWell(r)
    /\ r \in air => filed[r] = None /\ heard[r] \in {None, "nothing"}
    /\ filed[r] # None => FiledAsEnded(r)
    /\ ended[r] # None /\ r \notin air /\ heard[r] # "nothing" /\ filed[r] = None => ~Accepted(ended[r])
    /\ heard[r] = "stored" => filed[r] # None
    /\ said[r] = "card" => heard[r] = "stored" /\ ended[r].status = "awaiting"
    /\ said[r] # None => (said[r] = "failed" <=> ended[r].status = "failed")
RunsAreHandled == \A r \in RunId : Handled(r)

\* What is open shows what the list had above its cursor: a run that was there is shown or comes
\* below, and one that waits for its decision has not left the list.
WalkShowsRuns ==
    walk # None =>
        /\ \A m, n \in DOMAIN walk.lines : walk.lines[m].id = walk.lines[n].id => m = n
        /\ \A n \in DOMAIN walk.lines :
              LET r == walk.lines[n].id IN
              /\ filed[r] # None /\ walk.lines[n].count = Len(RowOf(r).calls)
              /\ walk.cursor # None => ~RunBefore(r, walk.cursor)
        /\ \A r \in walk.there :
              /\ filed[r] # None /\ (RowOf(r).status = "awaiting" => RunFits(r, walk.filter))
              /\ RunFits(r, walk.filter) =>
                    \/ \E n \in DOMAIN walk.lines : walk.lines[n].id = r
                    \/ walk.cursor # None /\ RunBefore(r, walk.cursor)

RunsInductive == RunsTypeOK /\ RunsAreHandled /\ WalkShowsRuns

\* Who sees a card has a proposal that is in the log, and its write is the call whose number is
\* the key of the entry (propose_record.py, proposal_run).  A run the api has answered for is in
\* the log, except for four cases, of which the log has nothing: a chat with a call whose id or
\* tool has a name that does not fit, a chat of more calls than the api takes, a chat where a
\* numbered id meets an id the provider gave, and a report that dropped a step and planned again.
\* It is there as its seat recorded it, but that one decision on a proposal has set how it stands
\* and why, and given its write the result when the entry was made: then and only then has the
\* write one.  A run that failed is one the user was told has failed, or a confirmed proposal
\* whose values the api refused.  A list that was read to its end shows every run that was there
\* when it was opened and still meets its conditions, once, with as many calls as it has
\* (SqlRunLog.close and page).
RunsAreKept ==
    /\ \A r \in RunId :
          /\ said[r] = "card" => filed[r] # None /\ EndsWithWrite(RowOf(r).calls)
          /\ ended[r] # None /\ r \notin air /\ heard[r] # "nothing" /\ filed[r] = None => MayBeRefused(r)
          /\ filed[r] # None =>
                /\ AsRecorded(r) /\ UniqueCalls(RowOf(r).calls)
                /\ ended[r].status = "awaiting" =>
                       (RowOf(r).status = "done" <=> Last(RowOf(r).calls).result # None)
                /\ said[r] = "failed" <=>
                       (said[r] # None /\ RowOf(r).status = "failed" /\ RowOf(r).stop # "rejected")
    /\ walk # None =>
          /\ \A r \in RunId : LinesOf(r) <= 1
          /\ walk.cursor = None =>
                \A r \in walk.there : RunFits(r, walk.filter) => LinesOf(r) = 1
          /\ \A n \in DOMAIN walk.lines : walk.lines[n].count = Len(RowOf(walk.lines[n].id).calls)
=============================================================================
