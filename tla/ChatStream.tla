----------------------------- MODULE ChatStream -----------------------------
(***************************************************************************)
(* A question on its way: the agent's POST /chat runs the query loop and   *)
(* sends its events, the ui relays them to the browser, and the agent      *)
(* writes the finished run to the audit log after it has said "done".      *)
(* Either side can die, give up or lose the connection at any moment.      *)
(* On the screen a tool's name is a line that the next event replaces, so  *)
(* it is left out: wire and screen have the events that stay.              *)
(***************************************************************************)
EXTENDS QueryLoop

VARIABLES
    agent,   \* "streaming", "done" (said), "closed" (recorded or not), "gone"
    run,     \* the run to record: [failed, stop], None until there is one
    wire,    \* the events sent and not yet relayed
    record,  \* the run in the audit log, or None
    ui,      \* AgentChatAgent: "relaying", "ended", or "left" when the browser went away
    screen   \* what the browser was sent and keeps

stream_vars == <<agent, run, wire, record, ui, screen>>
chat_vars == <<vars, stream_vars>>

\* A message is the reason its text was written for (answer_text); the other events are named.
Event == StopReason \cup {"error", "done"}
Run == [failed : BOOLEAN, stop : StopReason \cup {None}]

ChatInit ==
    /\ Init
    /\ agent = "streaming" /\ run = None /\ wire = <<>> /\ record = None
    /\ ui = "relaying" /\ screen = <<>>

\* What a connection whose reader has gone does with an event.
Sent(events) == wire' = IF ui = "relaying" THEN wire \o events ELSE wire

\* The loop's state goes with its generator.
Forget ==
    /\ pc' = "end" /\ stop' = None
    /\ calls' = 0 /\ cost' = 0 /\ spent' = 0 /\ elapsed' = 0 /\ quiet' = 0 /\ tries' = 0
    /\ malformed' = FALSE
    /\ seen' = {} /\ steps' = {} /\ todo' = <<>>

\* A step of the loop: its outcome becomes a run to record and a message.
AgentStep ==
    /\ agent = "streaming"
    /\ Next
    /\ IF pc' = "end"
       THEN Sent(<<stop'>>) /\ run' = [failed |-> FALSE, stop |-> stop']
       ELSE UNCHANGED <<wire, run>>
    /\ UNCHANGED <<agent, record, ui, screen>>

AgentDone ==
    /\ agent = "streaming" /\ pc = "end"
    /\ agent' = "done"
    /\ Sent(<<"done">>)
    /\ Forget
    /\ UNCHANGED <<run, record, ui, screen>>

\* failed_run
FailedRun == [failed |-> TRUE, stop |-> None]

\* (mistake) The outcome is turned into a record after its message was sent, and that fails.
AgentFails_AfterAnswer ==
    /\ agent = "streaming"
    /\ agent' = "done" /\ run' = FailedRun
    /\ Sent(<<"error", "done">>)
    /\ Forget
    /\ UNCHANGED <<record, ui, screen>>

\* Anything the loop does not catch ends the stream with an error; the run counts as failed.
AgentFails ==
    /\ agent = "streaming" /\ pc # "end"
    /\ agent' = "done" /\ run' = FailedRun
    /\ Sent(<<"error", "done">>)
    /\ Forget
    /\ UNCHANGED <<record, ui, screen>>

\* The run is recorded after "done", or is not: recording swallows its failures.
Record ==
    /\ agent = "done"
    /\ agent' = "closed"
    /\ record' \in {None, run}
    /\ UNCHANGED <<vars, run, wire, ui, screen>>

\* The process dies, or its stream is cancelled because the reader has gone.
AgentGone ==
    /\ agent \in {"streaming", "done"}
    /\ agent' = "gone" /\ run' = None
    /\ Forget
    /\ UNCHANGED <<wire, record, ui, screen>>

Has(event) == \E i \in DOMAIN screen : screen[i] = event
\* _stream says done itself if the agent has not.
DoneIfMissing == IF Has("done") THEN <<>> ELSE <<"done">>

Relay ==
    /\ ui = "relaying" /\ wire # <<>>
    /\ screen' = Append(screen, Head(wire))
    /\ wire' = Tail(wire)
    /\ UNCHANGED <<vars, agent, run, record, ui>>

\* The stream ends, with or without "done".
EndOfStream ==
    /\ ui = "relaying" /\ wire = <<>> /\ agent = "closed"
    /\ screen' = screen \o DoneIfMissing
    /\ ui' = "ended"
    /\ UNCHANGED <<vars, agent, run, wire, record>>

\* (mistake) After an error the ui always says done.
HttpError_DoneAgain ==
    /\ ui = "relaying"
    /\ screen' = screen \o <<"error", "done">>
    /\ ui' = "ended" /\ wire' = <<>>
    /\ UNCHANGED <<vars, agent, run, record>>

\* httpx.HTTPError: the connection breaks, or nothing came within the read limit.
HttpError ==
    /\ ui = "relaying"
    /\ screen' = screen \o <<"error">> \o DoneIfMissing
    /\ ui' = "ended" /\ wire' = <<>>
    /\ UNCHANGED <<vars, agent, run, record>>

\* (mistake) Without an error of its own the ui waits for the agent.
GiveUp_OnlyWhenGone == wire = <<>> /\ agent = "gone" /\ HttpError

\* Nothing comes: the read limit of the ui does not depend on the agent.
GiveUp == wire = <<>> /\ HttpError

\* An event, be it a tool's name, cannot be drawn: the router ends the stream with an error
\* of its own.  Nothing is drawn for "done".
DrawFails ==
    /\ ui = "relaying" /\ wire # <<"done">>
    /\ wire # <<>> \/ (agent = "streaming" /\ pc = "tool")
    /\ screen' = screen \o <<"error", "done">>
    /\ ui' = "ended" /\ wire' = <<>>
    /\ UNCHANGED <<vars, agent, run, record>>

\* The browser goes away; the task that relays is cancelled.
BrowserLeaves ==
    /\ ui = "relaying"
    /\ ui' = "left" /\ wire' = <<>>
    /\ UNCHANGED <<vars, agent, run, record, screen>>

UiStep == Relay \/ EndOfStream \/ GiveUp

ChatNext ==
    \/ AgentStep \/ AgentDone \/ AgentFails \/ Record \/ AgentGone
    \/ UiStep \/ HttpError \/ DrawFails \/ BrowserLeaves

ChatSpec == ChatInit /\ [][ChatNext]_chat_vars

\* The ui reads with a time limit of its own; of the agent nothing is expected.
FairChatSpec == ChatSpec /\ WF_chat_vars(UiStep)

-----------------------------------------------------------------------------

TypeOK ==
    /\ LoopTypeOK
    /\ agent \in {"streaming", "done", "closed", "gone"}
    /\ wire \in Seq(Event) /\ screen \in Seq(Event)
    /\ run \in Run \cup {None} /\ record \in Run \cup {None}
    /\ ui \in {"relaying", "ended", "left"}

Count(events) == Cardinality({i \in DOMAIN screen : screen[i] \in events})

\* Whatever breaks, the browser sees at most one answer, says done once, and after that at
\* most the error of a connection that broke while the agent was still writing its record; a
\* stream that the browser did not leave ends with done, and not without an answer or an error
\* (AgentChatAgent._stream, chat_router._stream).
ScreenIsWhole ==
    /\ Count(StopReason) <= 1 /\ Count({"done"}) <= 1 /\ Count({"error"}) <= 2
    /\ \A i, j \in DOMAIN screen : screen[i] = "done" /\ j > i => j = i + 1 /\ screen[j] = "error"
    /\ ui = "ended" => Has("done") /\ Count(StopReason \cup {"error"}) >= 1

\* The audit log tells of the answer that was sent: who sees an answer has a run that did not
\* fail and that stopped for the reason the answer was written for
\* (chat_router._events, run_records.chat_run).
RecordMatchesAnswer ==
    record # None =>
        \A reason \in StopReason : Has(reason) => record = [failed |-> FALSE, stop |-> reason]

\* What the browser was sent or will be, if nothing breaks: at every place of the agent.
Said == screen \o wire
Answered(reason) == [failed |-> FALSE, stop |-> reason]
SaidInHand ==
    ui = "relaying" =>
        \/ agent = "streaming" /\ pc # "end" /\ Said = <<>>
        \/ agent = "streaming" /\ pc = "end" /\ stop \in StopReason
              /\ run = Answered(stop) /\ Said = <<stop>>
        \/ agent \in {"done", "closed"} /\ run = FailedRun /\ Said = <<"error", "done">>
        \/ agent \in {"done", "closed"}
              /\ \E reason \in StopReason : run = Answered(reason) /\ Said = <<reason, "done">>
        \/ agent = "gone"
              /\ \/ Said \in {<<>>, <<"error", "done">>}
                 \/ \E reason \in StopReason : Said \in {<<reason>>, <<reason, "done">>}

\* An answer on the screen is that of the run, which then has ended.
AnswerInHand ==
    \A reason \in StopReason : Has(reason) =>
        agent = "gone" \/ (run = Answered(reason) /\ (agent = "streaming" => pc = "end"))

\* ScreenIsWhole and RecordMatchesAnswer are not inductive: what is on its way must be whole
\* too, and the run that is to be recorded that of the answer.
InHand ==
    /\ SaidInHand
    /\ ui # "relaying" => wire = <<>> /\ ScreenIsWhole /\ AnswerInHand
    /\ record # None => agent = "closed" /\ record = run

\* The input field opens again, though the agent may hang, die or be slow (chat.js: stream).
InputReopens == <>(ui # "relaying")
=============================================================================
