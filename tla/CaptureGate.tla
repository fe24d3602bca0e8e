---------------------------- MODULE CaptureGate ----------------------------
(***************************************************************************)
(* The confirmation gate of chat capture: a proposal is recorded in the    *)
(* audit log of the api as a run that waits, its card is shown, and what   *)
(* the user presses on the card decides it.  A press is one request to the *)
(* agent (DecideRecord); it calls the api, one call at a time, and each    *)
(* call is a keyed write in a database transaction of its own: the key     *)
(* machinery is the one of LedgerWrites, the statements of the run log are *)
(* SqlRunLog's.  Presses overlap, the agent may die or stop waiting while  *)
(* the api still works on its call, replies get lost, and days pass.       *)
(***************************************************************************)
EXTENDS Integers, Sequences, FiniteSets

CONSTANTS
    Press,      \* presses of "record" and "cancel", each made at most once
    Run,        \* ids of proposals
    Lifetime,   \* LIFETIME of a proposal that nobody has confirmed
    Retention,  \* how long the api keeps an idempotency key
    None,       \* no time, no parent, no key row, no card
    MaxTime,    \* bound: the clock stops here
    MaxSaid     \* bound: sentences the user says

ASSUME TimeAssumption == Lifetime \in Nat /\ Retention \in Nat /\ MaxTime \in Nat /\ MaxSaid \in Nat

Status == {"none", "awaiting_confirmation", "done", "aborted", "failed"}
Waiting == "awaiting_confirmation"

\* The writes of a decision, named by what is particular to their idempotency key:
\* "{run}:{seq}", "run:{run}:confirm" and "run:{run}:close:{stop_reason}".
Closing == {"cancelled", "confirmed", "rejected", "expired"}
Op == {"create", "confirm"} \cup Closing
ClosedAs(op) ==
    CASE op = "confirmed" -> "done"
      [] op = "rejected"  -> "failed"
      [] OTHER            -> "aborted"

\* A reply of the api: a refusal, the number of the entry made, or the status of the run.
Refused(code) == [code |-> code, entry |-> 0]
Created(n) == [code |-> "created", entry |-> n]
\* (mistake) The reply of a decision has no entry field.
Decided_NoEntry(s) == [code |-> s]
Decided(s) == [code |-> s, entry |-> 0]
NoReply == [code |-> "nothing", entry |-> 0]
Refusal == {"request_in_progress", "idempotency_key_reused", "validation_error"}
Replies == [code : {"nothing", "created"} \cup Refusal \cup Status, entry : Nat]
KeyRow == [at : Nat, hash : Nat, reply : Replies]
EntryType == [run : Run, at : Nat]

ASSUME NoneAssumption == None \notin Nat /\ None \notin Run /\ None \notin KeyRow

VARIABLES
    clock,      \* the time, on the clocks of the agent and of the database
    status,     \* run -> agent_runs.status, "none" before the run is recorded
    created,    \* run -> agent_runs.created_at
    confirmed,  \* run -> tool_calls.confirmed_at of its one call, or None
    bad,        \* run -> the api refuses its values (422)
    renews,     \* run -> the expired run it replaces, or None
    shown,      \* the runs whose card the user has
    entries,    \* the transactions of the ledger, in commit order: [run, at]
    keys,       \* <<run, op>> -> the committed key row or None
    pc,         \* press -> where DecideRecord is
    want,       \* press -> "confirm" or "cancel"
    card,       \* press -> the run of the card pressed
    since,      \* press -> when it was made
    seen,       \* press -> the status read by GET /v1/runs/{id}
    told,       \* press -> the answer the user gets
    op,         \* press -> the write its api call makes
    st,         \* press -> where the api is with this call
    began,      \* press -> when the call's database transaction began
    freed,      \* press -> the call has deleted its expired key row
    hit,        \* press -> the call's UPDATE has changed its row
    entry,      \* press -> the entry the create replied with
    reply       \* press -> the reply of the call

run_vars == <<status, created, confirmed, bad, renews>>
db_vars == <<run_vars, entries, keys>>
press_vars == <<pc, want, card, since, seen, told, entry>>
call_vars == <<op, st, began, freed, hit, reply>>
vars == <<clock, db_vars, shown, press_vars, call_vars>>

(***************************************************************************)
(* The api: one keyed write per call                                       *)
(***************************************************************************)

Key(x) == <<card[x], op[x]>>

\* (mistake) A key dies at Retention instead of after it.
Live_UntilRetention(k, t) == keys[k] # None /\ t < keys[k].at + Retention

\* A key row is live for a call that began at t as long as find() does not delete it.
Live(k, t) == keys[k] # None /\ t <= keys[k].at + Retention

\* Who holds a key: its INSERT, or the deletion of its expired row, is not yet committed.
Working == {"held", "updated", "read"}
Holds(y, k) == Key(y) = k /\ (st[y] \in Working \/ (st[y] = "claim" /\ freed[y]))
KeyIsFree(x) == \A y \in Press \ {x} : ~Holds(y, Key(x))

\* The body of a write is fixed by its run, but for the entry that closing as done reports.
Hash(x) == IF op[x] = "confirmed" THEN entry[x] ELSE 0

\* One call arrives.
Send(x, o) ==
    /\ op' = [op EXCEPT ![x] = o]
    /\ st' = [st EXCEPT ![x] = "sent"]
    /\ reply' = [reply EXCEPT ![x] = NoReply]
    /\ freed' = [freed EXCEPT ![x] = FALSE]
    /\ hit' = [hit EXCEPT ![x] = FALSE]
    /\ UNCHANGED began

Answer(x, r) ==
    /\ st' = [st EXCEPT ![x] = "done"]
    /\ reply' = [reply EXCEPT ![x] = r]

\* find(): replay, refuse, or go on to claim; an expired row in another's hands is waited for.
Find(x) ==
    /\ st[x] = "sent"
    /\ began' = [began EXCEPT ![x] = clock]
    /\ \/ /\ Live(Key(x), clock)
          /\ Answer(x, IF keys[Key(x)].hash = Hash(x) THEN keys[Key(x)].reply
                       ELSE Refused("idempotency_key_reused"))
          /\ UNCHANGED freed
       \/ /\ ~Live(Key(x), clock)
          /\ keys[Key(x)] # None => KeyIsFree(x)
          /\ freed' = [freed EXCEPT ![x] = keys[Key(x)] # None]
          /\ st' = [st EXCEPT ![x] = "claim"]
          /\ UNCHANGED reply
    /\ UNCHANGED <<clock, db_vars, shown, press_vars, op, hit>>

\* claim(): waits for a running holder of the key; if that one commits, it is refused.
Claim(x) ==
    /\ st[x] = "claim"
    /\ KeyIsFree(x)
    /\ \/ /\ ~freed[x] /\ keys[Key(x)] # None
          /\ Answer(x, Refused("request_in_progress"))
       \/ /\ freed[x] \/ keys[Key(x)] = None
          /\ st' = [st EXCEPT ![x] = "held"]
          /\ UNCHANGED reply
    /\ UNCHANGED <<clock, db_vars, shown, press_vars, op, began, freed, hit>>

Store(x, r) == keys' = [keys EXCEPT ![Key(x)] = [at |-> began[x], hash |-> Hash(x), reply |-> r]]

\* POST /v1/transactions, already confirmed by the user: refused for its values, or committed.
CreateTransaction(x) ==
    /\ st[x] = "held" /\ op[x] = "create"
    /\ \/ /\ bad[card[x]]
          /\ Answer(x, Refused("validation_error"))
          /\ UNCHANGED <<entries, keys>>
       \/ /\ ~bad[card[x]]
          /\ entries' = Append(entries, [run |-> card[x], at |-> began[x]])
          /\ Store(x, Created(Len(entries) + 1))
          /\ Answer(x, Created(Len(entries) + 1))
    /\ UNCHANGED <<clock, run_vars, shown, press_vars, op, began, freed, hit>>

\* SqlRunLog.confirm: UPDATE tool_calls where not yet confirmed and the run is waiting.
ConfirmUpdate(x) ==
    /\ st[x] = "held" /\ op[x] = "confirm"
    /\ hit' = [hit EXCEPT ![x] = confirmed[card[x]] = None /\ status[card[x]] = Waiting]
    /\ st' = [st EXCEPT ![x] = "updated"]
    /\ UNCHANGED <<clock, db_vars, shown, press_vars, op, began, freed, reply>>

\* SqlRunLog.close: UPDATE agent_runs where the run is waiting and, to abort it, nothing is
\* confirmed.  Another closing that has the row is waited for, and the condition read after it.
HasRow(y) == op[y] \in Closing /\ st[y] \in {"updated", "read"} /\ hit[y]
RowIsFree(x) == \A y \in Press \ {x} : ~(card[y] = card[x] /\ HasRow(y))
\* (mistake) The UPDATE does not ask whether the run still waits.
MayClose_AnyStatus(x) == ClosedAs(op[x]) = "aborted" => confirmed[card[x]] = None
MayClose(x) ==
    /\ status[card[x]] = Waiting
    /\ ClosedAs(op[x]) = "aborted" => confirmed[card[x]] = None
CloseUpdate(x) ==
    /\ st[x] = "held" /\ op[x] \in Closing
    /\ RowIsFree(x)
    /\ hit' = [hit EXCEPT ![x] = MayClose(x)]
    /\ st' = [st EXCEPT ![x] = "updated"]
    /\ UNCHANGED <<clock, db_vars, shown, press_vars, op, began, freed, reply>>

\* DecideRun: the run after the decision, read in the same transaction.
StatusSeenBy(x) == IF op[x] \in Closing /\ hit[x] THEN ClosedAs(op[x]) ELSE status[card[x]]
ReadBack(x) ==
    /\ st[x] = "updated"
    /\ reply' = [reply EXCEPT ![x] = Decided(StatusSeenBy(x))]
    /\ st' = [st EXCEPT ![x] = "read"]
    /\ UNCHANGED <<clock, db_vars, shown, press_vars, op, began, freed, hit>>

\* complete() and commit().
CommitDecision(x) ==
    /\ st[x] = "read"
    /\ st' = [st EXCEPT ![x] = "done"]
    /\ confirmed' = IF op[x] = "confirm" /\ hit[x]
                    THEN [confirmed EXCEPT ![card[x]] = began[x]] ELSE confirmed
    /\ status' = IF op[x] \in Closing /\ hit[x]
                 THEN [status EXCEPT ![card[x]] = ClosedAs(op[x])] ELSE status
    /\ Store(x, reply[x])
    /\ UNCHANGED <<clock, created, bad, renews, entries, shown, press_vars, op, began, freed, hit, reply>>

\* The server breaks: the call is rolled back.
Break(x) ==
    /\ st[x] \in Working \cup {"sent", "claim"}
    /\ st' = [st EXCEPT ![x] = "failed"]
    /\ UNCHANGED <<clock, db_vars, shown, press_vars, op, began, freed, hit, reply>>

Serve(x) ==
    \/ Find(x) \/ Claim(x) \/ CreateTransaction(x)
    \/ ConfirmUpdate(x) \/ CloseUpdate(x) \/ ReadBack(x) \/ CommitDecision(x)

(***************************************************************************)
(* The agent: proposing                                                    *)
(***************************************************************************)

\* ProposeRecord.propose: a waiting run under a new id.  Its card is shown only if the agent
\* hears that the run was recorded.
RecordProposal(r, isBad, parent) ==
    /\ status[r] = "none"
    /\ status' = [status EXCEPT ![r] = Waiting]
    /\ created' = [created EXCEPT ![r] = clock]
    /\ bad' = [bad EXCEPT ![r] = isBad]
    /\ renews' = [renews EXCEPT ![r] = parent]
    /\ UNCHANGED <<clock, confirmed, entries, keys>>

\* The user says a sentence and gets a card, or NOT_SAVED.
Propose ==
    /\ Cardinality({r \in Run : status[r] # "none" /\ renews[r] = None}) < MaxSaid
    /\ \E r \in Run, b \in BOOLEAN :
          RecordProposal(r, b, None) /\ shown' \in {shown, shown \cup {r}}
    /\ UNCHANGED <<press_vars, call_vars>>

(***************************************************************************)
(* The agent: deciding                                                     *)
(***************************************************************************)

Tell(x, answer) ==
    /\ pc' = [pc EXCEPT ![x] = "over"]
    /\ told' = [told EXCEPT ![x] = answer]
    /\ seen' = [seen EXCEPT ![x] = "none"]
    /\ UNCHANGED <<want, card, since>>

\* The agent goes on to its next api call.
Call(x, o) ==
    /\ pc' = [pc EXCEPT ![x] = o]
    /\ Send(x, o)
    /\ seen' = [seen EXCEPT ![x] = "none"]
    /\ UNCHANGED <<want, card, since, told>>

\* The user presses a button of a card.
PressButton(x) ==
    /\ pc[x] = "idle"
    /\ \E r \in shown : card' = [card EXCEPT ![x] = r]
    /\ \E w \in {"confirm", "cancel"} : want' = [want EXCEPT ![x] = w]
    /\ since' = [since EXCEPT ![x] = clock]
    /\ pc' = [pc EXCEPT ![x] = "get_run"]
    /\ UNCHANGED <<clock, db_vars, shown, seen, told, entry, call_vars>>

\* GET /v1/runs/{id}, first statement: the run.
GetRun(x) ==
    /\ pc[x] = "get_run"
    /\ seen' = [seen EXCEPT ![x] = status[card[x]]]
    /\ pc' = [pc EXCEPT ![x] = "get_calls"]
    /\ UNCHANGED <<clock, db_vars, shown, want, card, since, told, entry, call_vars>>

\* Second statement: its call; then what confirm() and cancel() make of both.
NotWaiting(x) ==
    /\ seen[x] # Waiting
    /\ Tell(x, IF seen[x] = "done" THEN "already" ELSE "closed")
    /\ UNCHANGED call_vars

Expired(x) == confirmed[card[x]] = None /\ clock - created[card[x]] >= Lifetime

\* (mistake) The entry is written before the confirmation is recorded.
DecideConfirm_CreateFirst(x) ==
    \/ NotWaiting(x)
    \/ /\ seen[x] = Waiting
       /\ \/ Expired(x) /\ Call(x, "expired")
          \/ ~Expired(x) /\ Call(x, "create")

DecideConfirm(x) ==
    \/ NotWaiting(x)
    \/ /\ seen[x] = Waiting
       /\ \/ Expired(x) /\ Call(x, "expired")
          \/ confirmed[card[x]] = None /\ ~Expired(x) /\ Call(x, "confirm")
          \/ confirmed[card[x]] # None /\ Call(x, "create")

DecideCancel(x) ==
    \/ NotWaiting(x)
    \/ /\ seen[x] = Waiting
       /\ \/ confirmed[card[x]] # None /\ Tell(x, "in_progress") /\ UNCHANGED call_vars
          \/ confirmed[card[x]] = None /\ Call(x, "cancelled")

GetCalls(x) ==
    /\ pc[x] = "get_calls"
    /\ IF want[x] = "confirm" THEN DecideConfirm(x) ELSE DecideCancel(x)
    /\ UNCHANGED <<clock, db_vars, shown, entry>>

\* The call is answered and not refused.
Replied(x) == st[x] = "done" /\ reply[x].code \notin Refusal

\* (mistake) Nobody looks at what the confirmation came to.
AfterConfirm_Blind(x) ==
    /\ pc[x] = "confirm" /\ Replied(x)
    /\ Call(x, "create")
    /\ UNCHANGED <<clock, db_vars, shown, entry>>

\* book.confirm: only a run that still waits is written.
AfterConfirm(x) ==
    /\ pc[x] = "confirm" /\ Replied(x)
    /\ \/ reply[x].code # Waiting /\ Tell(x, "closed") /\ UNCHANGED call_vars
       \/ reply[x].code = Waiting /\ Call(x, "create")
    /\ UNCHANGED <<clock, db_vars, shown, entry>>

\* (mistake) A rival that is writing is taken for a refusal of the values.
AfterCreate_AnyRefusal(x) ==
    /\ pc[x] = "create" /\ st[x] = "done"
    /\ \/ reply[x].code \in Refusal /\ Call(x, "rejected") /\ UNCHANGED entry
       \/ /\ reply[x].code = "created"
          /\ entry' = [entry EXCEPT ![x] = reply[x].entry]
          /\ Call(x, "confirmed")
    /\ UNCHANGED <<clock, db_vars, shown>>

\* _write: a rival that is writing, a refusal of the values, or an entry.
AfterCreate(x) ==
    /\ pc[x] = "create" /\ st[x] = "done"
    /\ \/ /\ reply[x].code = "request_in_progress"
          /\ Tell(x, "in_progress")
          /\ UNCHANGED <<entry, call_vars>>
       \/ /\ reply[x].code \in Refusal \ {"request_in_progress"}
          /\ Call(x, "rejected")
          /\ UNCHANGED entry
       \/ /\ reply[x].code = "created"
          /\ entry' = [entry EXCEPT ![x] = reply[x].entry]
          /\ Call(x, "confirmed")
    /\ UNCHANGED <<clock, db_vars, shown>>

AfterReject(x) ==
    /\ pc[x] = "rejected" /\ Replied(x)
    /\ Tell(x, "rejected")
    /\ UNCHANGED <<clock, db_vars, shown, entry, call_vars>>

\* The entry is in the ledger: however the closing ends, the user hears that it is recorded.
AfterFinish(x) ==
    /\ pc[x] = "confirmed"
    /\ Tell(x, "recorded")
    /\ UNCHANGED <<clock, db_vars, shown, entry, call_vars>>

\* (mistake) Nobody looks at what the closing came to.
AfterCancel_Blind(x) ==
    /\ pc[x] = "cancelled" /\ Replied(x)
    /\ Tell(x, "cancelled")
    /\ UNCHANGED <<clock, db_vars, shown, entry, call_vars>>

AfterCancel(x) ==
    /\ pc[x] = "cancelled" /\ Replied(x)
    /\ Tell(x, IF reply[x].code = "aborted" THEN "cancelled" ELSE "in_progress")
    /\ UNCHANGED <<clock, db_vars, shown, entry, call_vars>>

\* _renew: whatever the closing came to, the same values are proposed again.
Renew(x) ==
    /\ pc[x] = "expired" /\ Replied(x)
    /\ \/ \E r \in Run :
             /\ RecordProposal(r, bad[card[x]], card[x])
             /\ \/ shown' = shown \cup {r} /\ Tell(x, "expired")
                \/ shown' = shown /\ Tell(x, "not_saved")
       \/ Tell(x, "not_saved") /\ UNCHANGED <<clock, db_vars, shown>>
    /\ UNCHANGED <<entry, call_vars>>

Calling == {"confirm", "create", "rejected", "cancelled", "expired"}

\* LedgerUnavailable: the api cannot be reached or refuses, or does not answer in time (it may
\* still be at work).  The proposal stays as it is.  An agent that dies here leaves the same
\* state behind, and nobody hears even this.
Unreachable(x) ==
    /\ pc[x] \in Calling \cup {"get_run", "get_calls"}
    /\ Tell(x, "unreachable")
    /\ UNCHANGED <<clock, db_vars, shown, entry, call_vars>>

\* (mistake) A call that breaks without a reply is waited for without end.
CallFailed_Refusals(x) == st[x] = "done" /\ reply[x].code \in Refusal /\ pc[x] # "create"

CallFailed(x) ==
    \/ st[x] = "failed"
    \/ st[x] = "done" /\ reply[x].code \in Refusal /\ pc[x] # "create"

Decide(x) ==
    \/ GetRun(x) \/ GetCalls(x) \/ AfterConfirm(x) \/ AfterCreate(x) \/ AfterReject(x)
    \/ (st[x] \in {"done", "failed"} /\ AfterFinish(x))
    \/ AfterCancel(x) \/ Renew(x)
    \/ (pc[x] \in Calling /\ CallFailed(x) /\ Unreachable(x))

\* A press and its calls take far less than a tick: at most one boundary falls into them.
Tick ==
    /\ clock < MaxTime
    /\ \A x \in Press :
          pc[x] \notin {"idle", "over"} \/ st[x] \notin {"none", "done", "failed"}
             => since[x] = clock
    /\ clock' = clock + 1
    /\ UNCHANGED <<db_vars, shown, press_vars, call_vars>>

Init ==
    /\ clock = 0
    /\ status = [r \in Run |-> "none"]
    /\ created = [r \in Run |-> 0]
    /\ confirmed = [r \in Run |-> None]
    /\ bad = [r \in Run |-> FALSE]
    /\ renews = [r \in Run |-> None]
    /\ shown = {}
    /\ entries = <<>>
    /\ keys = [k \in Run \X Op |-> None]
    /\ pc = [x \in Press |-> "idle"]
    /\ want = [x \in Press |-> "confirm"]
    /\ card = [x \in Press |-> None]
    /\ since = [x \in Press |-> 0]
    /\ seen = [x \in Press |-> "none"]
    /\ told = [x \in Press |-> "nothing"]
    /\ op = [x \in Press |-> "confirm"]
    /\ st = [x \in Press |-> "none"]
    /\ began = [x \in Press |-> 0]
    /\ freed = [x \in Press |-> FALSE]
    /\ hit = [x \in Press |-> FALSE]
    /\ entry = [x \in Press |-> 0]
    /\ reply = [x \in Press |-> NoReply]

Next ==
    \/ Tick \/ Propose
    \/ \E x \in Press :
          \/ PressButton(x) \/ Decide(x) \/ Serve(x)
          \/ AfterFinish(x) \/ Unreachable(x) \/ Break(x)

Spec == Init /\ [][Next]_vars

\* The agent and the api go on with what they have begun; users, failures and time are free.
FairSpec == Spec /\ \A x \in Press : WF_vars(Decide(x)) /\ WF_vars(Serve(x))

-----------------------------------------------------------------------------
(***************************************************************************)
(* Properties                                                              *)
(***************************************************************************)

Answers ==
    {"nothing", "already", "closed", "in_progress", "recorded", "rejected", "cancelled",
     "expired", "not_saved", "unreachable"}

\* Every variable has its type.
TypeOK ==
    /\ clock \in Nat
    /\ status \in [Run -> Status]
    /\ created \in [Run -> Nat]
    /\ confirmed \in [Run -> Nat \cup {None}]
    /\ bad \in [Run -> BOOLEAN]
    /\ renews \in [Run -> Run \cup {None}]
    /\ shown \subseteq Run
    /\ entries \in Seq(EntryType)
    /\ keys \in [Run \X Op -> KeyRow \cup {None}]
    /\ pc \in [Press -> Calling \cup {"idle", "get_run", "get_calls", "confirmed", "over"}]
    /\ want \in [Press -> {"confirm", "cancel"}]
    /\ card \in [Press -> Run \cup {None}]
    /\ since \in [Press -> Nat]
    /\ seen \in [Press -> Status]
    /\ told \in [Press -> Answers]
    /\ op \in [Press -> Op]
    /\ st \in [Press -> Working \cup {"none", "sent", "claim", "done", "failed"}]
    /\ began \in [Press -> Nat]
    /\ freed \in [Press -> BOOLEAN]
    /\ hit \in [Press -> BOOLEAN]
    /\ entry \in [Press -> Nat]
    /\ reply \in [Press -> Replies]

Entry == 1..Len(entries)
HasEntry(r) == \E i \in Entry : entries[i].run = r

\* Nothing enters the ledger that the user has not confirmed: the audit row says when, and the
\* user did press "record" on that card (api-contract.md 4: it can be checked afterwards).
EntryWasConfirmed ==
    \A i \in Entry :
        /\ confirmed[entries[i].run] # None
        /\ \E x \in Press : pc[x] # "idle" /\ want[x] = "confirm" /\ card[x] = entries[i].run

\* Retries, double presses and restarts put one proposal into the ledger at most once per
\* lifetime of its key: two entries of a run lie more than Retention apart.
EntriesFarApart ==
    \A i, j \in Entry :
        i < j /\ entries[i].run = entries[j].run => entries[i].at + Retention < entries[j].at

\* What the audit log and the user are told of a recorded proposal is so, and a proposal that
\* is closed as refused was never written, though a rival may have been writing it.
VerdictIsTrue ==
    /\ \A r \in Run : /\ status[r] = "done" => HasEntry(r)
                      /\ status[r] = "failed" => ~HasEntry(r)
    /\ \A x \in Press : told[x] \in {"recorded", "already"} => HasEntry(card[x])

\* The user who hears "cancelled" has an aborted proposal, and who hears "rejected" a refused one.
ClosedAsTold ==
    \A x \in Press : /\ told[x] = "cancelled" => status[card[x]] = "aborted"
                     /\ told[x] = "rejected" => status[card[x]] # Waiting /\ ~HasEntry(card[x])

\* A decision is final: a closed run keeps its status and a confirmation its first time, however
\* many closings and confirmations overlap.
DecisionsAreFinal ==
    [][\A r \in Run :
          /\ status[r] \notin {"none", Waiting} => status'[r] = status[r]
          /\ confirmed[r] # None => confirmed'[r] = confirmed[r]]_vars

\* Who presses gets an answer: nobody waits for a key or a row forever,
\* though the calls of presses that are over still hold some.
EveryPressEnds == \A x \in Press : pc[x] # "idle" ~> pc[x] = "over"

(***************************************************************************)
(* The inductive invariant behind these properties                         *)
(***************************************************************************)

\* Where a press and its call can be.
PlaceOK ==
    /\ \A r \in shown : status[r] # "none"
    /\ \A x \in Press :
          /\ pc[x] = "idle" <=> card[x] = None
          /\ pc[x] = "idle" => st[x] = "none" /\ told[x] = "nothing"
          /\ pc[x] # "idle" => status[card[x]] # "none"
          /\ pc[x] \in Calling \cup {"confirmed"} => op[x] = pc[x] /\ st[x] # "none"
          /\ st[x] # "none" /\ op[x] # "cancelled" => want[x] = "confirm"
          /\ st[x] \in {"updated", "read"} => op[x] # "create"

\* A run that is not recorded has left no trace; the ledger holds nothing the api refuses,
\* and only that is closed as failed.
RecordOK ==
    /\ \A r \in Run :
          status[r] = "none" =>
              /\ confirmed[r] = None
              /\ \A o \in Op : keys[<<r, o>>] = None
              /\ ~HasEntry(r)
    /\ \A i \in Entry : ~bad[entries[i].run]
    /\ \A r \in Run : status[r] = "failed" => bad[r]

\* What a key row says of its write.
KeysOK ==
    \A r \in Run :
        /\ keys[<<r, "create">>] = None => ~HasEntry(r)
        /\ keys[<<r, "create">>] # None =>
              /\ keys[<<r, "create">>].hash = 0
              /\ keys[<<r, "create">>].reply.code = "created"
              /\ HasEntry(r)
              /\ \A i \in Entry :
                    entries[i].run = r => entries[i].at <= keys[<<r, "create">>].at
        /\ keys[<<r, "confirm">>] # None /\ keys[<<r, "confirm">>].reply.code = Waiting =>
              confirmed[r] # None
        /\ keys[<<r, "cancelled">>] # None /\ keys[<<r, "cancelled">>].reply.code = "aborted" =>
              status[r] = "aborted"
        /\ keys[<<r, "rejected">>] # None => status[r] # Waiting

\* What a call in progress, and its reply, rest on.
CallAt(x) ==
    LET r == card[x] IN
    st[x] # "none" =>
        /\ op[x] = "create" => confirmed[r] # None
        /\ op[x] = "confirmed" => HasEntry(r)
        /\ op[x] = "rejected" => bad[r]
        /\ op[x] = "create" /\ st[x] = "done" =>
              /\ reply[x].code \in {"created", "validation_error", "request_in_progress"}
              /\ reply[x].code = "created" => HasEntry(r)
              /\ reply[x].code = "validation_error" => bad[r]
        /\ op[x] = "confirm" /\ st[x] \in {"updated", "read"} =>
              IF hit[x] THEN confirmed[r] = None
              ELSE confirmed[r] # None \/ status[r] # Waiting
        /\ op[x] = "confirm" /\ st[x] = "read" /\ reply[x].code = Waiting =>
              hit[x] \/ confirmed[r] # None
        /\ op[x] = "confirm" /\ st[x] = "done" /\ reply[x].code = Waiting => confirmed[r] # None
        /\ op[x] \in Closing /\ st[x] \in {"updated", "read"} /\ hit[x] => status[r] = Waiting
        /\ op[x] = "rejected" /\ st[x] \in {"updated", "read"} /\ ~hit[x] => status[r] # Waiting
        /\ op[x] = "cancelled" /\ st[x] = "read" /\ reply[x].code = "aborted" =>
              hit[x] \/ status[r] = "aborted"
        /\ op[x] = "cancelled" /\ st[x] = "done" /\ reply[x].code = "aborted" =>
              status[r] = "aborted"
        /\ op[x] = "rejected" /\ st[x] = "done" /\ reply[x].code \notin Refusal =>
              status[r] # Waiting
CallOK == \A x \in Press : CallAt(x)

\* Keys and rows of agent_runs are held by one call at a time, and what find() saw still holds.
Exclusive ==
    \A x, y \in Press :
        x # y => /\ \A k \in Run \X Op : ~(Holds(x, k) /\ Holds(y, k))
                 /\ ~(HasRow(x) /\ HasRow(y) /\ card[x] = card[y])
HeldAt(x) ==
    /\ st[x] \in Working \cup {"claim"} /\ freed[x] =>
          keys[Key(x)] # None /\ ~Live(Key(x), began[x])
    /\ st[x] \in Working => freed[x] \/ keys[Key(x)] = None
LocksOK == Exclusive /\ \A x \in Press : HeldAt(x)

\* What was read and told.
TellOK ==
    \A x \in Press :
        /\ seen[x] # "none" => pc[x] = "get_calls"
        /\ seen[x] = "done" => HasEntry(card[x])
        /\ told[x] = "rejected" => bad[card[x]]

Inductive ==
    /\ TypeOK /\ PlaceOK /\ RecordOK /\ KeysOK /\ CallOK /\ LocksOK /\ TellOK
    /\ EntryWasConfirmed /\ EntriesFarApart /\ VerdictIsTrue /\ ClosedAsTold

(***************************************************************************)
(* What the code and its documents say, and the program does not keep      *)
(***************************************************************************)

\* One proposal is one entry, however often it is pressed (record_router.py: "two presses are
\* one entry").
AtMostOneEntry ==
    \A i, j \in Entry : entries[i].run = entries[j].run => i = j

\* A confirmed run is never closed as aborted.
ConfirmedNeverAborted ==
    \A r \in Run : ~(confirmed[r] # None /\ status[r] = "aborted")
=============================================================================
