------------------------- MODULE CaptureGateProofs -------------------------
(* Theorems about the confirmation gate of chat capture. *)
EXTENDS CaptureGate, TLAPS

USE TimeAssumption

\* Appending to the ledger keeps what it holds and adds the new entry at its end.
LEMMA AppendEntry ==
    ASSUME NEW S, NEW s \in Seq(S), NEW e \in S
    PROVE  /\ Append(s, e) \in Seq(S)
           /\ Len(Append(s, e)) = Len(s) + 1
           /\ \A i \in 1..Len(s) : Append(s, e)[i] = s[i]
           /\ Append(s, e)[Len(s) + 1] = e
  OBVIOUS

\* What the ledger holds.
LEMMA EntryTypes ==
    ASSUME TypeOK
    PROVE  \A i \in Entry : entries[i].run \in Run /\ entries[i].at \in Nat
  <1>1. entries \in Seq(EntryType)
    BY DEF TypeOK
  <1>2. \A i \in Entry : entries[i] \in EntryType
    BY <1>1 DEF Entry
  <1> QED BY <1>2 DEF EntryType

\* The replies the agent and the api build are replies.
LEMMA ReplyTypes ==
    /\ \A c \in Refusal : Refused(c) \in Replies
    /\ \A n \in Nat : Created(n) \in Replies
    /\ \A s \in Status : Decided(s) \in Replies
    /\ NoReply \in Replies
  BY DEF Refused, Created, Decided, NoReply, Replies

\* A press that has made a call is a press on a run.
LEMMA PressHasRun ==
    ASSUME TypeOK, PlaceOK, NEW x \in Press, pc[x] # "idle"
    PROVE  card[x] \in Run /\ Key(x) \in Run \X Op /\ status[card[x]] # "none"
  BY DEF TypeOK, PlaceOK, Key

-----------------------------------------------------------------------------
(* Types, and where a press can be *)

\* Before the first sentence every variable has its type.
LEMMA InitTypes == Init => TypeOK /\ PlaceOK
  <1> SUFFICES ASSUME Init PROVE TypeOK /\ PlaceOK OBVIOUS
  <1>1. TypeOK
    BY ReplyTypes DEF Init, TypeOK, Status, Op, Closing, Calling, Answers, Working
  <1>2. PlaceOK
    BY DEF Init, PlaceOK, Calling
  <1> QED BY <1>1, <1>2

\* An answer is a place and a reply.
LEMMA AnswerTypes ==
    ASSUME TypeOK, NEW x \in Press, NEW r \in Replies, Answer(x, r)
    PROVE  /\ st' \in [Press -> Working \cup {"none", "sent", "claim", "done", "failed"}]
           /\ reply' \in [Press -> Replies]
  <1>1. st' \in [Press -> Working \cup {"none", "sent", "claim", "done", "failed"}]
    BY DEF Answer, TypeOK
  <1>2. reply' \in [Press -> Replies]
    BY DEF Answer, TypeOK
  <1> QED BY <1>1, <1>2

\* The api's steps keep the types.
LEMMA ServeTypes ==
    ASSUME TypeOK, PlaceOK, NEW x \in Press, Serve(x) \/ Break(x)
    PROVE  TypeOK' /\ PlaceOK'
  <1>0. st[x] # "none" /\ pc[x] # "idle"
    BY DEF Serve, Break, Find, Claim, CreateTransaction, ConfirmUpdate, CloseUpdate, ReadBack,
           CommitDecision, Working, PlaceOK
  <1>1. card[x] \in Run /\ Key(x) \in Run \X Op /\ status[card[x]] # "none"
    BY <1>0, PressHasRun
  <1>2. Hash(x) \in Nat /\ began[x] \in Nat /\ reply[x] \in Replies
    BY DEF TypeOK, Hash
  <1>3. CASE Find(x)
    <2>1. ASSUME Live(Key(x), clock) PROVE keys[Key(x)].reply \in Replies
      BY <1>1, <2>1 DEF TypeOK, Live, KeyRow
    <2>2. Refused("idempotency_key_reused") \in Replies
      BY ReplyTypes DEF Refusal
    <2>3. /\ began' \in [Press -> Nat] /\ freed' \in [Press -> BOOLEAN]
          /\ st' \in [Press -> Working \cup {"none", "sent", "claim", "done", "failed"}]
          /\ reply' \in [Press -> Replies]
      <3>1. CASE Live(Key(x), clock)
        <4> DEFINE r == IF keys[Key(x)].hash = Hash(x) THEN keys[Key(x)].reply
                        ELSE Refused("idempotency_key_reused")
        <4>1. r \in Replies
          BY <2>1, <2>2, <3>1
        <4>2. Answer(x, r) /\ freed' = freed /\ began' = [began EXCEPT ![x] = clock]
          BY <1>3, <3>1 DEF Find
        <4> HIDE DEF r
        <4>3. /\ st' \in [Press -> Working \cup {"none", "sent", "claim", "done", "failed"}]
              /\ reply' \in [Press -> Replies]
          BY <4>1, <4>2, AnswerTypes
        <4> QED BY <4>2, <4>3 DEF TypeOK
      <3>2. CASE ~Live(Key(x), clock)
        <4>1. /\ began' = [began EXCEPT ![x] = clock]
              /\ freed' = [freed EXCEPT ![x] = keys[Key(x)] # None]
              /\ st' = [st EXCEPT ![x] = "claim"] /\ reply' = reply
          BY <1>3, <3>2 DEF Find
        <4> QED BY <4>1 DEF TypeOK
      <3> QED BY <3>1, <3>2
    <2>t. UNCHANGED <<clock, status, created, confirmed, bad, renews, shown, entries, keys>>
      BY <1>3 DEF Find, db_vars, run_vars
    <2>u. UNCHANGED <<pc, want, card, since, seen, told, entry, op, hit>>
      BY <1>3 DEF Find, press_vars
    <2>v. TypeOK'
      BY <2>3, <2>t, <2>u DEF TypeOK
    <2>4. PlaceOK'
      BY <1>0, <1>3 DEF Find, Answer, TypeOK, PlaceOK, db_vars, run_vars, press_vars
    <2> QED BY <2>v, <2>4
  <1>4. CASE Claim(x)
    <2>1. Refused("request_in_progress") \in Replies
      BY ReplyTypes DEF Refusal
    <2>2. TypeOK'
      <3>1. st' \in [Press -> Working \cup {"none", "sent", "claim", "done", "failed"}]
        <4>1. st' = [st EXCEPT ![x] = "done"] \/ st' = [st EXCEPT ![x] = "held"]
          BY <1>4 DEF Claim, Answer
        <4> QED BY <4>1 DEF TypeOK, Working
      <3>2. reply' \in [Press -> Replies]
        BY <1>4, <2>1, ZenonT(60) DEF Claim, Answer, TypeOK
      <3>3. UNCHANGED <<clock, status, created, confirmed, bad, renews, shown, entries, keys>>
        BY <1>4 DEF Claim, db_vars, run_vars
      <3>4. UNCHANGED <<pc, want, card, since, seen, told, entry, op, began, freed, hit>>
        BY <1>4 DEF Claim, press_vars
      <3> QED BY <3>1, <3>2, <3>3, <3>4 DEF TypeOK
    <2>3. PlaceOK'
      BY <1>0, <1>4 DEF Claim, Answer, TypeOK, PlaceOK, db_vars, run_vars, press_vars
    <2> QED BY <2>2, <2>3
  <1>5. CASE CreateTransaction(x)
    <2>1. Len(entries) + 1 \in Nat
      BY DEF TypeOK
    <2>2. Created(Len(entries) + 1) \in Replies /\ Refused("validation_error") \in Replies
      BY <2>1, ReplyTypes DEF Refusal
    <2>3. entries' \in Seq(EntryType)
      <3>1. [run |-> card[x], at |-> began[x]] \in EntryType
        BY <1>1, <1>2 DEF EntryType
      <3>2. entries' = entries \/ entries' = Append(entries, [run |-> card[x], at |-> began[x]])
        BY <1>5 DEF CreateTransaction
      <3>3. entries \in Seq(EntryType)
        BY DEF TypeOK
      <3> QED BY <3>1, <3>2, <3>3, AppendEntry
    <2>4. [at |-> began[x], hash |-> Hash(x), reply |-> Created(Len(entries) + 1)] \in KeyRow
      BY <1>2, <2>2 DEF KeyRow
    <2>5. keys' \in [Run \X Op -> KeyRow \cup {None}]
      BY <1>1, <1>5, <2>4 DEF CreateTransaction, Store, TypeOK
    <2>6. TypeOK'
      <3>1. /\ st' \in [Press -> Working \cup {"none", "sent", "claim", "done", "failed"}]
            /\ reply' \in [Press -> Replies]
        <4>1. \E r \in Replies : Answer(x, r)
          BY <1>5, <2>2 DEF CreateTransaction
        <4> QED BY <4>1, AnswerTypes
      <3>2. UNCHANGED <<clock, status, created, confirmed, bad, renews, shown>>
        BY <1>5 DEF CreateTransaction, run_vars
      <3>3. UNCHANGED <<pc, want, card, since, seen, told, entry, op, began, freed, hit>>
        BY <1>5 DEF CreateTransaction, press_vars
      <3> QED BY <2>3, <2>5, <3>1, <3>2, <3>3 DEF TypeOK
    <2>7. PlaceOK'
      BY <1>0, <1>5 DEF CreateTransaction, Answer, TypeOK, PlaceOK, run_vars, press_vars
    <2> QED BY <2>6, <2>7
  <1>6. CASE ConfirmUpdate(x) \/ CloseUpdate(x) \/ Break(x)
    <2>1. TypeOK'
      BY <1>6, ZenonT(60) DEF ConfirmUpdate, CloseUpdate, Break, MayClose, TypeOK, db_vars, run_vars, press_vars, Working
    <2>2. PlaceOK'
      BY <1>0, <1>6 DEF ConfirmUpdate, CloseUpdate, Break, TypeOK, PlaceOK, Closing, db_vars, run_vars, press_vars
    <2> QED BY <2>1, <2>2
  <1>7. CASE ReadBack(x)
    <2>1. StatusSeenBy(x) \in Status
      BY <1>1 DEF StatusSeenBy, ClosedAs, TypeOK, Status
    <2>2. Decided(StatusSeenBy(x)) \in Replies
      BY <2>1, ReplyTypes
    <2>3. TypeOK'
      BY <1>7, <2>2 DEF ReadBack, TypeOK, db_vars, run_vars, press_vars, Working
    <2>4. PlaceOK'
      BY <1>0, <1>7 DEF ReadBack, TypeOK, PlaceOK, db_vars, run_vars, press_vars
    <2> QED BY <2>3, <2>4
  <1>8. CASE CommitDecision(x)
    <2>1. ClosedAs(op[x]) \in Status \ {"none"}
      BY DEF ClosedAs, Status
    <2>2. keys' \in [Run \X Op -> KeyRow \cup {None}]
      BY <1>1, <1>2, <1>8 DEF CommitDecision, Store, TypeOK, KeyRow
    <2>3. status' \in [Run -> Status] /\ \A r \in Run : status[r] # "none" => status'[r] # "none"
      BY <1>1, <1>8, <2>1 DEF CommitDecision, TypeOK
    <2>4. TypeOK'
      BY <1>1, <1>2, <1>8, <2>2, <2>3 DEF CommitDecision, TypeOK, press_vars
    <2>5. \A y \in Press : card[y] # None => card[y] \in Run
      BY DEF TypeOK
    <2>6. PlaceOK'
      BY <1>0, <1>8, <2>3, <2>5 DEF CommitDecision, TypeOK, PlaceOK, press_vars
    <2> QED BY <2>4, <2>6
  <1> QED BY <1>3, <1>4, <1>5, <1>6, <1>7, <1>8 DEF Serve

\* Recording a proposal keeps the types, and no other run changes.
LEMMA RecordTypes ==
    ASSUME TypeOK, NEW r \in Run, NEW b \in BOOLEAN, NEW parent \in Run \cup {None},
           RecordProposal(r, b, parent)
    PROVE  /\ status' \in [Run -> Status] /\ created' \in [Run -> Nat]
           /\ bad' \in [Run -> BOOLEAN] /\ renews' \in [Run -> Run \cup {None}]
           /\ UNCHANGED <<clock, confirmed, entries, keys>>
           /\ status'[r] # "none"
           /\ \A q \in Run : status[q] # "none" => status'[q] = status[q]
  BY DEF RecordProposal, TypeOK, Status, Waiting

\* The agent's and the user's steps keep the types.
LEMMA AgentTypes ==
    ASSUME TypeOK, PlaceOK, NEW x \in Press,
           PressButton(x) \/ Decide(x) \/ AfterFinish(x) \/ Unreachable(x)
    PROVE  TypeOK' /\ PlaceOK'
  <1>1. CASE PressButton(x)
    <2>1. TypeOK'
      BY <1>1 DEF PressButton, TypeOK, db_vars, run_vars, call_vars, Calling
    <2>2. PlaceOK'
      BY <1>1, NoneAssumption DEF PressButton, TypeOK, PlaceOK, db_vars, run_vars, call_vars, Calling
    <2> QED BY <2>1, <2>2
  <1> SUFFICES ASSUME Decide(x) \/ AfterFinish(x) \/ Unreachable(x) PROVE TypeOK' /\ PlaceOK'
    BY <1>1
  <1>0. pc[x] # "idle"
    BY DEF Decide, GetRun, GetCalls, AfterConfirm, AfterCreate, AfterReject, AfterFinish,
           AfterCancel, Renew, Unreachable, Calling
  <1>2. card[x] \in Run /\ status[card[x]] # "none"
    BY <1>0, PressHasRun
  <1>3. \A y \in Press : card[y] # None => card[y] \in Run
    BY DEF TypeOK
  <1>4. CASE GetRun(x)
    BY <1>0, <1>2, <1>4 DEF GetRun, TypeOK, PlaceOK, db_vars, run_vars, call_vars, Calling
  <1>5. ASSUME NEW answer \in Answers, Tell(x, answer), UNCHANGED <<clock, db_vars, shown, entry, call_vars>>
        PROVE  TypeOK' /\ PlaceOK'
    BY <1>0, <1>5 DEF Tell, TypeOK, PlaceOK, db_vars, run_vars, call_vars, Calling, Status
  <1>6. ASSUME NEW o \in Calling \cup {"confirmed"}, Call(x, o), entry' \in [Press -> Nat],
               o # "cancelled" => want[x] = "confirm", UNCHANGED <<clock, db_vars, shown>>
        PROVE  TypeOK' /\ PlaceOK'
    <2>1. TypeOK'
      BY <1>6, ReplyTypes DEF Call, Send, TypeOK, db_vars, run_vars, Calling, Status, Op, Closing
    <2>2. PlaceOK'
      BY <1>0, <1>6 DEF Call, Send, TypeOK, PlaceOK, db_vars, run_vars, Calling
    <2> QED BY <2>1, <2>2
  <1>7. CASE GetCalls(x)
    <2>1. entry' \in [Press -> Nat]
      BY <1>7 DEF GetCalls, TypeOK
    <2>2. want[x] # "confirm" => want[x] = "cancel"
      BY DEF TypeOK
    <2>3. CASE want[x] = "confirm"
      BY <1>5, <1>6, <1>7, <2>1, <2>3 DEF GetCalls, DecideConfirm, NotWaiting, Answers, Calling
    <2>4. CASE want[x] = "cancel"
      BY <1>5, <1>6, <1>7, <2>1, <2>4 DEF GetCalls, DecideCancel, NotWaiting, Answers, Calling
    <2> QED BY <2>2, <2>3, <2>4
  <1>8. CASE AfterConfirm(x)
    <2>1. want[x] = "confirm" /\ entry' \in [Press -> Nat]
      BY <1>8 DEF AfterConfirm, PlaceOK, Calling, TypeOK
    <2> QED BY <1>5, <1>6, <1>8, <2>1 DEF AfterConfirm, Answers, Calling
  <1>9. CASE AfterCreate(x)
    <2>1. want[x] = "confirm" /\ reply[x].entry \in Nat
      BY <1>9 DEF AfterCreate, PlaceOK, Calling, TypeOK, Replies
    <2>2. entry' \in [Press -> Nat]
      BY <1>9, <2>1 DEF AfterCreate, TypeOK
    <2> QED BY <1>5, <1>6, <1>9, <2>1, <2>2 DEF AfterCreate, Answers, Calling
  <1>10. CASE AfterReject(x) \/ AfterFinish(x) \/ AfterCancel(x) \/ Unreachable(x)
    BY <1>5, <1>10 DEF AfterReject, AfterFinish, AfterCancel, Unreachable, Answers
  <1>11. CASE Renew(x)
    <2>1. CASE UNCHANGED <<clock, db_vars, shown>>
      <3>1. CASE Tell(x, "not_saved")
        BY <1>5, <1>11, <2>1, <3>1 DEF Renew, Answers
      <3>2. CASE Tell(x, "expired")
        BY <1>5, <1>11, <2>1, <3>2 DEF Renew, Answers
      <3> QED BY <1>11, <3>1, <3>2 DEF Renew
    <2>2. CASE \E r \in Run :
                 /\ RecordProposal(r, bad[card[x]], card[x])
                 /\ \/ shown' = shown \cup {r} /\ Tell(x, "expired")
                    \/ shown' = shown /\ Tell(x, "not_saved")
      <3> PICK r \in Run :
                 /\ RecordProposal(r, bad[card[x]], card[x])
                 /\ \/ shown' = shown \cup {r} /\ Tell(x, "expired")
                    \/ shown' = shown /\ Tell(x, "not_saved")
        BY <2>2
      <3>1. bad[card[x]] \in BOOLEAN
        BY <1>2 DEF TypeOK
      <3>2. /\ status' \in [Run -> Status] /\ created' \in [Run -> Nat]
            /\ bad' \in [Run -> BOOLEAN] /\ renews' \in [Run -> Run \cup {None}]
            /\ UNCHANGED <<clock, confirmed, entries, keys>>
            /\ status'[r] # "none"
            /\ \A q \in Run : status[q] # "none" => status'[q] = status[q]
        BY <1>2, <3>1, RecordTypes
      <3>3. /\ UNCHANGED <<want, card, since, entry, call_vars>>
            /\ pc' = [pc EXCEPT ![x] = "over"] /\ seen' = [seen EXCEPT ![x] = "none"]
            /\ \E a \in {"expired", "not_saved"} : told' = [told EXCEPT ![x] = a]
            /\ shown' \subseteq shown \cup {r}
        BY <1>11 DEF Renew, Tell
      <3>4. TypeOK'
        <4>1. UNCHANGED <<want, card, since, entry, op, st, began, freed, hit, reply>>
          BY <3>3 DEF call_vars
        <4>2. pc' \in [Press -> Calling \cup {"idle", "get_run", "get_calls", "confirmed", "over"}]
          BY <3>3 DEF TypeOK
        <4>3. seen' \in [Press -> Status] /\ told' \in [Press -> Answers]
          BY <3>3 DEF TypeOK, Answers, Status
        <4>4. shown' \subseteq Run
          BY <3>3 DEF TypeOK
        <4> QED BY <3>2, <4>1, <4>2, <4>3, <4>4 DEF TypeOK
      <3>5. PlaceOK'
        <4>0. \A q \in shown : q \in Run /\ status[q] # "none"
          BY DEF TypeOK, PlaceOK
        <4>1. \A q \in shown' : status'[q] # "none"
          <5>1. \A q \in Run : status[q] # "none" => status'[q] # "none"
            BY <3>2
          <5>2. status'[r] # "none" /\ shown' \subseteq shown \cup {r}
            BY <3>2, <3>3
          <5> HIDE <3>2, <3>3
          <5> QED BY <4>0, <5>1, <5>2
        <4>2. \A y \in Press : pc[y] # "idle" => status'[card[y]] # "none"
          BY <1>3, <3>2 DEF PlaceOK
        <4>3. /\ pc'[x] = "over" /\ \A y \in Press \ {x} : pc'[y] = pc[y] /\ told'[y] = told[y]
              /\ UNCHANGED <<want, card, op, st>>
          BY <3>3 DEF TypeOK, call_vars
        <4> QED BY <1>0, <4>1, <4>2, <4>3 DEF PlaceOK, Calling
      <3> QED BY <3>4, <3>5
    <2> QED BY <1>11, <2>1, <2>2 DEF Renew
  <1> QED BY <1>4, <1>7, <1>8, <1>9, <1>10, <1>11 DEF Decide

\* Every step keeps the types.
LEMMA StepTypes ==
    ASSUME TypeOK, PlaceOK, [Next]_vars
    PROVE  TypeOK' /\ PlaceOK'
  <1>1. CASE UNCHANGED vars
    BY <1>1 DEF TypeOK, PlaceOK, vars, db_vars, run_vars, press_vars, call_vars
  <1>2. CASE Tick
    BY <1>2 DEF Tick, TypeOK, PlaceOK, db_vars, run_vars, press_vars, call_vars
  <1>3. CASE Propose
    <2> PICK r \in Run, b \in BOOLEAN : RecordProposal(r, b, None) /\ shown' \in {shown, shown \cup {r}}
      BY <1>3 DEF Propose
    <2>1. /\ status' \in [Run -> Status] /\ created' \in [Run -> Nat]
          /\ bad' \in [Run -> BOOLEAN] /\ renews' \in [Run -> Run \cup {None}]
          /\ UNCHANGED <<clock, confirmed, entries, keys>>
          /\ status'[r] # "none"
          /\ \A q \in Run : status[q] # "none" => status'[q] = status[q]
      BY RecordTypes
    <2>2. TypeOK'
      BY <1>3, <2>1 DEF Propose, TypeOK, press_vars, call_vars
    <2>3. \A y \in Press : card[y] # None => card[y] \in Run
      BY DEF TypeOK
    <2>4. PlaceOK'
      BY <1>3, <2>1, <2>3 DEF Propose, TypeOK, PlaceOK, press_vars, call_vars
    <2> QED BY <2>2, <2>4
  <1> QED BY <1>1, <1>2, <1>3, ServeTypes, AgentTypes DEF Next

\* Every variable keeps its type, for any number of presses, runs and days.
THEOREM TypeCorrect == Spec => []TypeOK
  <1>1. Init => TypeOK /\ PlaceOK
    BY InitTypes
  <1>2. TypeOK /\ PlaceOK /\ [Next]_vars => (TypeOK /\ PlaceOK)'
    BY StepTypes
  <1> QED BY <1>1, <1>2, PTL DEF Spec

-----------------------------------------------------------------------------
(* The invariant *)

\* What one press has been told and has read.
ToldAt(x) ==
    /\ seen[x] # "none" => pc[x] = "get_calls"
    /\ seen[x] = "done" => HasEntry(card[x])
    /\ told[x] = "rejected" => bad[card[x]]
    /\ told[x] \in {"recorded", "already"} => HasEntry(card[x])
    /\ told[x] = "cancelled" => status[card[x]] = "aborted"
    /\ told[x] = "rejected" => status[card[x]] # Waiting
\* The part of the invariant that is about one press.
PressAt(x) == CallAt(x) /\ HeldAt(x) /\ ToldAt(x)

\* The part that is about the rows.
RowsOK ==
    /\ RecordOK /\ KeysOK /\ EntryWasConfirmed /\ EntriesFarApart
    /\ \A r \in Run : status[r] = "done" => HasEntry(r)

\* The invariant, by what a step can disturb.
Parts == TypeOK /\ PlaceOK /\ RowsOK /\ Exclusive /\ \A x \in Press : PressAt(x)

\* The invariant is the conjunction of these parts.
LEMMA PartsAreAll == Parts <=> Inductive
  <1> SUFFICES ASSUME TypeOK, PlaceOK
               PROVE  Inductive <=> RowsOK /\ Exclusive /\ \A x \in Press : PressAt(x)
    BY DEF Parts, Inductive
  <1>1. CallOK <=> \A x \in Press : CallAt(x)
    BY DEF CallOK
  <1>2. LocksOK <=> Exclusive /\ \A x \in Press : HeldAt(x)
    BY DEF LocksOK
  <1>3. ASSUME RecordOK PROVE \A r \in Run : bad[r] => ~HasEntry(r)
    BY <1>3 DEF RecordOK, HasEntry
  <1>4. \A x \in Press : told[x] # "nothing" => card[x] \in Run
    BY PressHasRun DEF PlaceOK
  <1>5. ASSUME RecordOK
        PROVE  TellOK /\ VerdictIsTrue /\ ClosedAsTold <=>
                  /\ \A r \in Run : status[r] = "done" => HasEntry(r)
                  /\ \A x \in Press : ToldAt(x)
    <2>1. \A r \in Run : status[r] = "failed" => ~HasEntry(r)
      BY <1>3, <1>5 DEF RecordOK
    <2>2. \A x \in Press : told[x] = "rejected" /\ bad[card[x]] => ~HasEntry(card[x])
      BY <1>3, <1>4, <1>5
    <2> QED BY <2>1, <2>2 DEF TellOK, VerdictIsTrue, ClosedAsTold, ToldAt
  <1> QED BY <1>1, <1>2, <1>5 DEF Inductive, RowsOK, PressAt

\* A step that decides nothing: rows, keys and entries stay, but for proposals it may add.
Steady ==
    /\ UNCHANGED <<confirmed, entries, keys>>
    /\ \A r \in Run :
          IF status[r] = "none" THEN status'[r] \in {"none", Waiting}
          ELSE status'[r] = status[r] /\ bad'[r] = bad[r]
\* A press that does not move.
Still(y) ==
    /\ pc'[y] = pc[y] /\ want'[y] = want[y] /\ card'[y] = card[y]
    /\ seen'[y] = seen[y] /\ told'[y] = told[y] /\ entry'[y] = entry[y]
    /\ op'[y] = op[y] /\ st'[y] = st[y] /\ began'[y] = began[y]
    /\ freed'[y] = freed[y] /\ hit'[y] = hit[y] /\ reply'[y] = reply[y]
\* A press, once made, stays the press it is.
SamePress(x) ==
    pc[x] # "idle" => pc'[x] # "idle" /\ want'[x] = want[x] /\ card'[x] = card[x]

\* While nothing is decided, a press that does not move keeps its part of the invariant.
LEMMA StillKeeps ==
    ASSUME TypeOK, PlaceOK, NEW y \in Press, Steady, Still(y), PressAt(y)
    PROVE  PressAt(y)'
  <1>1. \A r \in Run : HasEntry(r)' = HasEntry(r)
    BY DEF Steady, HasEntry, Entry
  <1>2. CASE pc[y] = "idle"
    <2>1. st[y] = "none" /\ told[y] = "nothing" /\ seen[y] = "none"
      BY <1>2 DEF PlaceOK, PressAt, ToldAt
    <2> QED BY <2>1 DEF PressAt, CallAt, HeldAt, ToldAt, Still, Working
  <1>3. CASE pc[y] # "idle"
    <2>1. /\ card[y] \in Run /\ status'[card[y]] = status[card[y]] /\ bad'[card[y]] = bad[card[y]]
          /\ HasEntry(card[y])' = HasEntry(card[y]) /\ card'[y] = card[y]
      BY <1>1, <1>3, PressHasRun DEF Steady, Still
    <2>3. CallAt(y)'
      BY <2>1 DEF PressAt, CallAt, Still, Steady, HasEntry, Entry
    <2>4. HeldAt(y)'
      BY DEF PressAt, HeldAt, Still, Steady, Key, Live
    <2>5. ToldAt(y)'
      BY <2>1 DEF PressAt, ToldAt, Still, Steady, HasEntry, Entry
    <2> QED BY <2>3, <2>4, <2>5 DEF PressAt
  <1> QED BY <1>2, <1>3

\* While nothing is decided, the rows keep their part of it.
LEMMA SteadyRows ==
    ASSUME TypeOK, PlaceOK, RowsOK, Steady, \A x \in Press : SamePress(x)
    PROVE  RowsOK'
  <1>1. \A r \in Run : HasEntry(r)' = HasEntry(r)
    BY DEF Steady, HasEntry, Entry
  <1>2. \A i \in Entry : entries[i].run \in Run /\ HasEntry(entries[i].run)
    BY EntryTypes DEF HasEntry
  <1>3. \A i \in Entry : status[entries[i].run] # "none"
    BY <1>2 DEF RowsOK, RecordOK
  <1>4. RecordOK'
    BY <1>1, <1>2, <1>3 DEF RowsOK, RecordOK, Steady, Waiting, Entry
  <1>5. KeysOK'
    <2> SUFFICES ASSUME NEW r \in Run
                 PROVE  /\ (keys[<<r, "cancelled">>] # None
                              /\ keys[<<r, "cancelled">>].reply.code = "aborted" =>
                                    status[r] = "aborted")'
                        /\ (keys[<<r, "rejected">>] # None => status[r] # Waiting)'
      BY <1>1 DEF RowsOK, KeysOK, Steady, Entry
    <2>1. CASE status[r] = "none"
      BY <2>1 DEF RowsOK, RecordOK, Op, Closing, Steady
    <2>2. CASE status[r] # "none"
      BY <2>2 DEF RowsOK, KeysOK, Steady
    <2> QED BY <2>1, <2>2
  <1>6. EntryWasConfirmed'
    BY DEF RowsOK, EntryWasConfirmed, Steady, Entry, SamePress
  <1>7. EntriesFarApart'
    BY DEF RowsOK, EntriesFarApart, Steady, Entry
  <1>8. \A r \in Run : status'[r] = "done" => HasEntry(r)'
    BY <1>1 DEF RowsOK, Steady, Waiting
  <1> QED BY <1>4, <1>5, <1>6, <1>7, <1>8 DEF RowsOK

\* A step of one press that decides nothing keeps the invariant, when the press keeps its own
\* part and takes only locks that nobody else holds.
LEMMA OnePressMoves ==
    ASSUME Parts, TypeOK', PlaceOK', NEW x \in Press, Steady,
           \A y \in Press \ {x} : Still(y), SamePress(x), PressAt(x)',
           \A k \in Run \X Op : Holds(x, k)' => \A y \in Press \ {x} : ~Holds(y, k),
           HasRow(x)' => \A y \in Press \ {x} : ~(HasRow(y) /\ card[y] = card'[x])
    PROVE  Parts'
  <1>1. TypeOK /\ PlaceOK /\ RowsOK /\ Exclusive /\ \A y \in Press : PressAt(y)
    BY DEF Parts
  <1>2. \A y \in Press : SamePress(y)
    BY DEF SamePress, Still
  <1>3. RowsOK'
    BY <1>1, <1>2, SteadyRows
  <1>4. \A y \in Press : PressAt(y)'
    BY <1>1, StillKeeps
  <1>5. \A y \in Press \ {x} : /\ HasRow(y)' = HasRow(y)
                               /\ \A k \in Run \X Op : Holds(y, k)' = Holds(y, k)
    BY DEF HasRow, Holds, Key, Still
  <1>6. Exclusive'
    <2> SUFFICES ASSUME NEW y \in Press, NEW z \in Press, y # z
                 PROVE  /\ \A k \in Run \X Op : ~(Holds(y, k)' /\ Holds(z, k)')
                        /\ ~(HasRow(y)' /\ HasRow(z)' /\ card'[y] = card'[z])
      BY DEF Exclusive
    <2>1. CASE y # x /\ z # x
      BY <1>1, <1>5, <2>1 DEF Exclusive, Still
    <2>2. CASE y = x \/ z = x
      BY <1>5, <2>2 DEF Still
    <2> QED BY <2>1, <2>2
  <1> QED BY <1>3, <1>4, <1>6 DEF Parts

-----------------------------------------------------------------------------
(* The api's steps that decide nothing *)

\* A step of the api with the call of one press, before its commit.
LEMMA CallMoves ==
    ASSUME Parts, TypeOK', PlaceOK', NEW x \in Press, pc[x] # "idle",
           UNCHANGED <<db_vars, press_vars, op>>,
           \A y \in Press \ {x} : Still(y), CallAt(x)', HeldAt(x)',
           \A k \in Run \X Op : Holds(x, k)' => \A y \in Press \ {x} : ~Holds(y, k),
           HasRow(x)' => \A y \in Press \ {x} : ~(HasRow(y) /\ card[y] = card[x])
    PROVE  Parts'
  <1>1. UNCHANGED <<status, bad, confirmed, entries, keys, pc, want, card, seen, told>>
    BY DEF db_vars, run_vars, press_vars
  <1>2. Steady
    BY <1>1 DEF Steady
  <1>3. SamePress(x)
    BY <1>1 DEF SamePress
  <1>4. ToldAt(x)'
    BY <1>1 DEF Parts, PressAt, ToldAt, HasEntry, Entry
  <1>5. HasRow(x)' => \A y \in Press \ {x} : ~(HasRow(y) /\ card[y] = card'[x])
    BY <1>1
  <1> QED BY <1>2, <1>3, <1>4, <1>5, OnePressMoves DEF PressAt

\* What a press knows that a call of the api begins with.
LEMMA CallerKnows ==
    ASSUME Parts, NEW x \in Press, st[x] # "none"
    PROVE  /\ pc[x] # "idle" /\ card[x] \in Run /\ Key(x) = <<card[x], op[x]>>
           /\ Key(x) \in Run \X Op /\ status[card[x]] # "none"
           /\ TypeOK /\ PlaceOK /\ RowsOK /\ Exclusive /\ CallAt(x) /\ HeldAt(x) /\ ToldAt(x)
  <1>1. TypeOK /\ PlaceOK /\ RowsOK /\ Exclusive /\ CallAt(x) /\ HeldAt(x) /\ ToldAt(x)
    BY DEF Parts, PressAt
  <1>2. pc[x] # "idle"
    BY <1>1 DEF PlaceOK
  <1> QED BY <1>1, <1>2, PressHasRun DEF Key

\* find() keeps the invariant: what it replays is still so.
LEMMA FindKeeps ==
    ASSUME Parts, TypeOK', PlaceOK', NEW x \in Press, Find(x)
    PROVE  Parts'
  <1>0. st[x] # "none" /\ st[x] = "sent"
    BY DEF Find
  <1>1. /\ pc[x] # "idle" /\ card[x] \in Run /\ Key(x) = <<card[x], op[x]>>
        /\ Key(x) \in Run \X Op /\ status[card[x]] # "none"
        /\ TypeOK /\ PlaceOK /\ RowsOK /\ Exclusive /\ CallAt(x) /\ HeldAt(x) /\ ToldAt(x)
    BY <1>0, CallerKnows
  <1>2. UNCHANGED <<db_vars, press_vars, op>> /\ \A y \in Press \ {x} : Still(y)
    BY <1>1 DEF Find, Answer, Still, TypeOK, press_vars
  <1>3. UNCHANGED <<status, confirmed, bad, entries, keys, card, op>>
    BY <1>2 DEF db_vars, run_vars, press_vars
  <1>4. \A r \in Run : HasEntry(r)' = HasEntry(r)
    BY <1>3 DEF HasEntry, Entry
  <1>5. CASE st'[x] = "done"
    <2>1. /\ keys[Key(x)] # None
          /\ reply'[x] = IF keys[Key(x)].hash = Hash(x) THEN keys[Key(x)].reply
                         ELSE Refused("idempotency_key_reused")
      BY <1>1, <1>5 DEF Find, Answer, Live, TypeOK
    <2>2. CallAt(x)'
      <3> DEFINE r == card[x]
      <3> DEFINE row == keys[Key(x)]
      <3>0. /\ op[x] = "create" => row.hash = 0 /\ row.reply.code = "created" /\ HasEntry(r)
            /\ op[x] = "confirm" /\ row.reply.code = Waiting => confirmed[r] # None
            /\ op[x] = "cancelled" /\ row.reply.code = "aborted" => status[r] = "aborted"
        <4>1. KeysOK /\ r \in Run /\ row # None
          BY <1>1, <2>1 DEF RowsOK
        <4>2. ASSUME op[x] = "create" PROVE row.hash = 0 /\ row.reply.code = "created" /\ HasEntry(r)
          <5>1. row = keys[<<r, "create">>]
            BY <1>1, <4>2
          <5> QED BY <4>1, <5>1 DEF KeysOK
        <4>3. ASSUME op[x] = "confirm", row.reply.code = Waiting PROVE confirmed[r] # None
          <5>1. row = keys[<<r, "confirm">>]
            BY <1>1, <4>3
          <5> QED BY <4>1, <4>3, <5>1 DEF KeysOK
        <4>4. ASSUME op[x] = "cancelled", row.reply.code = "aborted" PROVE status[r] = "aborted"
          <5>1. row = keys[<<r, "cancelled">>]
            BY <1>1, <4>4
          <5> QED BY <4>1, <4>4, <5>1 DEF KeysOK
        <4> QED BY <4>2, <4>3, <4>4
      <3>7. /\ reply'[x].code = row.reply.code \/ reply'[x].code = "idempotency_key_reused"
            /\ op[x] = "create" /\ row.hash = 0 => reply'[x].code = row.reply.code
        BY <2>1 DEF Hash, Refused
      <3> HIDE DEF row
      <3>1. op[x] = "create" => reply'[x].code = "created" /\ HasEntry(r)
        BY <3>0, <3>7
      <3>2. op[x] = "confirm" /\ reply'[x].code = Waiting => confirmed[r] # None
        BY <3>0, <3>7 DEF Waiting
      <3>3. op[x] = "cancelled" /\ reply'[x].code = "aborted" => status[r] = "aborted"
        BY <3>0, <3>7
      <3>4. op[x] = "rejected" => status[r] # Waiting
        <4>1. KeysOK /\ r \in Run /\ row # None
          BY <1>1, <2>1 DEF RowsOK, row
        <4>2. ASSUME op[x] = "rejected" PROVE row = keys[<<r, "rejected">>]
          BY <1>1, <4>2 DEF row
        <4> QED BY <4>1, <4>2 DEF KeysOK
      <3>5. /\ op[x] = "create" => confirmed[r] # None
            /\ op[x] = "confirmed" => HasEntry(r)
            /\ op[x] = "rejected" => bad[r]
        BY <1>0, <1>1 DEF CallAt
      <3>6. HasEntry(card[x])' = HasEntry(r)
        BY <1>3 DEF HasEntry, Entry
      <3> QED BY <1>3, <1>5, <3>1, <3>2, <3>3, <3>4, <3>5, <3>6 DEF CallAt
    <2>3. HeldAt(x)' /\ ~HasRow(x)' /\ \A k \in Run \X Op : ~Holds(x, k)'
      BY <1>5 DEF HeldAt, HasRow, Holds, Working
    <2> QED BY <1>1, <1>2, <2>2, <2>3, CallMoves
  <1>6. CASE st'[x] # "done"
    <2>1. /\ st'[x] = "claim" /\ began'[x] = clock /\ ~Live(Key(x), clock)
          /\ freed'[x] = (keys[Key(x)] # None)
          /\ keys[Key(x)] # None => KeyIsFree(x)
      BY <1>1, <1>6 DEF Find, Answer, TypeOK
    <2>2. CallAt(x)'
      <3>1. HasEntry(card[x])' = HasEntry(card[x])
        BY <1>3 DEF HasEntry, Entry
      <3> QED BY <1>0, <1>1, <1>3, <2>1, <3>1 DEF CallAt
    <2>3. HeldAt(x)'
      BY <1>3, <2>1 DEF HeldAt, Working, Key, Live
    <2>4. ~HasRow(x)'
      BY <2>1 DEF HasRow
    <2>5. \A k \in Run \X Op : Holds(x, k)' => \A y \in Press \ {x} : ~Holds(y, k)
      BY <1>3, <2>1 DEF Holds, Working, KeyIsFree, Key
    <2> QED BY <1>1, <1>2, <2>2, <2>3, <2>4, <2>5, CallMoves
  <1> QED BY <1>5, <1>6

\* claim() keeps the invariant: nobody else holds the key that goes in.
LEMMA ClaimKeeps ==
    ASSUME Parts, TypeOK', PlaceOK', NEW x \in Press, Claim(x)
    PROVE  Parts'
  <1>0. st[x] # "none" /\ st[x] = "claim"
    BY DEF Claim
  <1>1. /\ pc[x] # "idle" /\ card[x] \in Run /\ Key(x) = <<card[x], op[x]>>
        /\ TypeOK /\ PlaceOK /\ RowsOK /\ Exclusive /\ CallAt(x) /\ HeldAt(x) /\ ToldAt(x)
    BY <1>0, CallerKnows
  <1>2. UNCHANGED <<db_vars, press_vars, op>> /\ \A y \in Press \ {x} : Still(y)
    BY <1>1 DEF Claim, Answer, Still, TypeOK, press_vars
  <1>3. UNCHANGED <<status, confirmed, bad, entries, keys, card, op, began, freed>>
    BY <1>2 DEF Claim, db_vars, run_vars, press_vars
  <1>4. HasEntry(card[x])' = HasEntry(card[x])
    BY <1>3 DEF HasEntry, Entry
  <1>5. \/ st'[x] = "done" /\ reply'[x].code = "request_in_progress"
        \/ st'[x] = "held" /\ (freed[x] \/ keys[Key(x)] = None)
    BY <1>1 DEF Claim, Answer, Refused, TypeOK
  <1>6. CallAt(x)'
    BY <1>0, <1>1, <1>3, <1>4, <1>5 DEF CallAt, Refusal, Waiting
  <1>7. HeldAt(x)'
    BY <1>0, <1>1, <1>3, <1>5 DEF HeldAt, Working, Key, Live
  <1>8. ~HasRow(x)'
    BY <1>5 DEF HasRow
  <1>9. \A k \in Run \X Op : Holds(x, k)' => \A y \in Press \ {x} : ~Holds(y, k)
    BY <1>3 DEF Claim, Holds, KeyIsFree, Key
  <1> QED BY <1>1, <1>2, <1>6, <1>7, <1>8, <1>9, CallMoves

\* The UPDATEs of a decision, the reading after them and the death of a call keep it.
LEMMA WorkKeeps ==
    ASSUME Parts, TypeOK', PlaceOK', NEW x \in Press,
           ConfirmUpdate(x) \/ CloseUpdate(x) \/ ReadBack(x) \/ Break(x)
    PROVE  Parts'
  <1>0. st[x] # "none"
    BY DEF ConfirmUpdate, CloseUpdate, ReadBack, Break, Working
  <1>1. /\ pc[x] # "idle" /\ card[x] \in Run /\ Key(x) = <<card[x], op[x]>>
        /\ TypeOK /\ PlaceOK /\ RowsOK /\ Exclusive /\ CallAt(x) /\ HeldAt(x) /\ ToldAt(x)
    BY <1>0, CallerKnows
  <1>2. UNCHANGED <<db_vars, press_vars, op>> /\ \A y \in Press \ {x} : Still(y)
    BY <1>1 DEF ConfirmUpdate, CloseUpdate, ReadBack, Break, Still, TypeOK, press_vars
  <1>3. UNCHANGED <<status, confirmed, bad, entries, keys, card, op>>
    BY <1>2 DEF db_vars, run_vars, press_vars
  <1>4. HasEntry(card[x])' = HasEntry(card[x])
    BY <1>3 DEF HasEntry, Entry
  <1>5. UNCHANGED <<began, freed>>
    BY DEF ConfirmUpdate, CloseUpdate, ReadBack, Break
  <1>6. CASE Break(x)
    <2>1. st'[x] = "failed"
      BY <1>1, <1>6 DEF Break, TypeOK
    <2>2. CallAt(x)'
      BY <1>0, <1>1, <1>3, <1>4, <2>1 DEF CallAt
    <2>3. HeldAt(x)' /\ ~HasRow(x)' /\ \A k \in Run \X Op : ~Holds(x, k)'
      BY <2>1 DEF HeldAt, HasRow, Holds, Working
    <2> QED BY <1>1, <1>2, <2>2, <2>3, CallMoves
  <1>7. ASSUME st[x] \in Working, st'[x] \in Working
        PROVE  /\ HeldAt(x)'
               /\ \A k \in Run \X Op : Holds(x, k)' => \A y \in Press \ {x} : ~Holds(y, k)
    <2>1. HeldAt(x)'
      BY <1>1, <1>3, <1>5, <1>7 DEF HeldAt, Key, Live
    <2>2. \A k \in Run \X Op : Holds(x, k)' => Holds(x, k)
      BY <1>3, <1>7 DEF Holds, Key
    <2> QED BY <1>1, <2>1, <2>2 DEF Exclusive
  <1>8. CASE ConfirmUpdate(x)
    <2>1. /\ st[x] = "held" /\ op[x] = "confirm" /\ st'[x] = "updated"
          /\ hit'[x] = (confirmed[card[x]] = None /\ status[card[x]] = Waiting)
      BY <1>1, <1>8 DEF ConfirmUpdate, TypeOK
    <2>2. CallAt(x)'
      BY <1>3, <2>1 DEF CallAt, Closing
    <2>3. ~HasRow(x)'
      BY <1>3, <2>1 DEF HasRow, Closing
    <2> QED BY <1>1, <1>2, <1>7, <2>1, <2>2, <2>3, CallMoves DEF Working
  <1>9. CASE CloseUpdate(x)
    <2>1. /\ st[x] = "held" /\ op[x] \in Closing /\ st'[x] = "updated"
          /\ hit'[x] = MayClose(x) /\ RowIsFree(x)
      BY <1>1, <1>9 DEF CloseUpdate, TypeOK
    <2>2. op[x] = "rejected" => hit'[x] = (status[card[x]] = Waiting)
      <3>1. op[x] = "rejected" => ClosedAs(op[x]) # "aborted"
        BY DEF ClosedAs
      <3> QED BY <2>1, <3>1 DEF MayClose
    <2>3. hit'[x] => status[card[x]] = Waiting
      BY <2>1 DEF MayClose
    <2>4. CallAt(x)'
      BY <1>0, <1>1, <1>3, <1>4, <2>1, <2>2, <2>3 DEF CallAt, Closing
    <2>5. HasRow(x)' => \A y \in Press \ {x} : ~(HasRow(y) /\ card[y] = card[x])
      BY <2>1 DEF RowIsFree
    <2> QED BY <1>1, <1>2, <1>7, <2>1, <2>4, <2>5, CallMoves DEF Working
  <1>10. CASE ReadBack(x)
    <2>1. /\ st[x] = "updated" /\ st'[x] = "read" /\ hit'[x] = hit[x]
          /\ reply'[x].code = StatusSeenBy(x)
      BY <1>1, <1>10 DEF ReadBack, Decided, TypeOK
    <2>2. /\ op[x] = "confirm" => StatusSeenBy(x) = status[card[x]]
          /\ ~hit[x] => StatusSeenBy(x) = status[card[x]]
      BY DEF StatusSeenBy, Closing
    <2>3. CallAt(x)'
      BY <1>0, <1>1, <1>3, <1>4, <2>1, <2>2 DEF CallAt
    <2>4. HasRow(x)' => HasRow(x)
      BY <1>3, <2>1 DEF HasRow
    <2>5. HasRow(x)' => \A y \in Press \ {x} : ~(HasRow(y) /\ card[y] = card[x])
      BY <1>1, <2>4 DEF Exclusive
    <2> QED BY <1>1, <1>2, <1>7, <2>1, <2>3, <2>5, CallMoves DEF Working
  <1> QED BY <1>6, <1>8, <1>9, <1>10

-----------------------------------------------------------------------------
(* The api's commits *)

\* What a commit of another press may change under a press that does not move.
LEMMA CommitSpares ==
    ASSUME Parts, NEW y \in Press, Still(y), UNCHANGED bad,
           \A r \in Run : HasEntry(r) => HasEntry(r)',
           \A r \in Run : confirmed[r] # None => confirmed'[r] # None,
           \A r \in Run : status[r] # Waiting => status'[r] = status[r],
           op[y] = "confirm" /\ st[y] \in Working => confirmed'[card[y]] = confirmed[card[y]],
           HasRow(y) => status'[card[y]] = status[card[y]],
           Holds(y, Key(y)) => keys'[Key(y)] = keys[Key(y)]
    PROVE  PressAt(y)'
  <1>0. TypeOK /\ PlaceOK /\ PressAt(y)
    BY DEF Parts
  <1>1. CASE pc[y] = "idle"
    <2>1. st[y] = "none" /\ told[y] = "nothing" /\ seen[y] = "none"
      BY <1>0, <1>1 DEF PlaceOK, PressAt, ToldAt
    <2> QED BY <2>1 DEF PressAt, CallAt, HeldAt, ToldAt, Still, Working
  <1>2. CASE pc[y] # "idle"
    <2> DEFINE r == card[y]
    <2>1. r \in Run /\ card'[y] = r
      BY <1>0, <1>2, PressHasRun DEF Still
    <2>2. HasEntry(r) => HasEntry(r)'
      BY <2>1
    <2>3. HasEntry(card[y])' <=> HasEntry(r)'
      BY <2>1 DEF HasEntry, Entry
    <2>4. /\ confirmed[r] # None => confirmed'[r] # None
          /\ status[r] # Waiting => status'[r] = status[r]
      BY <2>1
    <2>5. CallAt(y)'
      <3>1. st[y] # "none" =>
               /\ op[y] = "create" => confirmed'[r] # None
               /\ op[y] = "confirmed" => HasEntry(r)'
               /\ op[y] = "rejected" => bad'[r]
               /\ op[y] = "create" /\ st[y] = "done" =>
                     /\ reply[y].code \in {"created", "validation_error", "request_in_progress"}
                     /\ reply[y].code = "created" => HasEntry(r)'
                     /\ reply[y].code = "validation_error" => bad'[r]
        BY <1>0, <2>2, <2>4 DEF PressAt, CallAt
      <3>2. op[y] = "confirm" =>
               /\ st[y] \in {"updated", "read"} =>
                     IF hit[y] THEN confirmed'[r] = None
                     ELSE confirmed'[r] # None \/ status'[r] # Waiting
               /\ st[y] = "read" /\ reply[y].code = Waiting => hit[y] \/ confirmed'[r] # None
               /\ st[y] = "done" /\ reply[y].code = Waiting => confirmed'[r] # None
        BY <1>0, <2>4 DEF PressAt, CallAt, Working
      <3>3. op[y] \in Closing =>
               /\ st[y] \in {"updated", "read"} /\ hit[y] => status'[r] = Waiting
               /\ op[y] = "rejected" /\ st[y] \in {"updated", "read"} /\ ~hit[y] =>
                     status'[r] # Waiting
               /\ op[y] = "cancelled" /\ st[y] = "read" /\ reply[y].code = "aborted" =>
                     hit[y] \/ status'[r] = "aborted"
               /\ op[y] = "cancelled" /\ st[y] = "done" /\ reply[y].code = "aborted" =>
                     status'[r] = "aborted"
               /\ op[y] = "rejected" /\ st[y] = "done" /\ reply[y].code \notin Refusal =>
                     status'[r] # Waiting
        BY <1>0, <2>4 DEF PressAt, CallAt, HasRow, Waiting, Closing
      <3> QED BY <2>1, <2>3, <3>1, <3>2, <3>3 DEF CallAt, Still, Closing
    <2>6. HeldAt(y)'
      <3>1. st[y] \in Working \/ (st[y] = "claim" /\ freed[y]) => keys'[Key(y)] = keys[Key(y)]
        BY DEF Holds
      <3>2. Key(y)' = Key(y)
        BY DEF Key, Still
      <3> QED BY <1>0, <3>1, <3>2 DEF PressAt, HeldAt, Live, Still
    <2>7. ToldAt(y)'
      BY <1>0, <2>1, <2>2, <2>3, <2>4 DEF PressAt, ToldAt, Still, Waiting
    <2> QED BY <2>5, <2>6, <2>7 DEF PressAt
  <1> QED BY <1>1, <1>2

\* A commit gives back what its call held.
LEMMA CommitReleases ==
    ASSUME Exclusive, NEW x \in Press, st'[x] = "done", \A y \in Press \ {x} : Still(y)
    PROVE  Exclusive'
  <1>1. ~HasRow(x)' /\ \A k \in Run \X Op : ~Holds(x, k)'
    BY DEF HasRow, Holds, Working
  <1>2. \A y \in Press \ {x} : /\ HasRow(y)' = HasRow(y)
                               /\ \A k \in Run \X Op : Holds(y, k)' = Holds(y, k)
    BY DEF HasRow, Holds, Key, Still
  <1> QED BY <1>1, <1>2 DEF Exclusive, Still

\* POST /v1/transactions keeps the invariant: the entry that comes in is the first of its
\* proposal, or the earlier ones have outlived their key.
LEMMA CreateKeeps ==
    ASSUME Parts, TypeOK', PlaceOK', NEW x \in Press, CreateTransaction(x)
    PROVE  Parts'
  <1> DEFINE r == card[x]
  <1> DEFINE e == [run |-> card[x], at |-> began[x]]
  <1>0. st[x] = "held" /\ op[x] = "create" /\ st[x] # "none"
    BY DEF CreateTransaction
  <1>1. /\ pc[x] # "idle" /\ r \in Run /\ Key(x) = <<r, "create">> /\ Key(x) \in Run \X Op
        /\ status[r] # "none"
        /\ TypeOK /\ PlaceOK /\ RowsOK /\ Exclusive /\ CallAt(x) /\ HeldAt(x) /\ ToldAt(x)
    BY <1>0, CallerKnows
  <1>2. /\ UNCHANGED <<status, confirmed, bad, pc, want, card, seen, told, op, began, freed, hit>>
        /\ \A y \in Press \ {x} : Still(y)
    BY <1>1 DEF CreateTransaction, Answer, Still, TypeOK, press_vars, run_vars
  <1>3. CASE bad[r]
    <2>1. /\ st'[x] = "done" /\ reply'[x].code = "validation_error"
          /\ UNCHANGED <<db_vars, press_vars, op>>
      BY <1>1, <1>3 DEF CreateTransaction, Answer, Refused, TypeOK, db_vars
    <2>2. CallAt(x)'
      BY <1>0, <1>1, <1>2, <1>3, <2>1 DEF CallAt
    <2>3. HeldAt(x)' /\ ~HasRow(x)' /\ \A k \in Run \X Op : ~Holds(x, k)'
      BY <2>1 DEF HeldAt, HasRow, Holds, Working
    <2> QED BY <1>1, <1>2, <2>1, <2>2, <2>3, CallMoves
  <1>4. CASE ~bad[r]
    <2>1. /\ entries' = Append(entries, e)
          /\ keys' = [keys EXCEPT ![Key(x)] =
                         [at |-> began[x], hash |-> Hash(x), reply |-> Created(Len(entries) + 1)]]
          /\ st'[x] = "done" /\ reply'[x].code = "created"
      BY <1>1, <1>4, SMTT(40) DEF CreateTransaction, Answer, Store, Created, TypeOK
    <2>2. /\ Entry' = Entry \cup {Len(entries) + 1}
          /\ \A i \in Entry : entries'[i] = entries[i] /\ i < Len(entries) + 1
          /\ entries'[Len(entries) + 1] = e
          /\ Len(entries) + 1 \in Nat /\ Len(entries) + 1 \notin Entry
      <3>1. entries \in Seq(EntryType) /\ e \in EntryType /\ Len(entries) \in Nat
        BY <1>1 DEF TypeOK, EntryType
      <3>2. /\ Len(entries') = Len(entries) + 1
            /\ \A i \in 1..Len(entries) : entries'[i] = entries[i]
            /\ entries'[Len(entries) + 1] = e
        BY <2>1, <3>1, AppendEntry
      <3> QED BY <3>1, <3>2 DEF Entry
    <2>3. \A q \in Run : HasEntry(q)' <=> HasEntry(q) \/ q = r
      BY <2>2 DEF HasEntry
    <2>4. \A k \in Run \X Op : k # Key(x) => keys'[k] = keys[k]
      BY <1>1, <2>1 DEF TypeOK
    <2>5. /\ keys'[Key(x)] # None /\ keys'[Key(x)].at = began[x] /\ keys'[Key(x)].hash = 0
          /\ keys'[Key(x)].reply.code = "created"
      <3>1. keys'[Key(x)] =
               [at |-> began[x], hash |-> Hash(x), reply |-> Created(Len(entries) + 1)]
        BY <1>1, <2>1 DEF TypeOK
      <3>2. keys'[Key(x)] \in KeyRow \cup {None} /\ Hash(x) = 0
        BY <1>0, <1>1 DEF TypeOK, Hash
      <3>3. keys'[Key(x)] # None
        <4>1. Created(Len(entries) + 1) \in Replies /\ Hash(x) \in Nat /\ began[x] \in Nat
          BY <1>1, <2>2, <3>2, ReplyTypes DEF TypeOK
        <4> QED BY <3>1, <4>1, NoneAssumption DEF KeyRow
      <3> QED BY <3>1, <3>2, <3>3 DEF Created
    <2>t. began[x] \in Nat /\ \A i \in Entry : entries[i].at \in Nat
      BY <1>1, EntryTypes DEF TypeOK
    <2>6. \A i \in Entry : entries[i].run = r => entries[i].at + Retention < began[x]
      <3>1. CASE keys[Key(x)] = None
        <4>1. ~HasEntry(r)
          BY <1>1, <3>1 DEF RowsOK, KeysOK
        <4> QED BY <4>1 DEF HasEntry
      <3>2. CASE keys[Key(x)] # None
        <4>1. ~Live(Key(x), began[x])
          BY <1>0, <1>1, <3>2 DEF HeldAt, Working
        <4>2. \A i \in Entry : entries[i].run = r => entries[i].at <= keys[Key(x)].at
          BY <1>1, <3>2 DEF RowsOK, KeysOK
        <4>3. keys[Key(x)].at \in Nat
          <5>1. keys[Key(x)] \in KeyRow
            BY <1>1, <3>2 DEF TypeOK
          <5> QED BY <5>1 DEF KeyRow
        <4> QED BY <2>t, <3>2, <4>1, <4>2, <4>3 DEF Live
      <3> QED BY <3>1, <3>2
    <2>7. confirmed[r] # None /\ want[x] = "confirm"
      BY <1>0, <1>1 DEF CallAt, PlaceOK
    <2>8. RowsOK'
      <3>1. RecordOK'
        BY <1>1, <1>2, <1>4, <2>2, <2>3, <2>4 DEF RowsOK, RecordOK
      <3>2. KeysOK'
        <4>1. ASSUME NEW q \in Run
              PROVE  /\ keys'[<<q, "confirm">>] = keys[<<q, "confirm">>]
                     /\ keys'[<<q, "cancelled">>] = keys[<<q, "cancelled">>]
                     /\ keys'[<<q, "rejected">>] = keys[<<q, "rejected">>]
                     /\ q # r => keys'[<<q, "create">>] = keys[<<q, "create">>]
          BY <1>1, <2>4 DEF Op, Closing
        <4>2. \A i \in Entry' : entries'[i].run = r => entries'[i].at <= began[x]
          <5>1. \A i \in Entry : entries[i].run = r => entries[i].at <= began[x]
            BY <2>t, <2>6
          <5> QED BY <2>2, <2>t, <5>1
        <4>3. ASSUME NEW q \in Run, q # r
              PROVE  /\ keys'[<<q, "create">>] = None => ~HasEntry(q)'
                     /\ keys'[<<q, "create">>] # None =>
                           /\ keys'[<<q, "create">>].hash = 0
                           /\ keys'[<<q, "create">>].reply.code = "created"
                           /\ HasEntry(q)'
                           /\ \A i \in Entry' : entries'[i].run = q =>
                                 entries'[i].at <= keys'[<<q, "create">>].at
          <5>1. /\ KeysOK /\ keys'[<<q, "create">>] = keys[<<q, "create">>]
                /\ HasEntry(q)' <=> HasEntry(q)
            BY <1>1, <2>3, <4>1, <4>3 DEF RowsOK
          <5>2. \A i \in Entry' : entries'[i].run = q => i \in Entry /\ entries'[i] = entries[i]
            BY <2>2, <4>3
          <5> QED BY <5>1, <5>2 DEF KeysOK
        <4>4. KeysOK
          BY <1>1 DEF RowsOK
        <4>5. ASSUME NEW q \in Run
              PROVE  /\ (keys[<<q, "create">>] = None => ~HasEntry(q))'
                     /\ (keys[<<q, "create">>] # None =>
                           /\ keys[<<q, "create">>].hash = 0
                           /\ keys[<<q, "create">>].reply.code = "created"
                           /\ HasEntry(q)
                           /\ \A i \in Entry : entries[i].run = q =>
                                 entries[i].at <= keys[<<q, "create">>].at)'
          <5>1. CASE q = r
            BY <1>1, <2>3, <2>5, <4>2, <5>1
          <5>2. CASE q # r
            BY <4>3, <5>2
          <5> QED BY <5>1, <5>2
        <4>6. ASSUME NEW q \in Run
              PROVE  /\ (keys[<<q, "confirm">>] # None
                           /\ keys[<<q, "confirm">>].reply.code = Waiting =>
                                 confirmed[q] # None)'
                     /\ (keys[<<q, "cancelled">>] # None
                           /\ keys[<<q, "cancelled">>].reply.code = "aborted" =>
                                 status[q] = "aborted")'
                     /\ (keys[<<q, "rejected">>] # None => status[q] # Waiting)'
          BY <1>2, <4>1, <4>4 DEF KeysOK
        <4> QED BY <4>5, <4>6 DEF KeysOK
      <3>3. EntryWasConfirmed'
        BY <1>1, <1>2, <2>2, <2>7 DEF RowsOK, EntryWasConfirmed
      <3>4. EntriesFarApart'
        <4>1. ASSUME NEW i \in Entry', NEW j \in Entry', i < j,
                     entries'[i].run = entries'[j].run
              PROVE  entries'[i].at + Retention < entries'[j].at
          <5>1. i \in Entry /\ entries'[i] = entries[i]
            BY <2>2, <4>1 DEF Entry
          <5>2. CASE j \in Entry
            <6>1. entries'[j] = entries[j] /\ EntriesFarApart
              BY <1>1, <2>2, <5>2 DEF RowsOK
            <6> QED BY <4>1, <5>1, <5>2, <6>1 DEF EntriesFarApart
          <5>3. CASE j = Len(entries) + 1
            BY <2>2, <2>6, <4>1, <5>1, <5>3
          <5> QED BY <2>2, <5>2, <5>3
        <4> QED BY <4>1 DEF EntriesFarApart
      <3>5. \A q \in Run : status'[q] = "done" => HasEntry(q)'
        BY <1>1, <1>2, <2>3 DEF RowsOK
      <3> QED BY <3>1, <3>2, <3>3, <3>4, <3>5 DEF RowsOK
    <2>9. ASSUME NEW y \in Press \ {x} PROVE PressAt(y)'
      <3>1. Holds(y, Key(y)) => Key(y) \in Run \X Op /\ Key(y) # Key(x)
        <4>1. Holds(y, Key(y)) => st[y] # "none"
          BY DEF Holds, Working
        <4>2. Holds(x, Key(x))
          BY <1>0 DEF Holds, Working
        <4> QED BY <1>1, <4>1, <4>2, CallerKnows DEF Exclusive
      <3> QED BY <1>2, <2>3, <2>4, <3>1, CommitSpares
    <2>10. PressAt(x)'
      <3>1. HasEntry(card[x])'
        BY <1>1, <1>2, <2>3 DEF HasEntry, Entry
      <3>2. CallAt(x)'
        BY <1>0, <1>2, <2>1, <2>7, <3>1 DEF CallAt
      <3>3. HeldAt(x)'
        BY <2>1 DEF HeldAt, Working
      <3>4. ToldAt(x)'
        BY <1>1, <1>2, <3>1 DEF ToldAt
      <3> QED BY <3>2, <3>3, <3>4 DEF PressAt
    <2> QED BY <1>1, <1>2, <2>1, <2>8, <2>9, <2>10, CommitReleases DEF Parts
  <1> QED BY <1>3, <1>4

\* complete() and commit() of a decision keep the invariant: while the call held the key and
\* the row of its run, what its UPDATE found stayed so.
LEMMA CommitKeeps ==
    ASSUME Parts, TypeOK', PlaceOK', NEW x \in Press, CommitDecision(x)
    PROVE  Parts'
  <1> DEFINE r == card[x]
  <1> DEFINE s == ClosedAs(op[x])
  <1>0. st[x] = "read" /\ st[x] # "none"
    BY DEF CommitDecision
  <1>1. /\ pc[x] # "idle" /\ r \in Run /\ Key(x) = <<r, op[x]>> /\ Key(x) \in Run \X Op
        /\ status[r] # "none"
        /\ TypeOK /\ PlaceOK /\ RowsOK /\ Exclusive /\ CallAt(x) /\ HeldAt(x) /\ ToldAt(x)
    BY <1>0, CallerKnows
  <1>2. /\ UNCHANGED <<bad, entries, pc, want, card, seen, told, op, began, freed, hit, reply>>
        /\ \A y \in Press \ {x} : Still(y)
        /\ st'[x] = "done"
    BY <1>1 DEF CommitDecision, Still, TypeOK, press_vars
  <1>3. \A q \in Run : HasEntry(q)' <=> HasEntry(q)
    BY <1>2 DEF HasEntry, Entry
  <1>4. /\ op[x] = "create" => UNCHANGED <<status, confirmed>>
        /\ op[x] = "confirm" => UNCHANGED status
        /\ op[x] \in Closing => UNCHANGED confirmed
        /\ ~hit[x] => UNCHANGED <<status, confirmed>>
        /\ \A q \in Run \ {r} : status'[q] = status[q] /\ confirmed'[q] = confirmed[q]
    BY <1>1 DEF CommitDecision, Closing, TypeOK
  <1>5. op[x] = "confirm" /\ hit[x] => confirmed[r] = None /\ confirmed'[r] # None
    <2>1. began[x] # None
      BY <1>1, NoneAssumption DEF TypeOK
    <2>2. op[x] = "confirm" /\ hit[x] => confirmed'[r] = began[x]
      BY <1>1 DEF CommitDecision, TypeOK
    <2> QED BY <1>0, <1>1, <2>1, <2>2 DEF CallAt
  <1>6. op[x] \in Closing /\ hit[x] => status[r] = Waiting /\ status'[r] = s
    BY <1>0, <1>1 DEF CommitDecision, CallAt, TypeOK
  <1>7. /\ s \in {"done", "failed", "aborted"}
        /\ s = "done" <=> op[x] = "confirmed"
        /\ s = "failed" <=> op[x] = "rejected"
    BY DEF ClosedAs
  <1>8. /\ \A q \in Run : confirmed[q] # None => confirmed'[q] = confirmed[q]
        /\ \A q \in Run : status[q] # Waiting => status'[q] = status[q]
        /\ \A q \in Run : status'[q] = "none" <=> status[q] = "none"
    <2>1. op[x] \in {"create", "confirm"} \cup Closing
      BY <1>1 DEF TypeOK, Op
    <2> QED BY <1>1, <1>4, <1>5, <1>6, <1>7, <2>1 DEF Waiting
  <1> HIDE DEF s
  <1>9. /\ \A k \in Run \X Op : k # Key(x) => keys'[k] = keys[k]
        /\ keys'[Key(x)].reply = reply[x]
    BY <1>1 DEF CommitDecision, Store, TypeOK
  <1>10. op[x] # "create" /\ op[x] \in Op
    BY <1>0, <1>1 DEF PlaceOK, TypeOK
  <1>11. RecordOK'
    <2>1. \A q \in Run, o \in Op : keys[<<q, o>>] = None /\ status[q] = "none" =>
                                      keys'[<<q, o>>] = None
      BY <1>1, <1>9
    <2>2. \A q \in Run : status'[q] = "failed" => bad[q]
      <3>1. op[x] = "rejected" => bad[r]
        BY <1>0, <1>1 DEF CallAt
      <3>2. status'[r] = "failed" => status[r] = "failed" \/ op[x] = "rejected"
        BY <1>4, <1>6, <1>7, <1>10 DEF Op
      <3> QED BY <1>1, <1>4, <3>1, <3>2 DEF RowsOK, RecordOK
    <2> QED BY <1>1, <1>2, <1>3, <1>4, <1>8, <2>1, <2>2 DEF RowsOK, RecordOK, Entry
  <1>12. KeysOK'
    <2>1. KeysOK
      BY <1>1 DEF RowsOK
    <2>2. \A q \in Run : keys'[<<q, "create">>] = keys[<<q, "create">>]
      BY <1>1, <1>9, <1>10 DEF Op
    <2>3. ASSUME NEW q \in Run
          PROVE  /\ keys'[<<q, "create">>] = None => ~HasEntry(q)'
                 /\ keys'[<<q, "create">>] # None =>
                       /\ keys'[<<q, "create">>].hash = 0
                       /\ keys'[<<q, "create">>].reply.code = "created"
                       /\ HasEntry(q)'
                       /\ \A i \in Entry' : entries'[i].run = q =>
                             entries'[i].at <= keys'[<<q, "create">>].at
      <3>1. Entry' = Entry /\ entries' = entries
        BY <1>2 DEF Entry
      <3> QED BY <1>3, <2>1, <2>2, <3>1 DEF KeysOK
    <2>4. ASSUME NEW q \in Run, keys'[<<q, "confirm">>].reply.code = Waiting,
                 keys'[<<q, "confirm">>] # None
          PROVE  confirmed'[q] # None
      <3>1. CASE q = r /\ op[x] = "confirm"
        <4>1. reply[x].code = Waiting
          BY <1>1, <1>9, <2>4, <3>1
        <4>2. hit[x] \/ confirmed[r] # None
          BY <1>0, <1>1, <3>1, <4>1 DEF CallAt
        <4> QED BY <1>1, <1>5, <1>8, <3>1, <4>2
      <3>2. CASE ~(q = r /\ op[x] = "confirm")
        <4>1. keys'[<<q, "confirm">>] = keys[<<q, "confirm">>]
          BY <1>1, <1>9, <3>2 DEF Op
        <4> QED BY <1>8, <2>1, <2>4, <4>1 DEF KeysOK
      <3> QED BY <3>1, <3>2
    <2>5. ASSUME NEW q \in Run, keys'[<<q, "cancelled">>].reply.code = "aborted",
                 keys'[<<q, "cancelled">>] # None
          PROVE  status'[q] = "aborted"
      <3>1. CASE q = r /\ op[x] = "cancelled"
        <4>1. reply[x].code = "aborted"
          BY <1>1, <1>9, <2>5, <3>1
        <4>2. hit[x] \/ status[r] = "aborted"
          BY <1>0, <1>1, <3>1, <4>1 DEF CallAt
        <4>3. op[x] \in Closing
          BY <3>1 DEF Closing
        <4> QED BY <1>1, <1>6, <1>7, <1>8, <3>1, <4>2, <4>3 DEF Waiting
      <3>2. CASE ~(q = r /\ op[x] = "cancelled")
        <4>1. keys'[<<q, "cancelled">>] = keys[<<q, "cancelled">>]
          BY <1>1, <1>9, <3>2 DEF Op, Closing
        <4> QED BY <1>8, <2>1, <2>5, <4>1 DEF KeysOK, Waiting
      <3> QED BY <3>1, <3>2
    <2>6. ASSUME NEW q \in Run, keys'[<<q, "rejected">>] # None
          PROVE  status'[q] # Waiting
      <3>1. CASE q = r /\ op[x] = "rejected"
        <4>1. ~hit[x] => status[r] # Waiting
          BY <1>0, <1>1, <3>1 DEF CallAt
        <4>2. op[x] \in Closing
          BY <3>1 DEF Closing
        <4> QED BY <1>1, <1>6, <1>7, <1>8, <3>1, <4>1, <4>2 DEF Waiting
      <3>2. CASE ~(q = r /\ op[x] = "rejected")
        <4>1. keys'[<<q, "rejected">>] = keys[<<q, "rejected">>]
          BY <1>1, <1>9, <3>2 DEF Op, Closing
        <4> QED BY <1>8, <2>1, <2>6, <4>1 DEF KeysOK, Waiting
      <3> QED BY <3>1, <3>2
    <2> QED BY <2>3, <2>4, <2>5, <2>6 DEF KeysOK
  <1>13. \A q \in Run : status'[q] = "done" => HasEntry(q)'
    <2>1. op[x] = "confirmed" => HasEntry(r)
      BY <1>0, <1>1 DEF CallAt
    <2>2. status'[r] = "done" => status[r] = "done" \/ op[x] = "confirmed"
      BY <1>4, <1>6, <1>7, <1>10 DEF Op
    <2> QED BY <1>1, <1>3, <1>4, <2>1, <2>2 DEF RowsOK
  <1>14. RowsOK'
    <2>1. EntryWasConfirmed'
      <3>1. \A i \in Entry : entries[i].run \in Run
        BY <1>1, EntryTypes
      <3>2. Entry' = Entry /\ entries' = entries
        BY <1>2 DEF Entry
      <3> QED BY <1>1, <1>2, <1>8, <3>1, <3>2 DEF RowsOK, EntryWasConfirmed
    <2>2. EntriesFarApart'
      BY <1>1, <1>2 DEF RowsOK, EntriesFarApart, Entry
    <2> QED BY <1>11, <1>12, <1>13, <2>1, <2>2 DEF RowsOK
  <1>15. ASSUME NEW y \in Press \ {x} PROVE PressAt(y)'
    <2>1. Holds(x, Key(x))
      BY <1>0 DEF Holds, Working
    <2>2. Holds(y, Key(y)) => Key(y) \in Run \X Op /\ Key(y) # Key(x) /\ Key(y) = <<card[y], op[y]>>
      <3>1. Holds(y, Key(y)) => st[y] # "none"
        BY DEF Holds, Working
      <3> QED BY <1>1, <2>1, <3>1, CallerKnows DEF Exclusive
    <2>3. op[y] = "confirm" /\ st[y] \in Working => confirmed'[card[y]] = confirmed[card[y]]
      <3> SUFFICES ASSUME op[y] = "confirm", st[y] \in Working
                   PROVE  confirmed'[card[y]] = confirmed[card[y]]
        OBVIOUS
      <3>1. /\ card[y] \in Run /\ Key(y) = <<card[y], "confirm">> /\ Key(y) # Key(x)
        BY <2>2, CallerKnows DEF Holds, Working
      <3>2. card[y] = r => op[x] # "confirm"
        BY <1>1, <3>1
      <3> QED BY <1>4, <1>10, <3>1, <3>2 DEF Op
    <2>4. HasRow(y) => status'[card[y]] = status[card[y]]
      <3> SUFFICES ASSUME HasRow(y) PROVE status'[card[y]] = status[card[y]]
        OBVIOUS
      <3>1. card[y] \in Run
        BY CallerKnows DEF HasRow
      <3>2. card[y] = r => ~(op[x] \in Closing /\ hit[x])
        BY <1>0, <1>1 DEF Exclusive, HasRow
      <3> QED BY <1>4, <1>10, <3>1, <3>2 DEF Op
    <2>5. Holds(y, Key(y)) => keys'[Key(y)] = keys[Key(y)]
      BY <1>9, <2>2
    <2> QED BY <1>2, <1>3, <1>8, <2>3, <2>4, <2>5, CommitSpares
  <1>16. PressAt(x)'
    <2>1. HasEntry(card[x])' <=> HasEntry(r)
      BY <1>2 DEF HasEntry, Entry
    <2>2. CallAt(x)'
      <3>1. /\ op[x] = "confirmed" => HasEntry(r)
            /\ op[x] = "rejected" => bad[r]
        BY <1>0, <1>1 DEF CallAt
      <3>2. op[x] = "confirm" /\ reply[x].code = Waiting => confirmed'[r] # None
        BY <1>0, <1>1, <1>5, <1>8 DEF CallAt
      <3>3. op[x] = "cancelled" /\ reply[x].code = "aborted" => status'[r] = "aborted"
        BY <1>0, <1>1, <1>6, <1>7, <1>8 DEF CallAt, Closing, Waiting
      <3>4. op[x] = "rejected" => status'[r] # Waiting
        BY <1>0, <1>1, <1>6, <1>7, <1>8 DEF CallAt, Closing, Waiting
      <3> QED BY <1>2, <1>10, <2>1, <3>1, <3>2, <3>3, <3>4 DEF CallAt
    <2>3. HeldAt(x)'
      BY <1>2 DEF HeldAt, Working
    <2>4. ToldAt(x)'
      BY <1>1, <1>2, <1>8, <2>1 DEF ToldAt, Waiting
    <2> QED BY <2>2, <2>3, <2>4 DEF PressAt
  <1> QED BY <1>1, <1>2, <1>14, <1>15, <1>16, CommitReleases DEF Parts

-----------------------------------------------------------------------------
(* The steps of the agent and of the user *)

\* A press that is told something keeps the invariant, when it is told what is so.
LEMMA TellKeeps ==
    ASSUME Parts, TypeOK', PlaceOK', NEW x \in Press, pc[x] # "idle", Steady,
           NEW a, Tell(x, a), UNCHANGED <<entry, call_vars>>,
           a \in {"recorded", "already"} => HasEntry(card[x]),
           a = "cancelled" => status[card[x]] = "aborted",
           a = "rejected" => status[card[x]] # Waiting /\ bad[card[x]]
    PROVE  Parts'
  <1>0. TypeOK /\ PlaceOK /\ Exclusive /\ PressAt(x)
    BY DEF Parts
  <1>1. card[x] \in Run /\ status[card[x]] # "none"
    BY <1>0, PressHasRun
  <1>2. /\ status'[card[x]] = status[card[x]] /\ bad'[card[x]] = bad[card[x]]
        /\ UNCHANGED <<confirmed, entries, keys>>
    BY <1>1 DEF Steady
  <1>3. /\ UNCHANGED <<want, card, entry, op, st, began, freed, hit, reply>>
        /\ pc'[x] = "over" /\ seen'[x] = "none" /\ told'[x] = a
    BY <1>0 DEF Tell, call_vars, TypeOK
  <1>4. \A y \in Press \ {x} : Still(y)
    BY <1>0 DEF Tell, Still, TypeOK, call_vars
  <1>5. HasEntry(card[x])' <=> HasEntry(card[x])
    BY <1>2, <1>3 DEF HasEntry, Entry
  <1>6. CallAt(x)'
    BY <1>0, <1>2, <1>3, <1>5 DEF PressAt, CallAt
  <1>7. HeldAt(x)'
    BY <1>0, <1>2, <1>3 DEF PressAt, HeldAt, Key, Live
  <1>8. ToldAt(x)'
    BY <1>2, <1>3, <1>5 DEF ToldAt
  <1>9. (HasRow(x)' => HasRow(x)) /\ \A k \in Run \X Op : Holds(x, k)' => Holds(x, k)
    BY <1>3 DEF HasRow, Holds, Key
  <1>10. HasRow(x)' => \A y \in Press \ {x} : ~(HasRow(y) /\ card[y] = card'[x])
    BY <1>0, <1>3, <1>9 DEF Exclusive
  <1>11. \A k \in Run \X Op : Holds(x, k)' => \A y \in Press \ {x} : ~Holds(y, k)
    BY <1>0, <1>9 DEF Exclusive
  <1>12. SamePress(x)
    BY <1>3 DEF SamePress
  <1> QED BY <1>4, <1>6, <1>7, <1>8, <1>10, <1>11, <1>12, OnePressMoves DEF PressAt

\* A press that calls the api keeps it, when the call rests on what it must.
LEMMA CallKeeps ==
    ASSUME Parts, TypeOK', PlaceOK', NEW x \in Press, pc[x] # "idle",
           NEW o \in Op, Call(x, o), UNCHANGED <<clock, db_vars, shown>>,
           UNCHANGED entry \/ (\E n : entry' = [entry EXCEPT ![x] = n]),
           o = "create" => confirmed[card[x]] # None,
           o = "confirmed" => HasEntry(card[x]),
           o = "rejected" => bad[card[x]]
    PROVE  Parts'
  <1>0. TypeOK /\ PlaceOK /\ PressAt(x)
    BY DEF Parts
  <1>1. UNCHANGED <<status, confirmed, bad, entries, keys, card, want, told>>
    BY DEF db_vars, run_vars, Call
  <1>2. /\ pc'[x] = o /\ st'[x] = "sent" /\ op'[x] = o /\ seen'[x] = "none" /\ ~freed'[x]
    BY <1>0 DEF Call, Send, TypeOK
  <1>3. \A y \in Press \ {x} : Still(y)
    BY <1>0 DEF Call, Send, Still, TypeOK
  <1>4. Steady
    BY <1>1 DEF Steady
  <1>5. HasEntry(card[x])' <=> HasEntry(card[x])
    BY <1>1 DEF HasEntry, Entry
  <1>6. CallAt(x)'
    BY <1>1, <1>2, <1>5 DEF CallAt
  <1>7. HeldAt(x)' /\ ~HasRow(x)' /\ \A k \in Run \X Op : ~Holds(x, k)'
    BY <1>2 DEF HeldAt, HasRow, Holds, Working
  <1>8. ToldAt(x)'
    BY <1>0, <1>1, <1>2, <1>5 DEF PressAt, ToldAt
  <1>9. SamePress(x)
    BY <1>1, <1>2 DEF SamePress, Op, Closing
  <1> QED BY <1>3, <1>4, <1>6, <1>7, <1>8, <1>9, OnePressMoves DEF PressAt

\* What a press knows that waits for its call's answer, and what that answer is worth.
LEMMA AnswerIsTrue ==
    ASSUME Parts, NEW x \in Press, pc[x] \in Calling \cup {"confirmed"}
    PROVE  /\ pc[x] # "idle" /\ op[x] = pc[x] /\ st[x] # "none"
           /\ card[x] \in Run
           /\ pc[x] = "confirmed" => HasEntry(card[x])
           /\ pc[x] = "confirm" /\ st[x] = "done" /\ reply[x].code = Waiting =>
                 confirmed[card[x]] # None
           /\ pc[x] = "create" /\ st[x] = "done" =>
                 /\ reply[x].code \in {"created", "validation_error", "request_in_progress"}
                 /\ reply[x].code = "created" => HasEntry(card[x])
                 /\ reply[x].code = "validation_error" => bad[card[x]]
           /\ pc[x] = "cancelled" /\ st[x] = "done" /\ reply[x].code = "aborted" =>
                 status[card[x]] = "aborted"
           /\ pc[x] = "rejected" => bad[card[x]]
           /\ pc[x] = "rejected" /\ st[x] = "done" /\ reply[x].code \notin Refusal =>
                 status[card[x]] # Waiting
  <1>1. TypeOK /\ PlaceOK /\ CallAt(x)
    BY DEF Parts, PressAt
  <1>2. op[x] = pc[x] /\ st[x] # "none" /\ pc[x] # "idle"
    BY <1>1 DEF PlaceOK, Calling
  <1>3. card[x] \in Run
    BY <1>1, <1>2, PressHasRun
  <1> QED BY <1>1, <1>2, <1>3 DEF CallAt

\* The user presses a button.
LEMMA PressKeeps ==
    ASSUME Parts, TypeOK', PlaceOK', NEW x \in Press, PressButton(x)
    PROVE  Parts'
  <1>0. TypeOK /\ PlaceOK /\ PressAt(x)
    BY DEF Parts
  <1>1. st[x] = "none" /\ told[x] = "nothing" /\ seen[x] = "none" /\ pc[x] = "idle"
    BY <1>0 DEF PressButton, PlaceOK, PressAt, ToldAt
  <1>2. st'[x] = "none" /\ told'[x] = "nothing" /\ seen'[x] = "none"
    BY <1>1 DEF PressButton, call_vars
  <1>3. Steady /\ \A y \in Press \ {x} : Still(y)
    BY <1>0 DEF PressButton, Steady, Still, TypeOK, call_vars, db_vars, run_vars
  <1>4. PressAt(x)' /\ ~HasRow(x)' /\ \A k \in Run \X Op : ~Holds(x, k)'
    BY <1>2 DEF PressAt, CallAt, HeldAt, ToldAt, HasRow, Holds, Working
  <1>5. SamePress(x)
    BY <1>1 DEF SamePress
  <1> QED BY <1>3, <1>4, <1>5, OnePressMoves

\* The agent reads the run.
LEMMA GetRunKeeps ==
    ASSUME Parts, TypeOK', PlaceOK', NEW x \in Press, GetRun(x)
    PROVE  Parts'
  <1>0. TypeOK /\ PlaceOK /\ RowsOK /\ Exclusive /\ PressAt(x) /\ pc[x] # "idle"
    BY DEF Parts, GetRun
  <1>1. card[x] \in Run
    BY <1>0, PressHasRun
  <1>2. UNCHANGED <<status, confirmed, bad, entries, keys, want, card, told, entry, op, st,
                    began, freed, hit, reply>>
    BY DEF GetRun, call_vars, db_vars, run_vars
  <1>3. seen'[x] = status[card[x]] /\ pc'[x] = "get_calls"
    BY <1>0 DEF GetRun, TypeOK
  <1>4. Steady /\ \A y \in Press \ {x} : Still(y)
    BY <1>0, <1>2 DEF GetRun, Steady, Still, TypeOK
  <1>5. HasEntry(card[x])' <=> HasEntry(card[x])
    BY <1>2 DEF HasEntry, Entry
  <1>6. CallAt(x)'
    BY <1>0, <1>2, <1>5 DEF PressAt, CallAt
  <1>7. HeldAt(x)'
    BY <1>0, <1>2 DEF PressAt, HeldAt, Key, Live
  <1>8. ToldAt(x)'
    BY <1>0, <1>1, <1>2, <1>3, <1>5 DEF PressAt, ToldAt, RowsOK
  <1>9. (HasRow(x)' => HasRow(x)) /\ \A k \in Run \X Op : Holds(x, k)' => Holds(x, k)
    BY <1>2 DEF HasRow, Holds, Key
  <1>10. HasRow(x)' => \A y \in Press \ {x} : ~(HasRow(y) /\ card[y] = card'[x])
    BY <1>0, <1>2, <1>9 DEF Exclusive
  <1>11. \A k \in Run \X Op : Holds(x, k)' => \A y \in Press \ {x} : ~Holds(y, k)
    BY <1>0, <1>9 DEF Exclusive
  <1>12. SamePress(x)
    BY <1>2, <1>3 DEF SamePress
  <1> QED BY <1>4, <1>6, <1>7, <1>8, <1>10, <1>11, <1>12, OnePressMoves DEF PressAt

\* What stays when nothing of the database changes.
LEMMA UnchangedIsSteady == UNCHANGED db_vars => Steady
  BY DEF db_vars, run_vars, Steady

\* The agent reads the run's call, and decides.
LEMMA GetCallsKeeps ==
    ASSUME Parts, TypeOK', PlaceOK', NEW x \in Press, GetCalls(x)
    PROVE  Parts'
  <1>0. /\ UNCHANGED <<clock, db_vars, shown, entry>> /\ pc[x] # "idle"
        /\ TypeOK /\ ToldAt(x)
    BY DEF GetCalls, Parts, PressAt
  <1>1. Steady
    BY <1>0, UnchangedIsSteady
  <1>2. ASSUME NotWaiting(x) PROVE Parts'
    BY <1>0, <1>1, <1>2, TellKeeps DEF NotWaiting, ToldAt
  <1>3. CASE want[x] = "confirm"
    BY <1>0, <1>2, <1>3, CallKeeps DEF GetCalls, DecideConfirm, Op, Closing
  <1>4. CASE want[x] # "confirm"
    <2>1. ASSUME Tell(x, "in_progress"), UNCHANGED call_vars PROVE Parts'
      BY <1>0, <1>1, <2>1, TellKeeps
    <2> QED BY <1>0, <1>2, <1>4, <2>1, CallKeeps DEF GetCalls, DecideCancel, Op, Closing
  <1> QED BY <1>3, <1>4

\* The agent goes on when its call is answered, or gives up.
LEMMA AnswerKeeps ==
    ASSUME Parts, TypeOK', PlaceOK', NEW x \in Press,
           \/ AfterConfirm(x) \/ AfterCreate(x) \/ AfterReject(x) \/ AfterFinish(x)
           \/ AfterCancel(x) \/ Unreachable(x)
    PROVE  Parts'
  <1>0. TypeOK /\ pc[x] # "idle" /\ UNCHANGED <<clock, db_vars, shown>>
    BY DEF Parts, AfterConfirm, AfterCreate, AfterReject, AfterFinish, AfterCancel, Unreachable,
           Calling
  <1>1. Steady
    BY <1>0, UnchangedIsSteady
  <1>2. CASE AfterConfirm(x)
    <2>1. pc[x] \in Calling /\ pc[x] = "confirm" /\ st[x] = "done"
      BY <1>2 DEF AfterConfirm, Replied, Calling
    <2>2. ASSUME Tell(x, "closed"), UNCHANGED call_vars PROVE Parts'
      BY <1>0, <1>1, <1>2, <2>2, TellKeeps DEF AfterConfirm
    <2>3. ASSUME reply[x].code = Waiting, Call(x, "create") PROVE Parts'
      BY <1>0, <1>2, <2>1, <2>3, AnswerIsTrue, CallKeeps DEF AfterConfirm, Op
    <2> QED BY <1>2, <2>2, <2>3 DEF AfterConfirm
  <1>3. CASE AfterCreate(x)
    <2>1. pc[x] \in Calling /\ pc[x] = "create" /\ st[x] = "done"
      BY <1>3 DEF AfterCreate, Calling
    <2>2. ASSUME Tell(x, "in_progress"), UNCHANGED <<entry, call_vars>> PROVE Parts'
      BY <1>0, <1>1, <2>2, TellKeeps
    <2>3. ASSUME reply[x].code \in Refusal \ {"request_in_progress"}, Call(x, "rejected"),
                 UNCHANGED entry
          PROVE  Parts'
      <3>1. bad[card[x]]
        BY <2>1, <2>3, AnswerIsTrue DEF Refusal
      <3> QED BY <1>0, <2>3, <3>1, CallKeeps DEF Op, Closing
    <2>4. ASSUME reply[x].code = "created", Call(x, "confirmed"),
                 entry' = [entry EXCEPT ![x] = reply[x].entry]
          PROVE  Parts'
      <3>1. HasEntry(card[x])
        BY <2>1, <2>4, AnswerIsTrue
      <3> QED BY <1>0, <2>4, <3>1, CallKeeps DEF Op, Closing
    <2> QED BY <1>3, <2>2, <2>3, <2>4 DEF AfterCreate
  <1>4. CASE AfterReject(x)
    <2>1. status[card[x]] # Waiting /\ bad[card[x]]
      BY <1>4, AnswerIsTrue DEF AfterReject, Replied, Calling
    <2> QED BY <1>0, <1>1, <1>4, <2>1, TellKeeps DEF AfterReject
  <1>5. CASE AfterFinish(x)
    <2>1. HasEntry(card[x])
      BY <1>5, AnswerIsTrue DEF AfterFinish
    <2> QED BY <1>0, <1>1, <1>5, <2>1, TellKeeps DEF AfterFinish
  <1>6. CASE AfterCancel(x)
    <2>1. reply[x].code = "aborted" => status[card[x]] = "aborted"
      BY <1>6, AnswerIsTrue DEF AfterCancel, Replied, Calling
    <2> QED BY <1>0, <1>1, <1>6, <2>1, TellKeeps DEF AfterCancel
  <1>7. CASE Unreachable(x)
    BY <1>0, <1>1, <1>7, TellKeeps DEF Unreachable
  <1> QED BY <1>2, <1>3, <1>4, <1>5, <1>6, <1>7

\* A proposal is recorded under an id that nobody knows yet.
LEMMA RecordIsSteady ==
    ASSUME TypeOK, NEW r \in Run, NEW b, NEW parent, RecordProposal(r, b, parent)
    PROVE  Steady
  BY DEF RecordProposal, Steady, TypeOK

\* The agent proposes the values of an expired proposal again.
LEMMA RenewKeeps ==
    ASSUME Parts, TypeOK', PlaceOK', NEW x \in Press, Renew(x)
    PROVE  Parts'
  <1>0. TypeOK /\ pc[x] # "idle" /\ UNCHANGED <<entry, call_vars>>
    BY DEF Parts, Renew
  <1>1. Steady /\ (Tell(x, "expired") \/ Tell(x, "not_saved"))
    BY <1>0, UnchangedIsSteady, RecordIsSteady DEF Renew
  <1> QED BY <1>0, <1>1, TellKeeps

\* The user says a sentence, or time passes: no press moves.
LEMMA OutsideKeeps ==
    ASSUME Parts, TypeOK', PlaceOK', Propose \/ Tick \/ UNCHANGED vars
    PROVE  Parts'
  <1>0. TypeOK /\ PlaceOK /\ RowsOK /\ Exclusive /\ \A y \in Press : PressAt(y)
    BY DEF Parts
  <1>1. Steady
    BY <1>0, UnchangedIsSteady, RecordIsSteady DEF Propose, Tick, vars
  <1>2. UNCHANGED <<press_vars, call_vars>>
    BY DEF Propose, Tick, vars
  <1>3. \A y \in Press : Still(y) /\ SamePress(y)
    BY <1>2 DEF Still, SamePress, press_vars, call_vars
  <1>4. RowsOK' /\ \A y \in Press : PressAt(y)'
    BY <1>0, <1>1, <1>3, SteadyRows, StillKeeps
  <1>5. Exclusive'
    BY <1>0, <1>2 DEF Exclusive, HasRow, Holds, Key, press_vars, call_vars
  <1> QED BY <1>4, <1>5 DEF Parts

\* Every step keeps the invariant: one fact per kind of step.
LEMMA StepKeeps ==
    ASSUME Parts, [Next]_vars
    PROVE  Parts'
  <1>0. TypeOK' /\ PlaceOK'
    BY StepTypes DEF Parts
  <1>1. CASE Propose \/ Tick \/ UNCHANGED vars
    BY <1>0, <1>1, OutsideKeeps
  <1>2. ASSUME NEW x \in Press, Serve(x) \/ Break(x)
        PROVE  Parts'
    BY <1>0, <1>2, FindKeeps, ClaimKeeps, WorkKeeps, CreateKeeps, CommitKeeps DEF Serve
  <1>3. ASSUME NEW x \in Press, PressButton(x) \/ Decide(x) \/ AfterFinish(x) \/ Unreachable(x)
        PROVE  Parts'
    BY <1>0, <1>3, PressKeeps, GetRunKeeps, GetCallsKeeps, AnswerKeeps, RenewKeeps DEF Decide
  <1> QED BY <1>1, <1>2, <1>3 DEF Next

\* Before the first sentence nothing is recorded.
LEMMA InitParts == Init => Parts
  <1> SUFFICES ASSUME Init PROVE Parts OBVIOUS
  <1>1. TypeOK /\ PlaceOK
    BY InitTypes
  <1>2. Entry = {} /\ \A r : ~HasEntry(r)
    BY DEF Init, Entry, HasEntry
  <1>3. RowsOK
    BY <1>2 DEF Init, RowsOK, RecordOK, KeysOK, EntryWasConfirmed, EntriesFarApart, Op, Closing
  <1>4. Exclusive /\ \A x \in Press : PressAt(x)
    BY DEF Init, Exclusive, HasRow, Holds, Working, PressAt, CallAt, HeldAt, ToldAt
  <1> QED BY <1>1, <1>3, <1>4 DEF Parts

-----------------------------------------------------------------------------
(* The theorems *)

\* The invariant that carries the theorems below.
THEOREM InductiveInvariant == Spec => []Inductive
  <1>1. Parts /\ [Next]_vars => Parts'
    BY StepKeeps
  <1> QED BY <1>1, InitParts, PartsAreAll, PTL DEF Spec

\* Nothing is in the ledger that the audit log does not show as confirmed and that the user
\* did not confirm, whatever presses overlap, fail or come late.
THEOREM OnlyConfirmed == Spec => []EntryWasConfirmed
  <1>1. Inductive => EntryWasConfirmed
    BY DEF Inductive
  <1> QED BY <1>1, InductiveInvariant, PTL

\* A proposal enters the ledger at most once in the life of its key.
THEOREM OnceInALifetime == Spec => []EntriesFarApart
  <1>1. Inductive => EntriesFarApart
    BY DEF Inductive
  <1> QED BY <1>1, InductiveInvariant, PTL

\* What the audit log and the user are told of a recorded proposal is so, and stays so.
THEOREM VerdictsAreTrue == Spec => []VerdictIsTrue
  <1>1. Inductive => VerdictIsTrue
    BY DEF Inductive
  <1> QED BY <1>1, InductiveInvariant, PTL

\* Who hears "cancelled" or "rejected" has a proposal that is closed that way.
THEOREM ClosingsAreTrue == Spec => []ClosedAsTold
  <1>1. Inductive => ClosedAsTold
    BY DEF Inductive
  <1> QED BY <1>1, InductiveInvariant, PTL

\* A closed run keeps its status and a confirmation its time, in every step.
LEMMA StepIsFinal ==
    ASSUME Parts, [Next]_vars, NEW r \in Run
    PROVE  /\ status[r] \notin {"none", Waiting} => status'[r] = status[r]
           /\ confirmed[r] # None => confirmed'[r] = confirmed[r]
  <1>0. TypeOK
    BY DEF Parts
  <1>1. CASE Steady
    BY <1>1 DEF Steady
  <1>2. CASE UNCHANGED db_vars
    BY <1>2, UnchangedIsSteady, <1>1
  <1>3. CASE Propose
    BY <1>0, <1>1, <1>3, RecordIsSteady DEF Propose
  <1>4. CASE Tick \/ UNCHANGED vars
    BY <1>2, <1>4 DEF Tick, vars
  <1>5. ASSUME NEW x \in Press, CommitDecision(x)
        PROVE  /\ status[r] \notin {"none", Waiting} => status'[r] = status[r]
               /\ confirmed[r] # None => confirmed'[r] = confirmed[r]
    <2>1. /\ op[x] \in Closing /\ hit[x] => status[card[x]] = Waiting
          /\ op[x] = "confirm" /\ hit[x] => confirmed[card[x]] = None
      BY <1>5 DEF CommitDecision, Parts, PressAt, CallAt
    <2> QED BY <1>0, <1>5, <2>1 DEF CommitDecision, TypeOK
  <1>6. ASSUME NEW x \in Press, CreateTransaction(x)
        PROVE  UNCHANGED <<status, confirmed>>
    BY <1>6 DEF CreateTransaction, run_vars
  <1>7. ASSUME NEW x \in Press, Renew(x)
        PROVE  Steady
    BY <1>0, <1>7, UnchangedIsSteady, RecordIsSteady DEF Renew
  <1>8. ASSUME NEW x \in Press,
               \/ PressButton(x) \/ GetRun(x) \/ GetCalls(x) \/ AfterConfirm(x) \/ AfterCreate(x)
               \/ AfterReject(x) \/ AfterFinish(x) \/ AfterCancel(x) \/ Unreachable(x)
               \/ Find(x) \/ Claim(x) \/ ConfirmUpdate(x) \/ CloseUpdate(x) \/ ReadBack(x)
               \/ Break(x)
        PROVE  UNCHANGED db_vars
    BY <1>8 DEF PressButton, GetRun, GetCalls, AfterConfirm, AfterCreate, AfterReject,
                AfterFinish, AfterCancel, Unreachable, Find, Claim, ConfirmUpdate, CloseUpdate,
                ReadBack, Break
  <1> QED BY <1>1, <1>2, <1>3, <1>4, <1>5, <1>6, <1>7, <1>8 DEF Next, Serve, Decide

\* Decisions are final.
THEOREM DecisionsStand == Spec => DecisionsAreFinal
  <1>1. Parts /\ [Next]_vars => Parts'
    BY StepKeeps
  <1>2. Parts /\ [Next]_vars =>
           [\A r \in Run :
               /\ status[r] \notin {"none", Waiting} => status'[r] = status[r]
               /\ confirmed[r] # None => confirmed'[r] = confirmed[r]]_vars
    BY StepIsFinal
  <1> QED BY <1>1, <1>2, InitParts, PTL DEF Spec, DecisionsAreFinal
=============================================================================
