------------------------- MODULE LedgerWritesProofs -------------------------
(* Theorems about LedgerWrites for every value of its constants. *)
EXTENDS LedgerWrites, TLAPS

USE TimeAssumption

\* Appending to the log of effects keeps what it holds and adds the new effect at its end.
LEMMA AppendEffect ==
    ASSUME NEW S, NEW s \in Seq(S), NEW e \in S
    PROVE  /\ Append(s, e) \in Seq(S)
           /\ Len(Append(s, e)) = Len(s) + 1
           /\ \A i \in 1..Len(s) : Append(s, e)[i] = s[i]
           /\ Append(s, e)[Len(s) + 1] = e
  OBVIOUS

\* What the log holds.
LEMMA EffectTypes ==
    ASSUME TypeOK
    PROVE  \A i \in Effect : effects[i] \in EffectType /\ effects[i].at \in Nat
  <1>1. effects \in Seq(EffectType)
    BY DEF TypeOK
  <1>2. \A i \in Effect : effects[i] \in EffectType
    BY <1>1 DEF Effect
  <1> QED BY <1>2 DEF EffectType

\* The facts about a request in hand that the checks of a draft rest on.
LEMMA RequestInHand ==
    ASSUME NEW r \in Request
    PROVE  /\ r # Absent
           /\ r \in RequestType
           /\ r.op = "create" => r.draft \in Draft
           /\ r.op = "update" => r.draft \in Draft /\ r.id \in Id
           /\ r.op = "delete" => r.id \in Id
           /\ Hash(r) \in HashType
  BY RequestAssumption, AbsentAssumption DEF RequestType, Hash, HashType

\* The rows the use cases build are rows.
LEMMA BuiltRows ==
    /\ \A r \in Request : r.op = "create" => CreatedRow(r) \in Row
    /\ \A r \in Request, e \in Row : r.op = "update" => UpdatedRow(r, e) \in Row
    /\ \A a, b, c \in Row : WrittenOver(a, b, c) \in Row
  <1>1. ASSUME NEW r \in Request, r.op = "create" PROVE CreatedRow(r) \in Row
    BY <1>1, RequestInHand DEF CreatedRow, Row, Draft, RequestType
  <1>2. ASSUME NEW r \in Request, NEW e \in Row, r.op = "update" PROVE UpdatedRow(r, e) \in Row
    BY <1>2, RequestInHand DEF UpdatedRow, Row, Draft, RequestType
  <1>3. ASSUME NEW a \in Row, NEW b \in Row, NEW c \in Row PROVE WrittenOver(a, b, c) \in Row
    BY DEF WrittenOver, Column, Row
  <1> QED BY <1>1, <1>2, <1>3

-----------------------------------------------------------------------------
(* Types, and what a worker has in hand *)

\* An api that has just started has every variable in its type, and no worker holds anything.
LEMMA InitTypes == Init => TypeOK /\ HandOK
  <1> SUFFICES ASSUME Init PROVE TypeOK /\ HandOK OBVIOUS
  <1>1. TypeOK
    BY RowAssumption DEF Init, TypeOK, Label
  <1>2. HandOK
    BY DEF Init, HandOK
  <1> QED BY <1>1, <1>2

\* Refusing leaves a well-typed state.
LEMMA RefuseTypes ==
    ASSUME TypeOK, HandOK, NEW w \in Worker, req[w] # Absent,
           NEW code \in RefusalCode, Refuse(w, code)
    PROVE  TypeOK' /\ HandOK'
  <1>1. Refusal(code) \in AnyReply /\ Refusal(code) # Absent
    BY AbsentAssumption DEF Refusal, Reply, AnyReply, RefusalReply
  <1>2. TypeOK'
    BY <1>1 DEF TypeOK, Refuse, RollBack, work, Label
  <1>3. HandOK'
    BY <1>1 DEF TypeOK, HandOK, Refuse, RollBack, work
  <1> QED BY <1>2, <1>3

\* Finishing a use case leaves a well-typed state.
LEMMA FinishTypes ==
    ASSUME TypeOK, HandOK, NEW w \in Worker, req[w] # Absent,
           NEW c \in Change \cup {Absent}, NEW p \in SuccessReply, Finish(w, c, p)
    PROVE  TypeOK' /\ HandOK'
  <1>1. TypeOK'
    BY DEF TypeOK, Finish, GoTo, work, Label, AnyReply
  <1>2. HandOK'
    BY DEF TypeOK, HandOK, Finish, GoTo, work
  <1> QED BY <1>1, <1>2

\* So does refusing a draft.
LEMMA RefuseDraftTypes ==
    ASSUME TypeOK, HandOK, NEW w \in Worker, req[w] # Absent, RefuseDraft(w)
    PROVE  TypeOK' /\ HandOK'
  BY RefuseTypes DEF RefuseDraft, RefusalCode

\* Every statement of the write path keeps the types.
LEMMA StepTypes ==
    ASSUME TypeOK, HandOK, [Next]_vars
    PROVE  TypeOK' /\ HandOK'
  <1>1. CASE UNCHANGED vars
    BY <1>1 DEF TypeOK, HandOK, vars
  <1>2. CASE Tick
    BY <1>2 DEF Tick, TypeOK, HandOK, work
  <1>3. ASSUME NEW w \in Worker, Begin(w)
        PROVE  TypeOK' /\ HandOK'
    <2>1. TypeOK'
      BY <1>3 DEF Begin, TypeOK, GoTo, Label
    <2>2. HandOK'
      BY <1>3, RequestInHand DEF Begin, TypeOK, HandOK, GoTo
    <2> QED BY <2>1, <2>2
  <1>4. ASSUME NEW w \in Worker, Leave(w)
        PROVE  TypeOK' /\ HandOK'
    BY <1>4 DEF Leave, TypeOK, HandOK, GoTo, RollBack, Label
  <1>5. ASSUME NEW w \in Worker, Serve(w) \/ Vanish(w)
        PROVE  TypeOK' /\ HandOK'
    <2> DEFINE r == req[w]
    <2>0. CASE pc[w] = "idle"
      BY <1>4, <1>5, <2>0 DEF Serve, Vanish, FindExpire, FindNothing, FindReused, FindReply,
         ClaimTaken, ClaimWon, Create, UpdateGet, UpdateMerge, UpdateFlush, DeleteGet,
         DeleteRemove, Commit, Respond
    <2> SUFFICES ASSUME pc[w] # "idle" PROVE TypeOK' /\ HandOK'
      BY <2>0
    <2>r. r \in Request /\ r # Absent
      BY DEF TypeOK, HandOK
    <2>k. r.key \in Key /\ r.confirmed \in BOOLEAN
      BY <2>r, RequestInHand DEF RequestType
    <2> HIDE DEF r
    <2>1. CASE FindExpire(w)
      <3>1. TypeOK'
        BY <2>1 DEF FindExpire, TypeOK, GoTo, work, Label, KeyExpired
      <3>2. HandOK'
        BY <2>1 DEF FindExpire, TypeOK, HandOK, GoTo, work
      <3> QED BY <3>1, <3>2
    <2>2. CASE FindNothing(w) \/ ClaimWon(w)
      <3>1. TypeOK'
        BY <2>2 DEF FindNothing, ClaimWon, TypeOK, GoTo, work, Label
      <3>2. HandOK'
        BY <2>2 DEF FindNothing, ClaimWon, TypeOK, HandOK, GoTo, work
      <3> QED BY <3>1, <3>2
    <2>3. CASE FindReused(w) \/ ClaimTaken(w)
      BY <2>3, <2>r, RefuseTypes DEF FindReused, ClaimTaken, RefusalCode, r
    <2>4. CASE FindReply(w)
      <3>1. keys[r.key].reply \in AnyReply
        BY <2>4, <2>k DEF FindReply, TypeOK, KeyRow, AnyReply, r
      <3> QED
        BY <2>4, <3>1 DEF FindReply, TypeOK, HandOK, GoTo, RollBack, work, Label, r
    <2>5. CASE Create(w)
      <3>1. CASE RefuseDraft(w)
        BY <3>1, <2>r, RefuseDraftTypes DEF r
      <3>2. CASE ~RefuseDraft(w)
        <4>1. PICK id \in Id :
                Finish(w, [id |-> id, row |-> CreatedRow(r)], Reply("created", id, CreatedRow(r)))
          BY <2>5, <3>2 DEF Create, r
        <4>2. CreatedRow(r) \in Row
          BY <2>5, <2>r, BuiltRows DEF Create, r
        <4>3. /\ [id |-> id, row |-> CreatedRow(r)] \in Change
              /\ Reply("created", id, CreatedRow(r)) \in SuccessReply
          BY <4>2 DEF Change, Reply, SuccessReply
        <4> QED BY <4>1, <4>3, <2>r, FinishTypes DEF r
      <3> QED BY <3>1, <3>2
    <2>6. CASE UpdateGet(w)
      <3>1. CASE RefuseDraft(w) \/ Refuse(w, "not_found")
        BY <3>1, <2>r, RefuseDraftTypes, RefuseTypes DEF r, RefusalCode
      <3>2. CASE ~(RefuseDraft(w) \/ Refuse(w, "not_found"))
        <4>1. r.op = "update" /\ r.id \in Id /\ txns[r.id] \in Row
          BY <2>6, <3>2, <2>r, RequestInHand DEF UpdateGet, TypeOK, r
        <4>2. UpdatedRow(r, txns[r.id]) \in Row
          BY <4>1, <2>r, BuiltRows
        <4>3. /\ wanted' = [wanted EXCEPT ![w] = UpdatedRow(r, txns[r.id])]
              /\ pc' = [pc EXCEPT ![w] = "merge"]
              /\ UNCHANGED <<clock, txns, keys, effects, req, began, freed, loaded, change, reply>>
          BY <2>6, <3>2 DEF UpdateGet, GoTo, r
        <4>4. TypeOK'
          BY <4>2, <4>3 DEF TypeOK, Label
        <4>5. HandOK'
          BY <4>1, <4>2, <4>3 DEF TypeOK, HandOK, r
        <4> QED BY <4>4, <4>5
      <3> QED BY <3>1, <3>2
    <2>7. CASE UpdateMerge(w)
      <3>1. r.op = "update" /\ r.id \in Id
        BY <2>7, <2>r, RequestInHand DEF UpdateMerge, HandOK, r
      <3>2. txns[r.id] \in Row \cup {Absent}
        BY <3>1 DEF TypeOK
      <3> QED
        BY <2>7, <3>1, <3>2 DEF UpdateMerge, TypeOK, HandOK, GoTo, Label, r
    <2>8. CASE UpdateFlush(w)
      <3>1. r.id \in Id /\ wanted[w] \in Row /\ loaded[w] \in Row \cup {Absent}
        BY <2>8, <2>r, RequestInHand DEF UpdateFlush, HandOK, TypeOK, r
      <3>2. UpdateReply(w) \in SuccessReply
        BY <3>1 DEF UpdateReply, Reply, SuccessReply, r
      <3>3. CASE Finish(w, Absent, UpdateReply(w)) \/ Refuse(w, "internal_error")
        BY <3>3, <3>2, <2>r, FinishTypes, RefuseTypes DEF r, RefusalCode
      <3>4. CASE Finish(w, [id |-> r.id, row |-> wanted[w]], UpdateReply(w))
        <4>1. [id |-> r.id, row |-> wanted[w]] \in Change
          BY <3>1 DEF Change
        <4> QED BY <3>4, <4>1, <3>2, <2>r, FinishTypes DEF r
      <3>5. CASE /\ loaded[w] # Absent /\ txns[r.id] # Absent
                 /\ Finish(w, [id |-> r.id,
                               row |-> WrittenOver(txns[r.id], loaded[w], wanted[w])],
                           UpdateReply(w))
        <4>1. loaded[w] \in Row /\ txns[r.id] \in Row
          BY <3>1, <3>5 DEF TypeOK
        <4>2. [id |-> r.id, row |-> WrittenOver(txns[r.id], loaded[w], wanted[w])] \in Change
          BY <4>1, <3>1, BuiltRows DEF Change
        <4> QED BY <3>5, <4>2, <3>2, <2>r, FinishTypes DEF r
      <3> QED BY <2>8, <3>3, <3>4, <3>5 DEF UpdateFlush, r
    <2>9. CASE DeleteGet(w)
      <3>1. CASE Refuse(w, "not_found") \/ Refuse(w, "confirmation_required")
        BY <3>1, <2>r, RefuseTypes DEF r, RefusalCode
      <3>2. CASE ~(Refuse(w, "not_found") \/ Refuse(w, "confirmation_required"))
        <4>1. /\ pc' = [pc EXCEPT ![w] = "remove"] /\ r.op = "delete"
              /\ UNCHANGED <<clock, txns, keys, effects, work, freed, change, reply>>
          BY <2>9, <3>2 DEF DeleteGet, GoTo, r
        <4>2. TypeOK'
          BY <4>1 DEF TypeOK, Label, work
        <4>3. HandOK'
          BY <4>1 DEF TypeOK, HandOK, work, r
        <4> QED BY <4>2, <4>3
      <3> QED BY <3>1, <3>2
    <2>10. CASE DeleteRemove(w)
      <3>1. r.id \in Id
        BY <2>10, <2>r, RequestInHand DEF DeleteRemove, HandOK, r
      <3>2. [id |-> r.id, row |-> Absent] \in Change
        BY <3>1 DEF Change
      <3>3. Reply("deleted", r.id, Absent) \in SuccessReply
        BY <3>1 DEF Reply, SuccessReply
      <3> QED BY <2>10, <3>2, <3>3, <2>r, FinishTypes DEF DeleteRemove, r
    <2>11. CASE Commit(w)
      <3>1. reply[w] \in SuccessReply /\ began[w] \in Nat
        BY <2>11 DEF Commit, HandOK, TypeOK
      <3>2. Hash(r) \in HashType
        BY <2>r, RequestInHand
      <3>3. keys' \in [Key -> KeyRow \cup {Absent}]
        BY <2>11, <2>k, <3>1, <3>2 DEF Commit, TypeOK, KeyRow, r
      <3>4. txns' \in [Id -> Row \cup {Absent}]
        BY <2>11 DEF Commit, TypeOK, Change
      <3>5. effects' \in Seq(EffectType)
        <4>1. [key |-> r.key, hash |-> Hash(r), at |-> began[w], reply |-> reply[w],
               confirmed |-> r.confirmed] \in EffectType
          BY <3>1, <3>2, <2>k DEF EffectType
        <4> QED BY <2>11, <4>1, AppendEffect DEF Commit, TypeOK, r
      <3>6. TypeOK'
        BY <2>11, <3>3, <3>4, <3>5 DEF Commit, TypeOK, GoTo, RollBack, work, Label
      <3>7. HandOK'
        BY <2>11, <3>1 DEF Commit, TypeOK, HandOK, GoTo, RollBack, work, AnyReply
      <3> QED BY <3>6, <3>7
    <2>12. CASE Respond(w) \/ Vanish(w)
      BY <2>12, <1>4 DEF Respond, Vanish
    <2> QED
      BY <1>5, <2>1, <2>2, <2>3, <2>4, <2>5, <2>6, <2>7, <2>8, <2>9, <2>10, <2>11, <2>12
      DEF Serve
  <1> QED BY <1>1, <1>2, <1>3, <1>5 DEF Next

\* Every variable keeps its type.
THEOREM TypeCorrect == Spec => []TypeOK
  <1>1. Init => TypeOK /\ HandOK
    BY InitTypes
  <1>2. (TypeOK /\ HandOK) /\ [Next]_vars => (TypeOK /\ HandOK)'
    BY StepTypes
  <1> QED BY <1>1, <1>2, PTL DEF Spec

-----------------------------------------------------------------------------
(* Safety: the inductive invariant *)

\* The parts of the invariant that speak of one worker.
MayRunAt(w) ==
    /\ freed[w] => pc[w] \notin {"idle", "expire", "reply"} /\ KeyExpired(w)
    /\ HasClaimed(w) => freed[w] \/ keys[req[w].key] = Absent
SuccessAt(w) ==
    pc[w] = "reply" /\ IsSuccess(reply[w]) =>
        \E i \in Effect : /\ effects[i].key = req[w].key
                          /\ effects[i].hash = Hash(req[w])
                          /\ effects[i].reply = reply[w]
InProgressAt(w) ==
    pc[w] = "reply" /\ reply[w].code = "request_in_progress" =>
        \E i \in Effect : effects[i].key = req[w].key

\* What a step of w leaves alone when it is not a commit.
Quiet(w) ==
    /\ UNCHANGED <<keys, effects>>
    /\ \A v \in Worker \ {w} :
          /\ pc'[v] = pc[v] /\ req'[v] = req[v] /\ began'[v] = began[v]
          /\ freed'[v] = freed[v] /\ change'[v] = change[v] /\ reply'[v] = reply[v]

\* A quiet step keeps the invariant when the worker that takes it keeps its own part of it and
\* takes only locks that nobody else holds.
LEMMA QuietStep ==
    ASSUME Inductive, TypeOK', HandOK', NEW w \in Worker, Quiet(w),
           MayRunAt(w)', SuccessAt(w)', InProgressAt(w)',
           \A k \in Key : HoldsKey(w, k)' =>
               HoldsKey(w, k) \/ \A v \in Worker \ {w} : ~HoldsKey(v, k),
           \A id \in Id : HoldsRow(w, id)' =>
               HoldsRow(w, id) \/ \A v \in Worker \ {w} : ~HoldsRow(v, id)
    PROVE  Inductive'
  <1>1. KeysFollowEffects' /\ OneEffectPerKey'
    BY DEF Inductive, KeysFollowEffects, OneEffectPerKey, Quiet, Effect
  <1>2. \A v \in Worker \ {w}, k \in Key : HoldsKey(v, k)' <=> HoldsKey(v, k)
    BY DEF Quiet, HoldsKey, HasClaimed
  <1>3. \A v \in Worker \ {w}, id \in Id : HoldsRow(v, id)' <=> HoldsRow(v, id)
    BY DEF Quiet, HoldsRow
  <1>4. LocksExclude'
    BY <1>2, <1>3 DEF Inductive, LocksExclude
  <1>5. HoldersMayRun'
    <2> SUFFICES ASSUME NEW v \in Worker \ {w} PROVE MayRunAt(v)'
      BY DEF HoldersMayRun, MayRunAt
    <2>1. MayRunAt(v)
      BY DEF Inductive, HoldersMayRun, MayRunAt
    <2> QED BY <2>1 DEF Quiet, MayRunAt, HasClaimed, KeyExpired
  <1>6. SuccessIsAnEffect' /\ InProgressMeansDone'
    <2> SUFFICES ASSUME NEW v \in Worker \ {w} PROVE SuccessAt(v)' /\ InProgressAt(v)'
      BY DEF SuccessIsAnEffect, InProgressMeansDone, SuccessAt, InProgressAt
    <2>1. SuccessAt(v) /\ InProgressAt(v)
      BY DEF Inductive, SuccessIsAnEffect, InProgressMeansDone, SuccessAt, InProgressAt
    <2>2. SuccessAt(v)'
      BY <2>1 DEF Quiet, SuccessAt, IsSuccess, Hash, Effect
    <2>3. InProgressAt(v)'
      BY <2>1 DEF Quiet, InProgressAt, IsSuccess, Effect
    <2> QED BY <2>2, <2>3
  <1> QED BY <1>1, <1>4, <1>5, <1>6 DEF Inductive

\* A worker that rolls back and says no holds nothing.
LEMMA RefuseStep ==
    ASSUME Inductive, TypeOK', HandOK', NEW w \in Worker, NEW code \in RefusalCode,
           Refuse(w, code),
           code = "request_in_progress" => \E i \in Effect : effects[i].key = req[w].key
    PROVE  Inductive'
  <1>0. TypeOK
    BY DEF Inductive
  <1>1. /\ pc' = [pc EXCEPT ![w] = "reply"] /\ freed' = [freed EXCEPT ![w] = FALSE]
        /\ change' = [change EXCEPT ![w] = Absent]
        /\ reply' = [reply EXCEPT ![w] = Refusal(code)]
        /\ UNCHANGED <<keys, effects, req, began>>
    BY DEF Refuse, RollBack, work
  <1>2. Quiet(w)
    BY <1>0, <1>1 DEF Quiet, TypeOK
  <1>3. pc'[w] = "reply" /\ ~freed'[w] /\ change'[w] = Absent /\ reply'[w] = Refusal(code)
    BY <1>0, <1>1 DEF TypeOK
  <1>4. MayRunAt(w)'
    BY <1>3 DEF MayRunAt, HasClaimed
  <1>5. SuccessAt(w)' /\ InProgressAt(w)'
    <2>1. ~IsSuccess(reply'[w]) /\ reply'[w].code = code
      BY <1>3 DEF IsSuccess, Refusal, Reply, RefusalCode
    <2> QED BY <2>1, <1>1 DEF SuccessAt, InProgressAt, Effect, IsSuccess
  <1>6. \A k \in Key : ~HoldsKey(w, k)'
    BY <1>3 DEF HoldsKey, HasClaimed
  <1>7. \A id \in Id : ~HoldsRow(w, id)'
    BY <1>3 DEF HoldsRow
  <1> QED BY <1>2, <1>4, <1>5, <1>6, <1>7, QuietStep

\* A use case that ends with a change of a row nobody else holds keeps the invariant.
LEMMA FinishStep ==
    ASSUME Inductive, TypeOK', HandOK', NEW w \in Worker, NEW c, NEW p, Finish(w, c, p),
           HasClaimed(w),
           c # Absent => c.id \in Id /\ \A v \in Worker \ {w} : ~HoldsRow(v, c.id)
    PROVE  Inductive'
  <1>0. TypeOK
    BY DEF Inductive
  <1>1. /\ pc' = [pc EXCEPT ![w] = "commit"]
        /\ change' = [change EXCEPT ![w] = c]
        /\ reply' = [reply EXCEPT ![w] = p]
        /\ UNCHANGED <<keys, effects, req, began, freed>>
    BY DEF Finish, GoTo, work
  <1>2. Quiet(w)
    BY <1>0, <1>1 DEF Quiet, TypeOK
  <1>3. pc'[w] = "commit" /\ change'[w] = c
    BY <1>0, <1>1 DEF TypeOK
  <1>4. MayRunAt(w)
    BY DEF Inductive, HoldersMayRun, MayRunAt
  <1>5. MayRunAt(w)'
    BY <1>1, <1>3, <1>4 DEF MayRunAt, HasClaimed, KeyExpired
  <1>6. SuccessAt(w)' /\ InProgressAt(w)'
    BY <1>3 DEF SuccessAt, InProgressAt
  <1>7. \A k \in Key : HoldsKey(w, k)' => HoldsKey(w, k)
    BY <1>1 DEF HoldsKey
  <1>8. \A id \in Id : HoldsRow(w, id)' => \A v \in Worker \ {w} : ~HoldsRow(v, id)
    BY <1>3 DEF HoldsRow
  <1> QED BY <1>2, <1>5, <1>6, <1>7, <1>8, QuietStep

\* A step that only moves the worker on to a statement, holding what it held.
LEMMA MoveStep ==
    ASSUME Inductive, TypeOK', HandOK', NEW w \in Worker, Quiet(w),
           req'[w] = req[w], began'[w] = began[w], freed'[w] = freed[w], change'[w] = change[w],
           pc[w] # "idle", pc[w] # "expire",
           pc'[w] \notin {"idle", "expire", "reply"},
           HasClaimed(w)' => HasClaimed(w)
    PROVE  Inductive'
  <1>1. MayRunAt(w)
    BY DEF Inductive, HoldersMayRun, MayRunAt
  <1>2. MayRunAt(w)'
    BY <1>1 DEF MayRunAt, KeyExpired, Quiet
  <1>3. SuccessAt(w)' /\ InProgressAt(w)'
    BY DEF SuccessAt, InProgressAt
  <1>4. \A k \in Key : HoldsKey(w, k)' => HoldsKey(w, k)
    BY DEF HoldsKey
  <1>5. \A id \in Id : HoldsRow(w, id)' => HoldsRow(w, id)
    BY DEF HoldsRow
  <1> QED BY <1>2, <1>3, <1>4, <1>5, QuietStep

\* The commit: the new effect is the first of its key, or the earlier ones have expired.
LEMMA CommitStep ==
    ASSUME Inductive, TypeOK', HandOK', NEW w \in Worker, Commit(w)
    PROVE  Inductive'
  <1> DEFINE k == req[w].key
             e == [key |-> k, hash |-> Hash(req[w]), at |-> began[w],
                   reply |-> reply[w], confirmed |-> req[w].confirmed]
             n == Len(effects) + 1
  <1>0. TypeOK /\ HandOK
    BY DEF Inductive
  <1>1. /\ pc[w] = "commit" /\ pc' = [pc EXCEPT ![w] = "reply"]
        /\ freed' = [freed EXCEPT ![w] = FALSE]
        /\ change' = [change EXCEPT ![w] = Absent]
        /\ keys' = [keys EXCEPT ![k] = [hash |-> Hash(req[w]), reply |-> reply[w], at |-> began[w]]]
        /\ effects' = Append(effects, e)
        /\ UNCHANGED <<req, began, reply>>
    BY DEF Commit, RollBack, GoTo, work
  <1>2. req[w] \in Request /\ k \in Key /\ began[w] \in Nat /\ reply[w] \in SuccessReply
    <2>1. req[w] \in Request
      BY <1>0, <1>1 DEF TypeOK, HandOK
    <2> QED BY <2>1, <1>0, <1>1, RequestInHand DEF RequestType, TypeOK, HandOK
  <1>3. e \in EffectType
    BY <1>2, RequestInHand DEF EffectType, RequestType
  <1>4. /\ Effect' = 1..n
        /\ \A i \in Effect : effects'[i] = effects[i]
        /\ effects'[n] = e
        /\ Len(effects) \in Nat
    BY <1>0, <1>1, <1>3, AppendEffect DEF TypeOK, Effect
  <1>5. keys'[k] = [hash |-> Hash(req[w]), reply |-> reply[w], at |-> began[w]] /\ keys'[k] # Absent
    <2>1. [hash |-> Hash(req[w]), reply |-> reply[w], at |-> began[w]] \in KeyRow
      BY <1>2, RequestInHand DEF KeyRow
    <2> QED BY <2>1, <1>0, <1>1, <1>2, AbsentAssumption DEF TypeOK
  <1>6. \A l \in Key \ {k} : keys'[l] = keys[l]
    BY <1>0, <1>1 DEF TypeOK
  <1>7. \A i \in Effect : effects[i].key = k => effects[i].at + Retention < began[w]
    <2>1. freed[w] \/ keys[k] = Absent
      BY <1>1 DEF Inductive, HoldersMayRun, HasClaimed
    <2>2. CASE keys[k] = Absent
      BY <2>2, <1>2 DEF Inductive, KeysFollowEffects
    <2>3. CASE freed[w]
      <3>1. keys[k] # Absent /\ keys[k].at + Retention < began[w]
        BY <2>3 DEF Inductive, HoldersMayRun, KeyExpired
      <3>2. keys[k].at \in Nat
        BY <3>1, <1>0, <1>2 DEF TypeOK, KeyRow
      <3>3. \A i \in Effect : effects[i].key = k => effects[i].at <= keys[k].at
        BY <3>1, <1>2 DEF Inductive, KeysFollowEffects
      <3>4. \A i \in Effect : effects[i].at \in Nat
        BY <1>0, EffectTypes
      <3> QED BY <3>1, <3>2, <3>3, <3>4, <1>2
    <2> QED BY <2>1, <2>2, <2>3
  <1> HIDE DEF e, k, n
  <1>8. e.key = k /\ e.at = began[w] /\ e.hash = Hash(req[w]) /\ e.reply = reply[w]
    BY DEF e
  <1>9. \A i \in Effect : effects[i].at \in Nat
    BY <1>0, EffectTypes
  <1>10. OneEffectPerKey'
    <2> SUFFICES ASSUME NEW i \in Effect', NEW j \in Effect', i < j,
                        effects'[i].key = effects'[j].key
                 PROVE  effects'[i].at + Retention < effects'[j].at
      BY DEF OneEffectPerKey
    <2>1. i \in Effect
      BY <1>4 DEF Effect, n
    <2>2. CASE j = n
      BY <2>1, <2>2, <1>4, <1>7, <1>8
    <2>3. CASE j # n
      <3>1. j \in Effect
        BY <2>3, <1>4 DEF Effect, n
      <3> QED BY <2>1, <3>1, <1>4 DEF Inductive, OneEffectPerKey
    <2> QED BY <2>2, <2>3
  <1>11. KeysFollowEffects'
    <2> SUFFICES ASSUME NEW l \in Key
                 PROVE  /\ keys'[l] = Absent => \A i \in Effect' : effects'[i].key # l
                        /\ keys'[l] # Absent =>
                              /\ \A i \in Effect' :
                                    effects'[i].key = l => effects'[i].at <= keys'[l].at
                              /\ \E i \in Effect' : /\ effects'[i].key = l
                                                    /\ effects'[i].hash = keys'[l].hash
                                                    /\ effects'[i].reply = keys'[l].reply
      BY DEF KeysFollowEffects
    <2>1. \A i \in Effect' : i \in Effect \/ i = n
      BY <1>4 DEF Effect, n
    <2>2. Effect \subseteq Effect' /\ n \in Effect'
      BY <1>4 DEF Effect, n
    <2>3. CASE l = k
      <3>1. \A i \in Effect' : effects'[i].key = k => effects'[i].at <= began[w]
        BY <2>1, <1>2, <1>4, <1>7, <1>8, <1>9
      <3>2. keys'[k].at = began[w] /\ keys'[k].hash = Hash(req[w]) /\ keys'[k].reply = reply[w]
        BY <1>5
      <3> QED BY <2>2, <2>3, <3>1, <3>2, <1>4, <1>5, <1>8
    <2>4. CASE l # k
      <3>1. keys'[l] = keys[l]
        BY <2>4, <1>6
      <3>2. /\ keys[l] = Absent => \A i \in Effect : effects[i].key # l
            /\ keys[l] # Absent =>
                  /\ \A i \in Effect : effects[i].key = l => effects[i].at <= keys[l].at
                  /\ \E i \in Effect : /\ effects[i].key = l
                                       /\ effects[i].hash = keys[l].hash
                                       /\ effects[i].reply = keys[l].reply
        BY DEF Inductive, KeysFollowEffects
      <3> QED BY <2>1, <2>2, <2>4, <3>1, <3>2, <1>4, <1>8
    <2> QED BY <2>3, <2>4
  <1>12. pc'[w] = "reply" /\ ~freed'[w] /\ change'[w] = Absent
    BY <1>0, <1>1 DEF TypeOK
  <1>13. \A v \in Worker \ {w} : pc'[v] = pc[v] /\ freed'[v] = freed[v] /\ change'[v] = change[v]
    BY <1>0, <1>1 DEF TypeOK
  <1>14. LocksExclude'
    <2>1. \A l \in Key : ~HoldsKey(w, l)'
      BY <1>12 DEF HoldsKey, HasClaimed
    <2>2. \A id \in Id : ~HoldsRow(w, id)'
      BY <1>12 DEF HoldsRow
    <2>3. \A v \in Worker \ {w}, l \in Key : HoldsKey(v, l)' => HoldsKey(v, l)
      BY <1>1, <1>13 DEF HoldsKey, HasClaimed
    <2>4. \A v \in Worker \ {w}, id \in Id : HoldsRow(v, id)' => HoldsRow(v, id)
      BY <1>13 DEF HoldsRow
    <2> QED BY <2>1, <2>2, <2>3, <2>4 DEF Inductive, LocksExclude
  <1>15. HoldersMayRun'
    <2> SUFFICES ASSUME NEW v \in Worker PROVE MayRunAt(v)'
      BY DEF HoldersMayRun, MayRunAt
    <2>1. CASE v = w
      BY <2>1, <1>12 DEF MayRunAt, HasClaimed
    <2>2. CASE v # w
      <3>1. MayRunAt(v)
        BY DEF Inductive, HoldersMayRun, MayRunAt
      <3>2. CASE freed[v] \/ HasClaimed(v)
        <4>1. req[v] # Absent /\ req[v].key \in Key
          <5>1. pc[v] # "idle"
            BY <3>1, <3>2 DEF MayRunAt, HasClaimed
          <5>2. req[v] \in Request
            BY <5>1, <1>0 DEF TypeOK, HandOK
          <5> QED BY <5>2, RequestInHand DEF RequestType
        <4>2. HoldsKey(v, req[v].key)
          BY <3>2, <4>1 DEF HoldsKey
        <4>3. HoldsKey(w, k)
          BY <1>0, <1>1 DEF HoldsKey, HasClaimed, HandOK, k
        <4>4. req[v].key # k
          BY <2>2, <4>1, <4>2, <4>3 DEF Inductive, LocksExclude
        <4>5. keys'[req[v].key] = keys[req[v].key]
          BY <4>1, <4>4, <1>6
        <4> QED BY <2>2, <3>1, <4>5, <1>1, <1>13 DEF MayRunAt, HasClaimed, KeyExpired
      <3>3. CASE ~(freed[v] \/ HasClaimed(v))
        BY <2>2, <3>3, <1>13 DEF MayRunAt, HasClaimed
      <3> QED BY <3>2, <3>3
    <2> QED BY <2>1, <2>2
  <1>16. SuccessIsAnEffect' /\ InProgressMeansDone'
    <2> SUFFICES ASSUME NEW v \in Worker PROVE SuccessAt(v)' /\ InProgressAt(v)'
      BY DEF SuccessIsAnEffect, InProgressMeansDone, SuccessAt, InProgressAt
    <2>0. Effect \subseteq Effect' /\ n \in Effect'
      BY <1>4 DEF Effect, n
    <2>1. CASE v = w
      <3>1. effects'[n].key = req'[w].key /\ effects'[n].hash = Hash(req'[w]) /\ effects'[n].reply = reply'[w]
        BY <1>1, <1>4, <1>8 DEF k
      <3> QED BY <2>0, <2>1, <3>1 DEF SuccessAt, InProgressAt
    <2>2. CASE v # w
      <3>1. SuccessAt(v) /\ InProgressAt(v)
        BY DEF Inductive, SuccessIsAnEffect, InProgressMeansDone, SuccessAt, InProgressAt
      <3>2. pc'[v] = pc[v] /\ reply'[v] = reply[v] /\ req'[v] = req[v]
        BY <2>2, <1>1, <1>13
      <3> QED BY <2>0, <3>1, <3>2, <1>4 DEF SuccessAt, InProgressAt, IsSuccess, Hash
    <2> QED BY <2>1, <2>2
  <1> QED BY <1>10, <1>11, <1>14, <1>15, <1>16 DEF Inductive

\* The invariant holds before the first request.
LEMMA InitSafety == Init => Inductive
  <1> SUFFICES ASSUME Init PROVE Inductive OBVIOUS
  <1>1. TypeOK /\ HandOK
    BY InitTypes
  <1>2. Effect = {}
    BY DEF Init, Effect
  <1>3. KeysFollowEffects /\ OneEffectPerKey
    BY <1>2 DEF Init, KeysFollowEffects, OneEffectPerKey
  <1>4. HoldersMayRun /\ LocksExclude
    BY DEF Init, HoldersMayRun, LocksExclude, HasClaimed, HoldsKey, HoldsRow
  <1>5. SuccessIsAnEffect /\ InProgressMeansDone
    BY DEF Init, SuccessIsAnEffect, InProgressMeansDone
  <1> QED BY <1>1, <1>3, <1>4, <1>5 DEF Inductive

\* The invariant says nothing of the clock and of the rows.
LEMMA StillStep ==
    ASSUME Inductive, TypeOK', HandOK',
           UNCHANGED <<keys, effects, pc, req, began, freed, change, reply>>
    PROVE  Inductive'
  <1>1. KeysFollowEffects' /\ OneEffectPerKey'
    BY DEF Inductive, KeysFollowEffects, OneEffectPerKey, Effect
  <1>2. HoldersMayRun'
    BY DEF Inductive, HoldersMayRun, HasClaimed, KeyExpired
  <1>3. LocksExclude'
    BY DEF Inductive, LocksExclude, HoldsKey, HoldsRow, HasClaimed
  <1>4. SuccessIsAnEffect' /\ InProgressMeansDone'
    BY DEF Inductive, SuccessIsAnEffect, InProgressMeansDone, IsSuccess, Hash, Effect
  <1> QED BY <1>1, <1>2, <1>3, <1>4 DEF Inductive

\* Every statement of the write path keeps the invariant: one step per action.
LEMMA StepSafety ==
    ASSUME Inductive, [Next]_vars
    PROVE  Inductive'
  <1>0. TypeOK /\ HandOK /\ TypeOK' /\ HandOK'
    BY StepTypes DEF Inductive
  <1>1. CASE UNCHANGED vars
    BY <1>0, <1>1, StillStep DEF vars
  <1>2. CASE Tick
    BY <1>0, <1>2, StillStep DEF Tick, work
  <1>3. ASSUME NEW w \in Worker, Begin(w)
        PROVE  Inductive'
    <2>1. ~freed[w]
      BY <1>3 DEF Begin, Inductive, HoldersMayRun
    <2>2. /\ pc'[w] = "expire" /\ freed'[w] = freed[w] /\ change'[w] = change[w]
          /\ UNCHANGED <<keys, effects, freed, change, reply>>
          /\ \A v \in Worker \ {w} : pc'[v] = pc[v] /\ req'[v] = req[v] /\ began'[v] = began[v]
      BY <1>0, <1>3 DEF Begin, GoTo, TypeOK
    <2>3. Quiet(w)
      BY <2>2 DEF Quiet
    <2>4. MayRunAt(w)' /\ SuccessAt(w)' /\ InProgressAt(w)'
      BY <2>1, <2>2 DEF MayRunAt, SuccessAt, InProgressAt, HasClaimed
    <2>5. \A k \in Key : ~HoldsKey(w, k)'
      BY <2>1, <2>2 DEF HoldsKey, HasClaimed
    <2>6. \A id \in Id : HoldsRow(w, id)' => HoldsRow(w, id)
      BY <2>2 DEF HoldsRow
    <2> QED BY <1>0, <2>3, <2>4, <2>5, <2>6, QuietStep
  <1>4. ASSUME NEW w \in Worker, Leave(w)
        PROVE  Inductive'
    <2>1. /\ pc'[w] = "idle" /\ ~freed'[w] /\ change'[w] = Absent
          /\ UNCHANGED <<keys, effects>>
      BY <1>0, <1>4 DEF Leave, GoTo, RollBack, TypeOK
    <2>2. Quiet(w)
      BY <1>0, <1>4 DEF Quiet, Leave, GoTo, RollBack, TypeOK
    <2>3. MayRunAt(w)' /\ SuccessAt(w)' /\ InProgressAt(w)'
      BY <2>1 DEF MayRunAt, SuccessAt, InProgressAt, HasClaimed
    <2>4. \A k \in Key : ~HoldsKey(w, k)'
      BY <2>1 DEF HoldsKey, HasClaimed
    <2>5. \A id \in Id : ~HoldsRow(w, id)'
      BY <2>1 DEF HoldsRow
    <2> QED BY <1>0, <2>2, <2>3, <2>4, <2>5, QuietStep
  <1>5. ASSUME NEW w \in Worker, Serve(w) \/ Vanish(w)
        PROVE  Inductive'
    <2>1. CASE FindExpire(w)
      <3>1. /\ pc'[w] = "lookup" /\ freed'[w] = KeyExpired(w) /\ change'[w] = change[w]
            /\ pc[w] = "expire"
            /\ UNCHANGED <<keys, effects, req, began>>
        BY <1>0, <2>1 DEF FindExpire, GoTo, work, TypeOK
      <3>2. Quiet(w)
        BY <1>0, <2>1 DEF Quiet, FindExpire, GoTo, work, TypeOK
      <3>3. MayRunAt(w)' /\ SuccessAt(w)' /\ InProgressAt(w)'
        BY <3>1 DEF MayRunAt, SuccessAt, InProgressAt, HasClaimed, KeyExpired
      <3>4. \A k \in Key : HoldsKey(w, k)' => \A v \in Worker \ {w} : ~HoldsKey(v, k)
        BY <2>1, <3>1 DEF FindExpire, KeyIsFree, HoldsKey, HasClaimed
      <3>5. \A id \in Id : HoldsRow(w, id)' => HoldsRow(w, id)
        BY <3>1 DEF HoldsRow
      <3> QED BY <1>0, <3>2, <3>3, <3>4, <3>5, QuietStep
    <2>2. CASE FindNothing(w)
      <3>1. /\ pc'[w] = "claim" /\ pc[w] = "lookup" /\ Quiet(w)
            /\ UNCHANGED <<req, began, freed, change>>
        BY <1>0, <2>2 DEF FindNothing, GoTo, work, TypeOK, Quiet
      <3> QED BY <1>0, <3>1, MoveStep DEF HasClaimed
    <2>3. CASE FindReused(w)
      BY <1>0, <2>3, RefuseStep DEF FindReused, RefusalCode
    <2>4. CASE FindReply(w)
      <3> DEFINE k == req[w].key
      <3>1. /\ pc'[w] = "reply" /\ ~freed'[w] /\ change'[w] = Absent
            /\ reply'[w] = keys[k].reply /\ keys[k] # Absent /\ keys[k].hash = Hash(req[w])
            /\ UNCHANGED <<keys, effects, req, began>> /\ pc[w] = "lookup"
        BY <1>0, <2>4 DEF FindReply, GoTo, RollBack, work, TypeOK
      <3>2. Quiet(w)
        BY <1>0, <2>4 DEF Quiet, FindReply, GoTo, RollBack, work, TypeOK
      <3>3. k \in Key
        <4>1. req[w] \in Request
          BY <1>0, <3>1 DEF TypeOK, HandOK
        <4> QED BY <4>1, RequestInHand DEF RequestType
      <3>4. \E i \in Effect : /\ effects[i].key = k
                              /\ effects[i].hash = Hash(req[w])
                              /\ effects[i].reply = reply'[w]
        BY <3>1, <3>3 DEF Inductive, KeysFollowEffects
      <3>5. MayRunAt(w)'
        BY <3>1 DEF MayRunAt, HasClaimed
      <3>6. SuccessAt(w)' /\ InProgressAt(w)'
        BY <3>1, <3>4 DEF SuccessAt, InProgressAt, Effect, Hash
      <3>7. \A l \in Key : ~HoldsKey(w, l)'
        BY <3>1 DEF HoldsKey, HasClaimed
      <3>8. \A id \in Id : ~HoldsRow(w, id)'
        BY <3>1 DEF HoldsRow
      <3> QED BY <1>0, <3>2, <3>5, <3>6, <3>7, <3>8, QuietStep
    <2>5. CASE ClaimTaken(w)
      <3>1. req[w].key \in Key
        <4>1. req[w] \in Request
          BY <1>0, <2>5 DEF ClaimTaken, TypeOK, HandOK
        <4> QED BY <4>1, RequestInHand DEF RequestType
      <3>2. \E i \in Effect : effects[i].key = req[w].key
        BY <2>5, <3>1 DEF ClaimTaken, Inductive, KeysFollowEffects
      <3> QED BY <1>0, <2>5, <3>2, RefuseStep DEF ClaimTaken, RefusalCode
    <2>6. CASE ClaimWon(w)
      <3>1. /\ pc'[w] = "perform" /\ pc[w] = "claim"
            /\ freed[w] \/ keys[req[w].key] = Absent
            /\ \A v \in Worker \ {w} : ~HoldsKey(v, req[w].key)
            /\ UNCHANGED <<keys, effects, req, began, freed, change, reply>>
        BY <1>0, <2>6 DEF ClaimWon, GoTo, work, TypeOK, KeyIsFree
      <3>2. Quiet(w)
        BY <1>0, <2>6 DEF Quiet, ClaimWon, GoTo, work, TypeOK
      <3>3. MayRunAt(w)
        BY DEF Inductive, HoldersMayRun, MayRunAt
      <3>4. MayRunAt(w)' /\ SuccessAt(w)' /\ InProgressAt(w)'
        BY <3>1, <3>3 DEF MayRunAt, SuccessAt, InProgressAt, HasClaimed, KeyExpired
      <3>5. \A k \in Key : HoldsKey(w, k)' => \A v \in Worker \ {w} : ~HoldsKey(v, k)
        BY <3>1 DEF HoldsKey
      <3>6. \A id \in Id : HoldsRow(w, id)' => HoldsRow(w, id)
        BY <3>1 DEF HoldsRow
      <3> QED BY <1>0, <3>2, <3>4, <3>5, <3>6, QuietStep
    <2>7. ASSUME RefuseDraft(w) \/ Refuse(w, "not_found") \/ Refuse(w, "confirmation_required")
                   \/ Refuse(w, "internal_error")
          PROVE  Inductive'
      BY <1>0, <2>7, RefuseStep DEF RefuseDraft, RefusalCode
    <2>8. CASE Create(w)
      <3>1. CASE RefuseDraft(w)
        BY <3>1, <2>7
      <3>2. CASE ~RefuseDraft(w)
        <4>1. PICK id \in Id :
                /\ Fresh(id)
                /\ Finish(w, [id |-> id, row |-> CreatedRow(req[w])],
                          Reply("created", id, CreatedRow(req[w])))
          BY <2>8, <3>2 DEF Create
        <4>2. \A v \in Worker \ {w} : ~HoldsRow(v, id)
          BY <4>1 DEF Fresh
        <4>3. HasClaimed(w)
          BY <2>8 DEF Create, HasClaimed
        <4> QED BY <1>0, <4>1, <4>2, <4>3, FinishStep
      <3> QED BY <3>1, <3>2
    <2>9. CASE UpdateGet(w)
      <3>1. CASE RefuseDraft(w) \/ Refuse(w, "not_found")
        BY <3>1, <2>7
      <3>2. CASE ~(RefuseDraft(w) \/ Refuse(w, "not_found"))
        <4>1. /\ pc[w] = "perform" /\ pc' = [pc EXCEPT ![w] = "merge"]
              /\ UNCHANGED <<keys, effects, req, began, freed, change, reply>>
          BY <2>9, <3>2 DEF UpdateGet, GoTo
        <4>2. Quiet(w) /\ pc'[w] = "merge"
          BY <1>0, <4>1 DEF Quiet, TypeOK
        <4> QED BY <1>0, <4>1, <4>2, MoveStep DEF HasClaimed
      <3> QED BY <3>1, <3>2
    <2>10. CASE UpdateMerge(w)
      <3>1. /\ pc[w] = "merge" /\ pc' = [pc EXCEPT ![w] = "flush"]
            /\ UNCHANGED <<keys, effects, req, began, freed, change, reply>>
        BY <2>10 DEF UpdateMerge, GoTo
      <3>2. Quiet(w) /\ pc'[w] = "flush"
        BY <1>0, <3>1 DEF Quiet, TypeOK
      <3> QED BY <1>0, <3>1, <3>2, MoveStep DEF HasClaimed
    <2>11. CASE UpdateFlush(w)
      <3>1. HasClaimed(w)
        BY <2>11 DEF UpdateFlush, HasClaimed
      <3>2. CASE Refuse(w, "internal_error")
        BY <3>2, <2>7
      <3>3. CASE Finish(w, Absent, UpdateReply(w))
        BY <1>0, <3>1, <3>3, FinishStep
      <3>4. ASSUME NEW row, RowIsFree(w, req[w].id), pc[w] = "flush",
                   Finish(w, [id |-> req[w].id, row |-> row], UpdateReply(w))
            PROVE  Inductive'
        <4>1. req[w].id \in Id
          <5>1. req[w] \in Request /\ req[w].op = "update"
            BY <1>0, <3>4 DEF TypeOK, HandOK
          <5> QED BY <5>1, RequestInHand
        <4> QED BY <1>0, <3>1, <3>4, <4>1, FinishStep DEF RowIsFree
      <3> QED BY <2>11, <3>2, <3>3, <3>4 DEF UpdateFlush
    <2>12. CASE DeleteGet(w)
      <3>1. CASE Refuse(w, "not_found") \/ Refuse(w, "confirmation_required")
        BY <3>1, <2>7
      <3>2. CASE ~(Refuse(w, "not_found") \/ Refuse(w, "confirmation_required"))
        <4>1. /\ pc[w] = "perform" /\ pc' = [pc EXCEPT ![w] = "remove"]
              /\ UNCHANGED <<keys, effects, req, began, freed, change, reply>>
          BY <2>12, <3>2 DEF DeleteGet, GoTo, work
        <4>2. Quiet(w) /\ pc'[w] = "remove"
          BY <1>0, <4>1 DEF Quiet, TypeOK
        <4> QED BY <1>0, <4>1, <4>2, MoveStep DEF HasClaimed
      <3> QED BY <3>1, <3>2
    <2>13. CASE DeleteRemove(w)
      <3>1. HasClaimed(w)
        BY <2>13 DEF DeleteRemove, HasClaimed
      <3>2. req[w].id \in Id
        <4>1. req[w] \in Request /\ req[w].op = "delete"
          BY <1>0, <2>13 DEF DeleteRemove, TypeOK, HandOK
        <4> QED BY <4>1, RequestInHand
      <3> DEFINE c == IF txns[req[w].id] = Absent THEN Absent
                      ELSE [id |-> req[w].id, row |-> Absent]
      <3>3. Finish(w, c, Reply("deleted", req[w].id, Absent))
        BY <2>13 DEF DeleteRemove
      <3>4. c # Absent => c.id \in Id /\ \A v \in Worker \ {w} : ~HoldsRow(v, c.id)
        BY <2>13, <3>2 DEF DeleteRemove, RowIsFree
      <3> HIDE DEF c
      <3> QED BY <1>0, <3>1, <3>3, <3>4, FinishStep
    <2>14. CASE Commit(w)
      BY <1>0, <2>14, CommitStep
    <2>15. CASE Respond(w) \/ Vanish(w)
      BY <2>15, <1>4 DEF Respond, Vanish
    <2> QED
      BY <1>5, <2>1, <2>2, <2>3, <2>4, <2>5, <2>6, <2>8, <2>9, <2>10, <2>11, <2>12, <2>13,
         <2>14, <2>15 DEF Serve
  <1> QED BY <1>1, <1>2, <1>3, <1>5 DEF Next

\* The invariant that carries every safety theorem below.
THEOREM InductiveInvariant == Spec => []Inductive
  <1>1. Init => Inductive
    BY InitSafety
  <1>2. Inductive /\ [Next]_vars => Inductive'
    BY StepSafety
  <1> QED BY <1>1, <1>2, PTL DEF Spec

\* A write never enters the ledger twice under one key within its lifetime.
THEOREM NeverTwice == Spec => []OneEffectPerKey
  <1>1. Inductive => OneEffectPerKey
    BY DEF Inductive
  <1> QED BY <1>1, InductiveInvariant, PTL

\* Whoever is told of success is told of a committed write of this key, request and reply.
THEOREM SuccessIsTrue == Spec => []SuccessIsAnEffect
  <1>1. Inductive => SuccessIsAnEffect
    BY DEF Inductive
  <1> QED BY <1>1, InductiveInvariant, PTL

\* "In progress" is only answered once the rival with the same key has committed.
THEOREM InProgressIsDone == Spec => []InProgressMeansDone
  <1>1. Inductive => InProgressMeansDone
    BY DEF Inductive
  <1> QED BY <1>1, InductiveInvariant, PTL

\* Two requests never hold the same key or the same row.
THEOREM LocksAreExclusive == Spec => []LocksExclude
  <1>1. Inductive => LocksExclude
    BY DEF Inductive
  <1> QED BY <1>1, InductiveInvariant, PTL

-----------------------------------------------------------------------------
(* What holds of the rows: large amounts and sources *)

\* The parts of the two invariants that speak of one worker.
LargeAt(w) ==
    /\ pc[w] \in {"merge", "flush"} /\ wanted[w].large => req[w].confirmed
    /\ /\ pc[w] = "commit" /\ change[w] # Absent /\ ~SeedRow.large
       /\ change[w].row # Absent /\ change[w].row.large
       => \/ LargeTold(change[w].id)
          \/ /\ req[w].confirmed
             /\ reply[w].id = change[w].id /\ reply[w].code # "deleted"
             /\ reply[w].row.large
SourceAt(w) ==
    /\ pc[w] \in {"merge", "flush", "remove"} => Known(req[w].id)
    /\ pc[w] \in {"merge", "flush"} => wanted[w].source = SourceOf(req[w].id)
    /\ pc[w] = "commit" /\ reply[w].code = "created" =>
           /\ ~Known(reply[w].id)
           /\ change[w] = [id |-> reply[w].id, row |-> reply[w].row]
    /\ pc[w] = "commit" /\ reply[w].code # "created" /\ change[w] # Absent =>
           /\ Known(change[w].id)
           /\ change[w].row # Absent => change[w].row.source = SourceOf(change[w].id)

\* The statements of another worker say nothing of v.
Elsewhere(w) ==
    \A v \in Worker \ {w} :
        /\ pc'[v] = pc[v] /\ req'[v] = req[v] /\ wanted'[v] = wanted[v]
        /\ change'[v] = change[v] /\ reply'[v] = reply[v]

\* While no effect is added, what is known and what was told stays.
LEMMA SameEffects ==
    ASSUME effects' = effects
    PROVE  \A id : /\ LargeTold(id)' <=> LargeTold(id)
                   /\ Known(id)' <=> Known(id)
                   /\ SourceOf(id)' = SourceOf(id)
  BY DEF LargeTold, Known, SourceOf, Makes, Effect

\* A statement that commits nothing keeps both invariants if its worker keeps its own part.
LEMMA HandStep ==
    ASSUME LargeInductive, SourceInductive, NEW w \in Worker, Elsewhere(w),
           UNCHANGED <<txns, effects>>, LargeAt(w)', SourceAt(w)'
    PROVE  LargeInductive' /\ SourceInductive'
  <1>1. LargeWasConfirmed' /\ SourceNeverChanges'
    BY SameEffects DEF LargeInductive, SourceInductive, LargeWasConfirmed, SourceNeverChanges
  <1>2. MadeOnce'
    BY SameEffects DEF SourceInductive, MadeOnce, Makes, Effect
  <1>3. ASSUME NEW v \in Worker \ {w} PROVE LargeAt(v)' /\ SourceAt(v)'
    <2>1. LargeAt(v) /\ SourceAt(v)
      BY DEF LargeInductive, SourceInductive, LargeInHand, SourceInHand, LargeAt, SourceAt
    <2>2. LargeAt(v)'
      BY <2>1, SameEffects DEF LargeAt, Elsewhere
    <2>3. SourceAt(v)'
      BY <2>1, SameEffects DEF SourceAt, Elsewhere
    <2> QED BY <2>2, <2>3
  <1>4. LargeInHand'
    BY <1>3 DEF LargeInHand, LargeAt
  <1>5. SourceInHand'
    BY <1>3 DEF SourceInHand, SourceAt
  <1> QED BY <1>1, <1>2, <1>4, <1>5 DEF LargeInductive, SourceInductive

\* A worker that is not about to write carries nothing the invariants speak of.
LEMMA EmptyHanded ==
    ASSUME NEW w \in Worker, pc'[w] \notin {"merge", "flush", "remove", "commit"}
    PROVE  LargeAt(w)' /\ SourceAt(w)'
  BY DEF LargeAt, SourceAt

\* So a refusal keeps them.
LEMMA RefuseRows ==
    ASSUME TypeOK, LargeInductive, SourceInductive, NEW w \in Worker, NEW code, Refuse(w, code)
    PROVE  LargeInductive' /\ SourceInductive'
  <1>1. Elsewhere(w) /\ UNCHANGED <<txns, effects>> /\ pc'[w] = "reply"
    BY DEF Refuse, RollBack, work, Elsewhere, TypeOK
  <1> QED BY <1>1, EmptyHanded, HandStep

\* What a use case leaves for the commit.
LEMMA FinishRows ==
    ASSUME TypeOK, NEW w \in Worker, NEW c, NEW p, Finish(w, c, p)
    PROVE  /\ Elsewhere(w) /\ UNCHANGED <<txns, effects>>
           /\ pc'[w] = "commit" /\ change'[w] = c /\ reply'[w] = p /\ req'[w] = req[w]
  BY DEF Finish, GoTo, work, Elsewhere, TypeOK

\* A source once given stays, and so does what was told, when another effect is added.
LEMMA EffectAdded ==
    ASSUME TypeOK, MadeOnce, NEW e \in EffectType, effects' = Append(effects, e)
    PROVE  /\ \A id : LargeTold(id) => LargeTold(id)'
           /\ \A id : Known(id) => Known(id)'
           /\ \A id : ~Known(id) /\ Known(id)' => e.reply.code = "created" /\ e.reply.id = id
           /\ \A id \in Id : /\ e.reply.code = "created" => e.reply.id # id
                             /\ Known(id)
                             => /\ SourceOf(id)' = SourceOf(id)
                                /\ \A i, j \in Effect' :
                                      Makes(i, id)' /\ Makes(j, id)' => i = j
  <1>0. PICK n \in Nat : n = Len(effects) + 1
    BY DEF TypeOK
  <1>1. /\ effects \in Seq(EffectType) /\ Effect' = 1..n
        /\ \A i \in Effect : i # n /\ i \in Effect' /\ effects'[i] = effects[i]
        /\ n \in Effect' /\ effects'[n] = e
        /\ \A i \in Effect' : i = n \/ i \in Effect
    BY <1>0, AppendEffect DEF TypeOK, Effect
  <1>2. \A id : LargeTold(id) => LargeTold(id)'
    BY <1>1 DEF LargeTold
  <1>3. \A i \in Effect : \A id : Makes(i, id)' <=> Makes(i, id)
    BY <1>1 DEF Makes
  <1>4. \A id : Makes(n, id)' <=> e.reply.code = "created" /\ e.reply.id = id
    BY <1>1 DEF Makes
  <1>5. \A id : Known(id) => Known(id)'
    BY <1>1, <1>3 DEF Known
  <1>6. \A id : ~Known(id) /\ Known(id)' => e.reply.code = "created" /\ e.reply.id = id
    BY <1>1, <1>3, <1>4 DEF Known
  <1>7. ASSUME NEW id \in Id, e.reply.code = "created" => e.reply.id # id, Known(id)
        PROVE  /\ SourceOf(id)' = SourceOf(id)
               /\ \A i, j \in Effect' : Makes(i, id)' /\ Makes(j, id)' => i = j
    <2>1. \A i \in Effect' : Makes(i, id)' <=> i \in Effect /\ Makes(i, id)
      BY <1>1, <1>3, <1>4, <1>7
    <2>2. \A i, j \in Effect : Makes(i, id) /\ Makes(j, id) => i = j
      BY DEF MadeOnce
    <2>3. \A i, j \in Effect' : Makes(i, id)' /\ Makes(j, id)' => i = j
      BY <2>1, <2>2
    <2>4. SourceOf(id)' = SourceOf(id)
      <3>1. CASE id \in Seeded
        BY <3>1 DEF SourceOf
      <3>2. CASE id \notin Seeded
        <4>1. PICK m \in Effect : Makes(m, id)
          BY <1>7, <3>2 DEF Known
        <4>2. (CHOOSE i \in Effect : Makes(i, id)) = m
          BY <4>1, <2>2
        <4>3. m \in Effect' /\ Makes(m, id)'
          BY <4>1, <2>1, <1>1
        <4>4. (CHOOSE i \in Effect' : Makes(i, id)') = m
          BY <4>3, <2>3
        <4>5. SourceOf(id) = effects[m].reply.row.source
          BY <3>2, <4>2 DEF SourceOf
        <4>6. SourceOf(id)' = effects'[m].reply.row.source
          BY <3>2, <4>4, Zenon DEF SourceOf
        <4>7. effects'[m] = effects[m]
          BY <1>1
        <4> QED BY <4>5, <4>6, <4>7
      <3> QED BY <3>1, <3>2
    <2> QED BY <2>3, <2>4
  <1> QED BY <1>2, <1>5, <1>6, <1>7

\* A create's effect makes its id known, with the source it was made with.
LEMMA EffectMakes ==
    ASSUME TypeOK, NEW e \in EffectType, effects' = Append(effects, e)
    PROVE  /\ \A id : /\ e.reply.id = id /\ e.confirmed
                      /\ e.reply.code # "deleted" /\ e.reply.row.large
                      => LargeTold(id)'
           /\ \A id \in Id \ Seeded :
                  /\ e.reply.code = "created" /\ e.reply.id = id /\ ~Known(id)
                  => /\ Known(id)' /\ SourceOf(id)' = e.reply.row.source
                     /\ \A i, j \in Effect' : Makes(i, id)' /\ Makes(j, id)' => i = j
  <1>0. PICK n \in Nat : n = Len(effects) + 1
    BY DEF TypeOK
  <1>1. /\ effects \in Seq(EffectType) /\ Effect' = 1..n
        /\ \A i \in Effect : i # n /\ i \in Effect' /\ effects'[i] = effects[i]
        /\ n \in Effect' /\ effects'[n] = e
        /\ \A i \in Effect' : i = n \/ i \in Effect
    BY <1>0, AppendEffect DEF TypeOK, Effect
  <1>2. \A id : /\ e.reply.id = id /\ e.confirmed
                /\ e.reply.code # "deleted" /\ e.reply.row.large
                => LargeTold(id)'
    BY <1>1 DEF LargeTold
  <1>3. ASSUME NEW id \in Id \ Seeded, e.reply.code = "created", e.reply.id = id, ~Known(id)
        PROVE  /\ Known(id)' /\ SourceOf(id)' = e.reply.row.source
               /\ \A i, j \in Effect' : Makes(i, id)' /\ Makes(j, id)' => i = j
    <2>1. \A i \in Effect' : Makes(i, id)' <=> i = n
      BY <1>1, <1>3 DEF Makes, Known
    <2>2. Known(id)'
      BY <1>1, <2>1 DEF Known
    <2>3. (CHOOSE i \in Effect' : Makes(i, id)') = n
      BY <1>1, <2>1
    <2>4. SourceOf(id)' = effects'[n].reply.row.source
      BY <1>3, <2>3, Zenon DEF SourceOf
    <2> QED BY <1>1, <2>1, <2>2, <2>4
  <1> QED BY <1>2, <1>3

\* The commit keeps what is true of the rows: what it writes was in hand.
LEMMA CommitRows ==
    ASSUME TypeOK, HandOK, LocksExclude, LargeInductive, SourceInductive,
           NEW w \in Worker, Commit(w)
    PROVE  LargeInductive' /\ SourceInductive'
  <1> DEFINE e == [key |-> req[w].key, hash |-> Hash(req[w]), at |-> began[w],
                   reply |-> reply[w], confirmed |-> req[w].confirmed]
  <1>1. /\ req[w] \in Request /\ reply[w] \in SuccessReply /\ began[w] \in Nat
        /\ reply[w].id \in Id /\ pc[w] = "commit" /\ change[w] \in Change \cup {Absent}
    BY DEF Commit, HandOK, TypeOK, SuccessReply
  <1>2. e \in EffectType
    <2>1. Hash(req[w]) \in HashType /\ req[w].key \in Key /\ req[w].confirmed \in BOOLEAN
      BY <1>1, RequestInHand DEF RequestType
    <2> QED BY <1>1, <2>1 DEF EffectType
  <1>3. /\ effects' = Append(effects, e) /\ e.reply = reply[w] /\ e.confirmed = req[w].confirmed
        /\ txns' = IF change[w] = Absent THEN txns ELSE [txns EXCEPT ![change[w].id] = change[w].row]
        /\ Elsewhere(w) /\ pc'[w] = "reply"
    BY DEF Commit, GoTo, RollBack, work, Elsewhere, TypeOK
  <1>4. LargeAt(w) /\ SourceAt(w) /\ MadeOnce /\ LargeWasConfirmed /\ SourceNeverChanges
    BY DEF LargeInductive, SourceInductive, LargeInHand, SourceInHand, LargeAt, SourceAt
  <1> HIDE DEF e
  <1>5. /\ \A id : LargeTold(id) => LargeTold(id)'
        /\ \A id : Known(id) => Known(id)'
        /\ \A id : ~Known(id) /\ Known(id)' => reply[w].code = "created" /\ reply[w].id = id
    BY <1>2, <1>3, <1>4, EffectAdded
  <1>6. reply[w].code = "created" =>
            ~Known(reply[w].id) /\ change[w] = [id |-> reply[w].id, row |-> reply[w].row]
    BY <1>1, <1>4 DEF SourceAt
  <1>7. \A id \in Id : Known(id) =>
            /\ SourceOf(id)' = SourceOf(id)
            /\ \A i, j \in Effect' : Makes(i, id)' /\ Makes(j, id)' => i = j
    BY <1>2, <1>3, <1>4, <1>6, EffectAdded
  <1>8. \A id \in Id : reply[w].code = "created" /\ reply[w].id = id =>
            /\ Known(id)' /\ SourceOf(id)' = reply[w].row.source
            /\ \A i, j \in Effect' : Makes(i, id)' /\ Makes(j, id)' => i = j
    BY <1>2, <1>3, <1>6, EffectMakes DEF Known
  <1>9. \A id : /\ reply[w].id = id /\ req[w].confirmed
                /\ reply[w].code # "deleted" /\ reply[w].row.large
                => LargeTold(id)'
    BY <1>2, <1>3, EffectMakes
  <1>10. \A id \in Id :
            \/ txns'[id] = txns[id]
            \/ change[w] # Absent /\ change[w].id = id /\ txns'[id] = change[w].row
    BY <1>1, <1>3 DEF TypeOK
  <1>11. LargeWasConfirmed'
    BY <1>1, <1>4, <1>5, <1>9, <1>10 DEF LargeWasConfirmed, LargeAt
  <1>12. \A id \in Id : txns'[id] # Absent => Known(id)' /\ txns'[id].source = SourceOf(id)'
    <2> SUFFICES ASSUME NEW id \in Id, txns'[id] # Absent
                 PROVE  Known(id)' /\ txns'[id].source = SourceOf(id)'
      OBVIOUS
    <2>1. CASE txns'[id] = txns[id]
      BY <2>1, <1>4, <1>5, <1>7 DEF MadeOnce, SourceNeverChanges
    <2>2. CASE change[w] # Absent /\ change[w].id = id /\ txns'[id] = change[w].row
      <3>1. CASE reply[w].code = "created"
        BY <2>2, <3>1, <1>6, <1>8
      <3>2. CASE reply[w].code # "created"
        BY <2>2, <3>2, <1>1, <1>4, <1>5, <1>7 DEF SourceAt
      <3> QED BY <3>1, <3>2
    <2> QED BY <2>1, <2>2, <1>10
  <1>13. \A id \in Id : \A i, j \in Effect' : Makes(i, id)' /\ Makes(j, id)' => i = j
    <2> SUFFICES ASSUME NEW id \in Id, NEW i \in Effect', NEW j \in Effect',
                        Makes(i, id)', Makes(j, id)'
                 PROVE  i = j
      OBVIOUS
    <2>1. Known(id)'
      BY DEF Known
    <2>2. CASE Known(id)
      BY <2>2, <1>7
    <2>3. CASE ~Known(id)
      BY <2>1, <2>3, <1>5, <1>8
    <2> QED BY <2>2, <2>3
  <1>14. ASSUME NEW v \in Worker PROVE LargeAt(v)' /\ SourceAt(v)'
    <2>1. CASE v = w
      BY <2>1, <1>3, EmptyHanded
    <2>2. CASE v # w
      <3>1. LargeAt(v) /\ SourceAt(v)
        BY DEF LargeInductive, SourceInductive, LargeInHand, SourceInHand, LargeAt, SourceAt
      <3>2. /\ pc'[v] = pc[v] /\ req'[v] = req[v] /\ wanted'[v] = wanted[v]
            /\ change'[v] = change[v] /\ reply'[v] = reply[v]
        BY <2>2, <1>3 DEF Elsewhere
      <3>3. LargeAt(v)'
        BY <3>1, <3>2, <1>5 DEF LargeAt
      <3>4. pc[v] \in {"merge", "flush", "remove"} => req[v].id \in Id
        BY RequestInHand DEF HandOK, TypeOK
      <3>5. pc[v] = "commit" => reply[v].id \in Id /\ change[v] \in Change \cup {Absent}
        BY DEF HandOK, TypeOK, SuccessReply
      <3>6. pc[v] = "commit" /\ reply[v].code = "created" => ~Known(reply[v].id)'
        <4> SUFFICES ASSUME pc[v] = "commit", reply[v].code = "created", Known(reply[v].id)'
                     PROVE  FALSE
          OBVIOUS
        <4>1. ~Known(reply[v].id) /\ change[v] = [id |-> reply[v].id, row |-> reply[v].row]
          BY <3>1 DEF SourceAt
        <4>2. reply[w].code = "created" /\ reply[w].id = reply[v].id
          BY <4>1, <1>5, <3>2
        <4>3. change[v] # Absent /\ change[w] # Absent
          BY <4>1, <4>2, <1>6, <1>1, <3>5, AbsentAssumption DEF Change, HandOK, SuccessReply
        <4>4. HoldsRow(v, reply[v].id) /\ HoldsRow(w, reply[v].id)
          BY <4>1, <4>2, <4>3, <1>6 DEF HoldsRow
        <4> QED BY <4>4, <3>5, <2>2 DEF LocksExclude
      <3>7. SourceAt(v)'
        BY <3>1, <3>2, <3>4, <3>5, <3>6, <1>5, <1>7 DEF SourceAt, Change
      <3> QED BY <3>3, <3>7
    <2> QED BY <2>1, <2>2
  <1>15. LargeInHand' /\ SourceInHand'
    BY <1>14 DEF LargeInHand, SourceInHand, LargeAt, SourceAt
  <1>16. MadeOnce' /\ SourceNeverChanges'
    BY <1>12, <1>13 DEF MadeOnce, SourceNeverChanges
  <1> QED BY <1>11, <1>15, <1>16 DEF LargeInductive, SourceInductive

\* The first rows are the seeded ones, and nothing is in hand.
LEMMA InitRows == Init => LargeInductive /\ SourceInductive
  <1> SUFFICES ASSUME Init PROVE LargeInductive /\ SourceInductive OBVIOUS
  <1>1. LargeWasConfirmed
    BY DEF Init, LargeWasConfirmed
  <1>2. SourceNeverChanges /\ MadeOnce
    BY DEF Init, SourceNeverChanges, SourceOf, MadeOnce, Known, Makes, Effect
  <1>3. LargeInHand /\ SourceInHand
    BY DEF Init, LargeInHand, SourceInHand
  <1> QED BY <1>1, <1>2, <1>3 DEF LargeInductive, SourceInductive

\* Every statement keeps what is true of the rows.
LEMMA StepRows ==
    ASSUME TypeOK, HandOK, LocksExclude, LargeInductive, SourceInductive, [Next]_vars
    PROVE  LargeInductive' /\ SourceInductive'
  <1>1. ASSUME UNCHANGED <<txns, effects, pc, req, wanted, change, reply>>
        PROVE  LargeInductive' /\ SourceInductive'
    <2>1. LargeInductive'
      BY <1>1, SameEffects DEF LargeInductive, LargeWasConfirmed, LargeInHand
    <2>2. SourceInductive'
      BY <1>1, SameEffects
      DEF SourceInductive, SourceNeverChanges, MadeOnce, SourceInHand, Makes, Effect
    <2> QED BY <2>1, <2>2
  <1>2. CASE UNCHANGED vars \/ Tick
    BY <1>1, <1>2 DEF vars, Tick, work
  <1>3. ASSUME NEW w \in Worker, Begin(w) \/ Leave(w)
        PROVE  LargeInductive' /\ SourceInductive'
    <2>1. /\ Elsewhere(w) /\ UNCHANGED <<txns, effects>>
          /\ pc'[w] \notin {"merge", "flush", "remove", "commit"}
      BY <1>3 DEF Begin, Leave, GoTo, RollBack, Elsewhere, TypeOK
    <2> QED BY <2>1, EmptyHanded, HandStep
  <1>4. ASSUME NEW w \in Worker, Serve(w) \/ Vanish(w)
        PROVE  LargeInductive' /\ SourceInductive'
    <2>0. CASE pc[w] = "idle"
      BY <1>3, <1>4, <2>0 DEF Serve, Vanish, FindExpire, FindNothing, FindReused, FindReply,
         ClaimTaken, ClaimWon, Create, UpdateGet, UpdateMerge, UpdateFlush, DeleteGet,
         DeleteRemove, Commit, Respond
    <2> SUFFICES ASSUME pc[w] # "idle" PROVE LargeInductive' /\ SourceInductive'
      BY <2>0
    <2>r. req[w] \in Request /\ req[w] \in RequestType
      BY RequestInHand DEF TypeOK, HandOK
    <2>s. LargeAt(w) /\ SourceAt(w) /\ MadeOnce /\ LargeWasConfirmed /\ SourceNeverChanges
      BY DEF LargeInductive, SourceInductive, LargeInHand, SourceInHand, LargeAt, SourceAt
    <2>1. CASE FindExpire(w) \/ FindNothing(w) \/ FindReply(w) \/ ClaimWon(w)
      <3>1. /\ Elsewhere(w) /\ UNCHANGED <<txns, effects>>
            /\ pc'[w] \notin {"merge", "flush", "remove", "commit"}
        BY <2>1 DEF FindExpire, FindNothing, FindReply, ClaimWon, GoTo, RollBack, Elsewhere,
                    work, TypeOK
      <3> QED BY <3>1, EmptyHanded, HandStep
    <2>2. CASE FindReused(w) \/ ClaimTaken(w)
      BY <2>2, RefuseRows DEF FindReused, ClaimTaken
    <2>d. CASE RefuseDraft(w)
      BY <2>d, RefuseRows DEF RefuseDraft
    <2>3. CASE Create(w) /\ ~RefuseDraft(w)
      <3>1. PICK id \in Id :
              /\ Fresh(id)
              /\ Finish(w, [id |-> id, row |-> CreatedRow(req[w])],
                        Reply("created", id, CreatedRow(req[w])))
        BY <2>3 DEF Create
      <3>2. req[w].draft.large => req[w].confirmed
        BY <2>3 DEF Create, MayWrite, NeedsConfirmation
      <3> DEFINE row == CreatedRow(req[w])
      <3>3. row.large = req[w].draft.large
        BY DEF CreatedRow
      <3> HIDE DEF row
      <3>4. /\ Elsewhere(w) /\ UNCHANGED <<txns, effects>> /\ pc'[w] = "commit"
            /\ change'[w] = [id |-> id, row |-> row] /\ reply'[w] = Reply("created", id, row)
            /\ req'[w] = req[w]
        BY <3>1, FinishRows DEF row
      <3>5. LargeAt(w)'
        BY <3>2, <3>3, <3>4 DEF LargeAt, Reply
      <3>6. ~Known(id)
        BY <3>1 DEF Fresh, Known, Makes, Effect
      <3>7. SourceAt(w)'
        BY <3>4, <3>6, SameEffects DEF SourceAt, Reply
      <3> QED BY <3>4, <3>5, <3>7, HandStep
    <2>4. CASE UpdateGet(w) /\ ~RefuseDraft(w)
      <3>1. CASE Refuse(w, "not_found")
        BY <3>1, RefuseRows
      <3>2. CASE ~Refuse(w, "not_found")
        <4> DEFINE row == UpdatedRow(req[w], txns[req[w].id])
        <4>1. /\ wanted' = [wanted EXCEPT ![w] = row] /\ pc' = [pc EXCEPT ![w] = "merge"]
              /\ UNCHANGED <<txns, effects, req, change, reply>>
              /\ req[w].op = "update" /\ txns[req[w].id] # Absent
              /\ req[w].draft.large => req[w].confirmed
          BY <2>4, <3>2 DEF UpdateGet, GoTo, MayWrite, NeedsConfirmation
        <4>2. row.large = req[w].draft.large /\ row.source = txns[req[w].id].source
          BY DEF UpdatedRow
        <4> HIDE DEF row
        <4>3. /\ Elsewhere(w) /\ pc'[w] = "merge" /\ wanted'[w] = row /\ req'[w] = req[w]
          BY <4>1 DEF Elsewhere, TypeOK
        <4>4. LargeAt(w)'
          BY <4>1, <4>2, <4>3 DEF LargeAt
        <4>5. req[w].id \in Id /\ Known(req[w].id) /\ row.source = SourceOf(req[w].id)
          BY <2>r, <2>s, <4>1, <4>2, RequestInHand DEF MadeOnce, SourceNeverChanges
        <4>6. SourceAt(w)'
          BY <4>1, <4>3, <4>5, SameEffects DEF SourceAt
        <4> QED BY <4>1, <4>3, <4>4, <4>6, HandStep
      <3> QED BY <3>1, <3>2
    <2>5. CASE UpdateMerge(w)
      <3>1. /\ Elsewhere(w) /\ UNCHANGED <<txns, effects, req, wanted>>
            /\ pc[w] = "merge" /\ pc'[w] = "flush"
        BY <2>5 DEF UpdateMerge, GoTo, Elsewhere, TypeOK
      <3>2. LargeAt(w)' /\ SourceAt(w)'
        BY <2>s, <3>1, SameEffects DEF LargeAt, SourceAt
      <3> QED BY <3>1, <3>2, HandStep
    <2>6. CASE UpdateFlush(w)
      <3> DEFINE id == req[w].id
                 mixed == WrittenOver(txns[id], loaded[w], wanted[w])
      <3>0. pc[w] = "flush" /\ id \in Id /\ Known(id) /\ wanted[w].source = SourceOf(id)
            /\ (wanted[w].large => req[w].confirmed)
        BY <2>6, <2>r, <2>s, RequestInHand DEF UpdateFlush, LargeAt, SourceAt, HandOK
      <3>1. CASE Refuse(w, "internal_error")
        BY <3>1, RefuseRows
      <3>2. ASSUME NEW c, Finish(w, c, UpdateReply(w)), c # Absent => c.id = id,
                   c # Absent =>
                       /\ c.row # Absent => c.row.source = SourceOf(id)
                       /\ c.row # Absent /\ c.row.large /\ ~SeedRow.large =>
                              LargeTold(id) \/ wanted[w].large
            PROVE  LargeInductive' /\ SourceInductive'
        <4>1. /\ Elsewhere(w) /\ UNCHANGED <<txns, effects>> /\ pc'[w] = "commit"
              /\ change'[w] = c /\ reply'[w] = UpdateReply(w) /\ req'[w] = req[w]
          BY <3>2, FinishRows
        <4>2. UpdateReply(w).id = id /\ UpdateReply(w).code = "updated"
              /\ UpdateReply(w).row = wanted[w]
          BY DEF UpdateReply, Reply
        <4>3. LargeAt(w)'
          BY <3>0, <3>2, <4>1, <4>2, SameEffects DEF LargeAt
        <4>4. SourceAt(w)'
          BY <3>0, <3>2, <4>1, <4>2, SameEffects DEF SourceAt
        <4> QED BY <4>1, <4>3, <4>4, HandStep
      <3>3. CASE Finish(w, Absent, UpdateReply(w))
        BY <3>2, <3>3
      <3>4. CASE Finish(w, [id |-> id, row |-> wanted[w]], UpdateReply(w))
        BY <3>0, <3>2, <3>4
      <3>5. CASE txns[id] # Absent /\ Finish(w, [id |-> id, row |-> mixed], UpdateReply(w))
        <4>1. mixed.source \in {txns[id].source, wanted[w].source}
          BY DEF WrittenOver, Column
        <4>2. mixed.large => txns[id].large \/ wanted[w].large
          BY DEF WrittenOver, Column
        <4>3. txns[id].source = SourceOf(id)
          BY <3>0, <3>5, <2>s DEF SourceNeverChanges
        <4>4. txns[id].large /\ ~SeedRow.large => LargeTold(id)
          BY <3>0, <3>5, <2>s DEF LargeWasConfirmed
        <4> QED BY <3>0, <3>2, <3>5, <4>1, <4>2, <4>3, <4>4
      <3> QED BY <2>6, <3>1, <3>3, <3>4, <3>5 DEF UpdateFlush
    <2>7. CASE DeleteGet(w)
      <3>1. CASE Refuse(w, "not_found") \/ Refuse(w, "confirmation_required")
        BY <3>1, RefuseRows
      <3>2. CASE ~(Refuse(w, "not_found") \/ Refuse(w, "confirmation_required"))
        <4>1. /\ Elsewhere(w) /\ UNCHANGED <<txns, effects, req>> /\ pc'[w] = "remove"
              /\ req[w].op = "delete" /\ txns[req[w].id] # Absent
          BY <2>7, <3>2 DEF DeleteGet, GoTo, work, Elsewhere, TypeOK
        <4>2. Known(req[w].id)
          BY <4>1, <2>r, <2>s, RequestInHand DEF MadeOnce
        <4>3. LargeAt(w)' /\ SourceAt(w)'
          BY <4>1, <4>2, SameEffects DEF LargeAt, SourceAt
        <4> QED BY <4>1, <4>3, HandStep
      <3> QED BY <3>1, <3>2
    <2>8. CASE DeleteRemove(w)
      <3> DEFINE c == IF txns[req[w].id] = Absent THEN Absent ELSE [id |-> req[w].id, row |-> Absent]
                 p == Reply("deleted", req[w].id, Absent)
      <3>1. /\ Elsewhere(w) /\ UNCHANGED <<txns, effects>> /\ pc'[w] = "commit"
            /\ change'[w] = c /\ reply'[w] = p /\ req'[w] = req[w]
        BY <2>8, FinishRows DEF DeleteRemove
      <3>2. p.code = "deleted" /\ (c # Absent => c.row = Absent /\ c.id = req[w].id)
        BY DEF Reply
      <3>3. Known(req[w].id)
        BY <2>8, <2>s DEF DeleteRemove, SourceAt
      <3> HIDE DEF c, p
      <3>4. LargeAt(w)' /\ SourceAt(w)'
        BY <3>1, <3>2, <3>3, SameEffects DEF LargeAt, SourceAt
      <3> QED BY <3>1, <3>4, HandStep
    <2>9. CASE Commit(w)
      BY <2>9, CommitRows
    <2>10. CASE Respond(w) \/ Vanish(w)
      BY <2>10, <1>3 DEF Respond, Vanish
    <2> QED
      BY <1>4, <2>1, <2>2, <2>d, <2>3, <2>4, <2>5, <2>6, <2>7, <2>8, <2>9, <2>10 DEF Serve
  <1> QED BY <1>2, <1>3, <1>4 DEF Next

\* What is true of the rows in the ledger and in hand, always.
LEMMA RowsInvariant == Spec => [](LargeInductive /\ SourceInductive)
  <1>1. Init => LargeInductive /\ SourceInductive
    BY InitRows
  <1>2. /\ Inductive /\ LargeInductive /\ SourceInductive /\ [Next]_vars
        => (LargeInductive /\ SourceInductive)'
    BY StepRows DEF Inductive
  <1> QED BY <1>1, <1>2, InductiveInvariant, PTL DEF Spec

\* A large amount is in the ledger only after a confirmed write that told it, though two
\* overlapping updates may leave a row that neither of them asked for.
THEOREM LargeIsConfirmed == Spec => []LargeWasConfirmed
  <1>1. LargeInductive => LargeWasConfirmed
    BY DEF LargeInductive
  <1> QED BY <1>1, RowsInvariant, PTL

\* The source of a transaction is the one it was first entered with, through every mixture of
\* updates, deletes and a return after a delete.
THEOREM SourceStands == Spec => []SourceNeverChanges
  <1>1. SourceInductive => SourceNeverChanges
    BY DEF SourceInductive
  <1> QED BY <1>1, RowsInvariant, PTL

-----------------------------------------------------------------------------
(* The api implements OncePerKey *)

\* A step of one worker changes only what that worker is telling.
LEMMA ToldBy ==
    ASSUME TypeOK, TypeOK', NEW w \in Worker,
           \A v \in Worker \ {w} : pc'[v] = pc[v] /\ req'[v] = req[v] /\ reply'[v] = reply[v]
    PROVE  told' = [told EXCEPT ![w] = Telling(w)']
  <1>1. \A v \in Worker \ {w} : Telling(v)' = Telling(v)
    BY DEF Telling, IsSuccess, Hash
  <1> QED BY <1>1 DEF told

\* A worker that rolls back and says no takes the step Refuse of the promise.
LEMMA RefuseKeeps ==
    ASSUME Inductive, TypeOK', NEW w \in Worker, req[w] \in Request, NEW code \in RefusalCode,
           Refuse(w, code),
           code = "request_in_progress" => \E i \in Effect : effects[i].key = req[w].key
    PROVE  Promise!Next
  <1>0. TypeOK
    BY DEF Inductive
  <1>1. told' = [told EXCEPT ![w] = Telling(w)']
    BY <1>0, ToldBy DEF Refuse, work, TypeOK
  <1>2. Telling(w)' = [kind |-> "refused", key |-> req[w].key, code |-> code]
    <2>1. pc'[w] = "reply" /\ reply'[w] = Refusal(code) /\ req'[w] = req[w]
      BY <1>0 DEF Refuse, work, TypeOK
    <2> QED BY <2>1 DEF Telling, IsSuccess, Refusal, Reply, RefusalCode
  <1>3. req[w].key \in Key
    BY RequestInHand DEF RequestType
  <1>4. UNCHANGED <<clock, effects>>
    BY DEF Refuse
  <1>5. Promise!Refuse(w)
    BY <1>1, <1>2, <1>3, <1>4 DEF Promise!Refuse, Promise!Refused, Promise!RunsOf, Effect
  <1> QED BY <1>5 DEF Promise!Next

\* A statement that tells nobody anything and commits nothing is no step of the promise.
LEMMA SilentKeeps ==
    ASSUME TypeOK, TypeOK', NEW w \in Worker, pc[w] # "reply", pc'[w] # "reply",
           UNCHANGED <<clock, effects>>,
           \A v \in Worker \ {w} : pc'[v] = pc[v] /\ req'[v] = req[v] /\ reply'[v] = reply[v]
    PROVE  UNCHANGED Promise!vars
  <1>1. Telling(w)' = Telling(w)
    BY DEF Telling
  <1>2. told' = [told EXCEPT ![w] = Telling(w)']
    BY ToldBy
  <1>3. told' = told
    BY <1>1, <1>2 DEF told
  <1> QED BY <1>3 DEF Promise!vars

\* The last statement of a use case, before its commit, is no step of the promise.
LEMMA FinishKeeps ==
    ASSUME TypeOK, TypeOK', NEW w \in Worker, NEW c, NEW p, Finish(w, c, p), pc[w] # "reply"
    PROVE  UNCHANGED Promise!vars
  <1>1. pc'[w] # "reply" /\ UNCHANGED <<clock, effects>>
    BY DEF Finish, GoTo, TypeOK
  <1>2. \A v \in Worker \ {w} : pc'[v] = pc[v] /\ req'[v] = req[v] /\ reply'[v] = reply[v]
    BY DEF Finish, GoTo, work, TypeOK
  <1> QED BY <1>1, <1>2, SilentKeeps

\* Every step of the write path is a step of the promise or none: the commit executes, a
\* replay replays, a refusal refuses, a death hangs up.
LEMMA StepKeeps ==
    ASSUME Inductive, Inductive', [Next]_vars
    PROVE  [Promise!Next]_(Promise!vars)
  <1>0. TypeOK /\ HandOK /\ TypeOK' /\ HandOK'
    BY DEF Inductive
  <1>1. CASE UNCHANGED vars
    <2>1. told' = told
      BY <1>1 DEF vars, told, Telling, IsSuccess, Hash
    <2> QED BY <1>1, <2>1 DEF vars, Promise!vars
  <1>2. CASE Tick
    <2>1. told' = told
      BY <1>2 DEF Tick, work, told, Telling, IsSuccess, Hash
    <2> QED BY <1>2, <2>1 DEF Tick, Promise!Next, Promise!Advance
  <1>3. ASSUME NEW w \in Worker, Begin(w)
        PROVE  UNCHANGED Promise!vars
    <2>1. /\ pc[w] # "reply" /\ pc'[w] # "reply" /\ UNCHANGED <<clock, effects>>
          /\ \A v \in Worker \ {w} : pc'[v] = pc[v] /\ req'[v] = req[v] /\ reply'[v] = reply[v]
      BY <1>0, <1>3 DEF Begin, GoTo, TypeOK
    <2> QED BY <1>0, <2>1, SilentKeeps
  <1>4. ASSUME NEW w \in Worker, Leave(w)
        PROVE  Promise!Next
    <2>1. pc'[w] = "idle" /\ UNCHANGED <<clock, effects>>
      BY <1>0, <1>4 DEF Leave, GoTo, TypeOK
    <2>2. \A v \in Worker \ {w} : pc'[v] = pc[v] /\ req'[v] = req[v] /\ reply'[v] = reply[v]
      BY <1>0, <1>4 DEF Leave, GoTo, TypeOK
    <2>3. told' = [told EXCEPT ![w] = Telling(w)']
      BY <1>0, <2>2, ToldBy
    <2>4. Telling(w)' = [kind |-> "nothing"]
      BY <2>1 DEF Telling
    <2>5. Promise!HangUp(w)
      BY <2>1, <2>3, <2>4 DEF Promise!HangUp, Promise!Silence
    <2> QED BY <2>5 DEF Promise!Next
  <1>5. ASSUME NEW w \in Worker, Serve(w) \/ Vanish(w)
        PROVE  Promise!Next \/ UNCHANGED Promise!vars
    <2>0. CASE Respond(w) \/ Vanish(w)
      BY <2>0, <1>4 DEF Respond, Vanish
    <2> SUFFICES ASSUME ~(Respond(w) \/ Vanish(w))
                 PROVE  Promise!Next \/ UNCHANGED Promise!vars
      BY <2>0
    <2>r. pc[w] # "idle" /\ pc[w] # "reply" /\ req[w] \in Request
      <3>1. pc[w] # "idle" /\ pc[w] # "reply"
        BY <1>5 DEF Serve, FindExpire, FindNothing, FindReused, FindReply,
         ClaimTaken, ClaimWon, Create, UpdateGet, UpdateMerge, UpdateFlush, DeleteGet,
         DeleteRemove, Commit
      <3> QED BY <3>1, <1>0 DEF TypeOK, HandOK
    <2>k. req[w].key \in Key
      BY <2>r, RequestInHand DEF RequestType
    <2>1. ASSUME NEW label \in Label, label # "reply", pc' = [pc EXCEPT ![w] = label],
                 UNCHANGED <<clock, effects, req, reply>>
          PROVE  UNCHANGED Promise!vars
      <3>1. pc'[w] # "reply" /\ \A v \in Worker \ {w} : pc'[v] = pc[v]
        BY <1>0, <2>1 DEF TypeOK
      <3> QED BY <1>0, <2>1, <2>r, <3>1, SilentKeeps
    <2>2. CASE FindExpire(w) \/ FindNothing(w) \/ ClaimWon(w) \/ UpdateMerge(w)
      BY <2>1, <2>2 DEF FindExpire, FindNothing, ClaimWon, UpdateMerge, GoTo, Label, work
    <2>3. ASSUME NEW code \in RefusalCode, code # "request_in_progress", Refuse(w, code)
          PROVE  Promise!Next
      BY <1>0, <2>3, <2>r, RefuseKeeps
    <2>4. CASE FindReused(w)
      BY <2>3, <2>4 DEF FindReused, RefusalCode
    <2>5. CASE RefuseDraft(w)
      BY <2>3, <2>5 DEF RefuseDraft, RefusalCode
    <2>6. CASE ClaimTaken(w)
      <3>1. \E i \in Effect : effects[i].key = req[w].key
        BY <2>6, <2>k DEF ClaimTaken, Inductive, KeysFollowEffects
      <3> QED BY <1>0, <2>6, <2>r, <3>1, RefuseKeeps DEF ClaimTaken, RefusalCode
    <2>7. CASE FindReply(w)
      <3> DEFINE p == keys[req[w].key].reply
      <3>1. /\ pc'[w] = "reply" /\ reply'[w] = p /\ req'[w] = req[w]
            /\ keys[req[w].key] # Absent /\ keys[req[w].key].hash = Hash(req[w])
            /\ UNCHANGED <<clock, effects>>
            /\ \A v \in Worker \ {w} : pc'[v] = pc[v] /\ req'[v] = req[v] /\ reply'[v] = reply[v]
        BY <1>0, <2>7 DEF FindReply, GoTo, RollBack, work, TypeOK
      <3>2. PICK i \in Effect : /\ effects[i].key = req[w].key
                                /\ effects[i].hash = Hash(req[w])
                                /\ effects[i].reply = p
        BY <3>1, <2>k DEF Inductive, KeysFollowEffects
      <3>3. IsSuccess(p)
        <4>1. keys[req[w].key] \in KeyRow
          BY <1>0, <2>k, <3>1 DEF TypeOK
        <4> QED BY <4>1, AbsentAssumption DEF KeyRow, IsSuccess, SuccessReply, AnyReply
      <3>4. Telling(w)' = [kind |-> "success", key |-> effects[i].key,
                           hash |-> effects[i].hash, reply |-> effects[i].reply]
        BY <3>1, <3>2, <3>3 DEF Telling, IsSuccess, Hash
      <3>5. told' = [told EXCEPT ![w] = Telling(w)']
        BY <1>0, <3>1, ToldBy
      <3>6. Promise!Replay(w)
        BY <3>1, <3>4, <3>5 DEF Promise!Replay, Promise!RunsOf, Promise!Success, Effect
      <3> QED BY <3>6 DEF Promise!Next
    <2>8. CASE Create(w)
      <3>1. CASE ~RefuseDraft(w)
        BY <1>0, <2>8, <2>r, <3>1, FinishKeeps DEF Create
      <3> QED BY <2>5, <3>1
    <2>9. CASE UpdateGet(w)
      <3>1. CASE Refuse(w, "not_found")
        BY <2>3, <3>1 DEF RefusalCode
      <3>2. CASE ~RefuseDraft(w) /\ ~Refuse(w, "not_found")
        BY <2>1, <2>9, <3>2 DEF UpdateGet, GoTo, Label
      <3> QED BY <2>5, <3>1, <3>2
    <2>10. CASE UpdateFlush(w)
      <3>1. CASE Refuse(w, "internal_error")
        BY <2>3, <3>1 DEF RefusalCode
      <3>2. CASE ~Refuse(w, "internal_error")
        BY <1>0, <2>10, <2>r, <3>2, FinishKeeps DEF UpdateFlush
      <3> QED BY <3>1, <3>2
    <2>11. CASE DeleteGet(w)
      <3>1. CASE Refuse(w, "not_found") \/ Refuse(w, "confirmation_required")
        BY <2>3, <3>1 DEF RefusalCode
      <3>2. CASE ~(Refuse(w, "not_found") \/ Refuse(w, "confirmation_required"))
        BY <2>1, <2>11, <3>2 DEF DeleteGet, GoTo, Label, work
      <3> QED BY <3>1, <3>2
    <2>12. CASE DeleteRemove(w)
      BY <1>0, <2>12, <2>r, FinishKeeps DEF DeleteRemove
    <2>13. CASE Commit(w)
      <3> DEFINE e == [key |-> req[w].key, hash |-> Hash(req[w]), at |-> began[w],
                       reply |-> reply[w], confirmed |-> req[w].confirmed]
                 n == Len(effects) + 1
      <3>1. /\ pc[w] = "commit" /\ pc'[w] = "reply" /\ effects' = Append(effects, e)
            /\ UNCHANGED <<clock, req, reply>>
            /\ \A v \in Worker \ {w} : pc'[v] = pc[v]
        BY <1>0, <2>13 DEF Commit, GoTo, work, TypeOK
      <3>2. reply[w] \in SuccessReply /\ began[w] <= clock
        BY <1>0, <3>1 DEF HandOK
      <3>3. e \in EffectType
        BY <1>0, <2>r, <3>2, RequestInHand DEF EffectType, RequestType, TypeOK
      <3>4. /\ n \in Effect' /\ Effect' = 1..n /\ effects'[n] = e
            /\ \A i \in Effect : i < n /\ i \in Effect' /\ effects'[i] = effects[i]
        BY <1>0, <3>1, <3>3, AppendEffect DEF TypeOK, Effect
      <3>5. e.key = req[w].key /\ e.hash = Hash(req[w]) /\ e.reply = reply[w] /\ e.at = began[w]
        OBVIOUS
      <3>a. e \in Promise!RunsOf(effects')
        BY <3>4 DEF Promise!RunsOf, Effect
      <3>b. \A i \in 1..Len(effects) : effects[i].key = e.key => effects[i].at + Retention < e.at
        <4> SUFFICES ASSUME NEW i \in Effect, effects[i].key = e.key
                     PROVE  effects[i].at + Retention < e.at
          BY DEF Effect
        <4> HIDE DEF e, n
        <4>1. effects'[i].key = effects'[n].key /\ i < n /\ i \in Effect' /\ n \in Effect'
          BY <3>4
        <4>2. effects'[i].at + Retention < effects'[n].at
          BY <4>1 DEF Inductive, OneEffectPerKey
        <4> QED BY <4>2, <3>4
      <3>6. Promise!MayRun(e.key, e.at)
        BY <3>b DEF Promise!MayRun
      <3> HIDE DEF e, n
      <3>7. Telling(w)' = [kind |-> "success", key |-> e.key, hash |-> e.hash, reply |-> e.reply]
        <4>1. IsSuccess(reply[w])
          BY <3>2, AbsentAssumption DEF IsSuccess, SuccessReply, AnyReply
        <4> QED BY <3>1, <3>5, <4>1 DEF Telling, IsSuccess, Hash
      <3>8. told' = [told EXCEPT ![w] = Telling(w)']
        BY <1>0, <3>1, ToldBy
      <3>9. Promise!Execute(w)
        BY <3>1, <3>2, <3>5, <3>6, <3>7, <3>8, <3>a DEF Promise!Execute, Promise!Success
      <3> QED BY <3>9 DEF Promise!Next
    <2> QED
      BY <1>5, <2>2, <2>4, <2>6, <2>7, <2>8, <2>9, <2>10, <2>11, <2>12, <2>13 DEF Serve
  <1> QED BY <1>1, <1>2, <1>3, <1>5 DEF Next

\* Statement by statement, over any number of workers and keys, the write path of the api is
\* an implementation of the promise.
THEOREM ImplementsPromise == Spec => KeepsPromise
  <1>1. Init => Promise!Init
    BY DEF Init, Promise!Init, Promise!Silence, told, Telling
  <1>2. Inductive /\ Inductive' /\ [Next]_vars => [Promise!Next]_(Promise!vars)
    BY StepKeeps
  <1> QED BY <1>1, <1>2, InductiveInvariant, PTL DEF Spec, KeepsPromise, Promise!Spec
=============================================================================
