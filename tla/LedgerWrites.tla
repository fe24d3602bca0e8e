---------------------------- MODULE LedgerWrites ----------------------------
(***************************************************************************)
(* The write path of the ledger api: POST, PATCH and DELETE of a           *)
(* transaction behind IdempotentWrite.  One worker is one request being    *)
(* served: one SqlUnitOfWork, one PostgreSQL transaction at READ           *)
(* COMMITTED.  An action is one SQL statement with the Python code that    *)
(* leads to it, so that two requests interleave at every point where the   *)
(* database lets them.                                                     *)
(*                                                                         *)
(* A statement sees what is committed plus the worker's own changes, and   *)
(* waits (is not enabled) while another worker holds the row it writes.    *)
(***************************************************************************)
EXTENDS Integers, Sequences, FiniteSets

CONSTANTS
    Worker,       \* requests the server can serve at one time
    Key,          \* idempotency keys the callers make
    Id,           \* transaction ids
    Category,     \* the category table
    DirectionOf,  \* category -> its direction
    Request,      \* the requests the callers send
    Seeded,       \* ids of the transactions that are there at the start
    SeedRow,      \* their row
    Retention,    \* _RETENTION: how long a key lives
    Absent,       \* no row, no id, no body
    MaxTime,      \* bound: the clock stops here
    MaxEffects    \* bound: writes that take effect

Direction == {"expense", "income"}
Draft == [direction : Direction, category : Category, large : BOOLEAN]
Row == [direction : Direction, category : Category, large : BOOLEAN,
        source : {"manual", "agent"}]
\* `agent` stands for X-Agent-Run-Id, `confirmed` for X-Confirmed-By: user.
RequestType ==
    [key : Key, op : {"create", "update", "delete"}, id : Id \cup {Absent},
     draft : Draft \cup {Absent}, agent : BOOLEAN, confirmed : BOOLEAN]
SuccessReply ==
    [code : {"created", "updated", "deleted"}, id : Id, row : Row \cup {Absent}]
RefusalCode ==
    {"idempotency_key_reused", "request_in_progress", "validation_error",
     "confirmation_required", "not_found", "internal_error"}
RefusalReply == [code : RefusalCode, id : {Absent}, row : {Absent}]
AnyReply == SuccessReply \cup RefusalReply
HashType ==
    {"create", "update", "delete"} \X (Id \cup {Absent}) \X (Draft \cup {Absent}) \X BOOLEAN
KeyRow == [hash : HashType, reply : SuccessReply, at : Nat]
Change == [id : Id, row : Row \cup {Absent}]
EffectType ==
    [key : Key, hash : HashType, at : Nat, reply : SuccessReply, confirmed : BOOLEAN]

ASSUME TimeAssumption == Retention \in Nat /\ MaxTime \in Nat /\ MaxEffects \in Nat
ASSUME CatalogAssumption == DirectionOf \in [Category -> Direction]
ASSUME RowAssumption == SeedRow \in Row /\ Seeded \subseteq Id
ASSUME AbsentAssumption ==
    /\ Absent \notin Id /\ Absent \notin Row /\ Absent \notin Draft
    /\ Absent \notin RequestType /\ Absent \notin KeyRow
    /\ Absent \notin Change /\ Absent \notin AnyReply
ASSUME RequestAssumption ==
    /\ Request \subseteq RequestType
    /\ \A r \in Request :
          /\ r.op = "create" <=> r.id = Absent
          /\ r.op = "delete" <=> r.draft = Absent

VARIABLES
    clock,    \* now() of the database server
    txns,     \* the committed rows of transactions: id -> row or Absent
    keys,     \* the committed rows of idempotency_keys: key -> row or Absent
    effects,  \* the writes that were committed, in commit order
    pc,       \* worker -> the statement it runs next
    req,      \* worker -> its request
    began,    \* worker -> when its database transaction began
    freed,    \* worker -> its transaction has deleted the expired key row
    wanted,   \* worker -> the row an update wants to leave
    loaded,   \* worker -> the row merge() read
    change,   \* worker -> its uncommitted change of transactions: [id, row] or Absent
    reply     \* worker -> the reply it is about to send, or Absent

work == <<req, began, wanted, loaded>>
vars == <<clock, txns, keys, effects, pc, req, began, freed, wanted, loaded, change, reply>>

(***************************************************************************)
(* Requests and replies                                                    *)
(***************************************************************************)

\* WriteHeaders.request_hash: method, path, body and run id; not the confirmation.
Hash(r) == <<r.op, r.id, r.draft, r.agent>>

Reply(code, id, row) == [code |-> code, id |-> id, row |-> row]
Refusal(code) == Reply(code, Absent, Absent)
IsSuccess(p) == p # Absent /\ p.code \in {"created", "updated", "deleted"}

\* The category exists and fits the direction; the other rules of a draft are of one row.
CheckDraft(d) == DirectionOf[d.category] = d.direction

\* (mistake) Only a create asks for confirmation.
NeedsConfirmation_OnCreate(r) == r.op = "create" /\ r.draft.large /\ ~r.confirmed

NeedsConfirmation(r) == r.draft.large /\ ~r.confirmed

\* (mistake) The draft is stored as it came, without its source.
CreatedRow_NoSource(r) == r.draft

CreatedRow(r) ==
    [direction |-> r.draft.direction, category |-> r.draft.category, large |-> r.draft.large,
     source |-> IF r.agent THEN "agent" ELSE "manual"]

\* (mistake) An update takes the source of its own request.
UpdatedRow_OwnSource(r, existing) == CreatedRow(r)

\* dataclasses.replace: the source stays the one of the row that was read.
UpdatedRow(r, existing) ==
    [direction |-> r.draft.direction, category |-> r.draft.category, large |-> r.draft.large,
     source |-> existing.source]

(***************************************************************************)
(* Locks: the rows an uncommitted transaction has changed                  *)
(***************************************************************************)

HasClaimed(v) == pc[v] \in {"perform", "merge", "flush", "remove", "commit"}
HoldsKey(v, k) == req[v] # Absent /\ req[v].key = k /\ (freed[v] \/ HasClaimed(v))
HoldsRow(v, id) == change[v] # Absent /\ change[v].id = id

\* (mistake) The key is claimed in a transaction of its own, which waits for the deletion too.
KeyIsFree_OwnTransaction(w) == \A v \in Worker : ~HoldsKey(v, req[w].key)

KeyIsFree(w) == \A v \in Worker \ {w} : ~HoldsKey(v, req[w].key)
RowIsFree(w, id) == \A v \in Worker \ {w} : ~HoldsRow(v, id)

\* uuid4: an id that no row has had and no running transaction has taken.
Fresh(id) ==
    /\ id \notin Seeded
    /\ \A i \in 1..Len(effects) : effects[i].reply.id # id
    /\ \A v \in Worker : ~HoldsRow(v, id)

(***************************************************************************)
(* Steps of a worker                                                       *)
(***************************************************************************)

\* (mistake) The rollback leaves the deletion of the expired key row behind.
RollBack_KeepsFreed(w) ==
    /\ change' = [change EXCEPT ![w] = Absent]
    /\ UNCHANGED freed

\* Leaving the unit of work without commit: everything is rolled back.
RollBack(w) ==
    /\ freed' = [freed EXCEPT ![w] = FALSE]
    /\ change' = [change EXCEPT ![w] = Absent]

Refuse(w, code) ==
    /\ RollBack(w)
    /\ reply' = [reply EXCEPT ![w] = Refusal(code)]
    /\ pc' = [pc EXCEPT ![w] = "reply"]
    /\ UNCHANGED <<clock, txns, keys, effects, work>>

GoTo(w, label) == pc' = [pc EXCEPT ![w] = label]

Begin(w) ==
    /\ pc[w] = "idle"
    /\ Len(effects) + Cardinality({v \in Worker : pc[v] # "idle"}) < MaxEffects
    /\ \E r \in Request : req' = [req EXCEPT ![w] = r]
    /\ began' = [began EXCEPT ![w] = clock]
    /\ GoTo(w, "expire")
    /\ UNCHANGED <<clock, txns, keys, effects, freed, wanted, loaded, change, reply>>

\* (mistake) A key dies at Retention instead of after it.
KeyExpired_AtRetention(w) ==
    /\ keys[req[w].key] # Absent
    /\ keys[req[w].key].at + Retention <= began[w]

KeyExpired(w) ==
    /\ keys[req[w].key] # Absent
    /\ keys[req[w].key].at + Retention < began[w]

\* find(), first statement: the expired row of this key is deleted on the way.
FindExpire(w) ==
    /\ pc[w] = "expire"
    /\ KeyExpired(w) => KeyIsFree(w)
    /\ freed' = [freed EXCEPT ![w] = KeyExpired(w)]
    /\ GoTo(w, "lookup")
    /\ UNCHANGED <<clock, txns, keys, effects, work, change, reply>>

\* find(), second statement, and what IdempotentWrite makes of its result.
FindNothing(w) ==
    /\ pc[w] = "lookup"
    /\ freed[w] \/ keys[req[w].key] = Absent
    /\ GoTo(w, "claim")
    /\ UNCHANGED <<clock, txns, keys, effects, work, freed, change, reply>>

FindReused(w) ==
    /\ pc[w] = "lookup"
    /\ ~freed[w] /\ keys[req[w].key] # Absent
    /\ keys[req[w].key].hash # Hash(req[w])
    /\ Refuse(w, "idempotency_key_reused")

\* (mistake) The stored reply is replayed to whatever request carries the key.
FindReply_AnyRequest(w) ==
    /\ pc[w] = "lookup"
    /\ ~freed[w] /\ keys[req[w].key] # Absent
    /\ reply' = [reply EXCEPT ![w] = keys[req[w].key].reply]
    /\ GoTo(w, "reply")
    /\ RollBack(w)
    /\ UNCHANGED <<clock, txns, keys, effects, work>>

FindReply(w) ==
    /\ pc[w] = "lookup"
    /\ ~freed[w] /\ keys[req[w].key] # Absent
    /\ keys[req[w].key].hash = Hash(req[w])
    /\ reply' = [reply EXCEPT ![w] = keys[req[w].key].reply]
    /\ GoTo(w, "reply")
    /\ RollBack(w)
    /\ UNCHANGED <<clock, txns, keys, effects, work>>

\* (mistake) A running holder of the key is not waited for.
ClaimTaken_AtOnce(w) ==
    /\ pc[w] = "claim"
    /\ ~KeyIsFree(w) \/ (~freed[w] /\ keys[req[w].key] # Absent)
    /\ Refuse(w, "request_in_progress")

\* claim(): the INSERT waits for a running holder of the key, then fails or goes in.
ClaimTaken(w) ==
    /\ pc[w] = "claim"
    /\ KeyIsFree(w)
    /\ ~freed[w] /\ keys[req[w].key] # Absent
    /\ Refuse(w, "request_in_progress")

\* (mistake) The INSERT is not flushed: the key is taken without waiting for its holder.
ClaimWon_NoFlush(w) ==
    /\ pc[w] = "claim"
    /\ freed[w] \/ keys[req[w].key] = Absent
    /\ GoTo(w, "perform")
    /\ UNCHANGED <<clock, txns, keys, effects, work, freed, change, reply>>

ClaimWon(w) ==
    /\ pc[w] = "claim"
    /\ KeyIsFree(w)
    /\ freed[w] \/ keys[req[w].key] = Absent
    /\ GoTo(w, "perform")
    /\ UNCHANGED <<clock, txns, keys, effects, work, freed, change, reply>>

\* Check, then confirmation: the order in which create and update refuse a draft.
RefuseDraft(w) ==
    \/ ~CheckDraft(req[w].draft) /\ Refuse(w, "validation_error")
    \/ /\ CheckDraft(req[w].draft) /\ NeedsConfirmation(req[w])
       /\ Refuse(w, "confirmation_required")

MayWrite(w) == CheckDraft(req[w].draft) /\ ~NeedsConfirmation(req[w])

\* perform(): what the use case left for the commit, and the reply it built.
Finish(w, changed, answer) ==
    /\ change' = [change EXCEPT ![w] = changed]
    /\ reply' = [reply EXCEPT ![w] = answer]
    /\ GoTo(w, "commit")
    /\ UNCHANGED <<clock, txns, keys, effects, work, freed>>

Create(w) ==
    /\ pc[w] = "perform" /\ req[w].op = "create"
    /\ \/ RefuseDraft(w)
       \/ /\ MayWrite(w)
          /\ \E id \in Id :
                /\ Fresh(id)
                /\ Finish(w, [id |-> id, row |-> CreatedRow(req[w])],
                          Reply("created", id, CreatedRow(req[w])))

\* UpdateTransaction: get, the checks, then replace() with the row that was read.
UpdateGet(w) ==
    /\ pc[w] = "perform" /\ req[w].op = "update"
    /\ \/ txns[req[w].id] = Absent /\ Refuse(w, "not_found")
       \/ txns[req[w].id] # Absent /\ RefuseDraft(w)
       \/ /\ txns[req[w].id] # Absent /\ MayWrite(w)
          /\ wanted' = [wanted EXCEPT ![w] = UpdatedRow(req[w], txns[req[w].id])]
          /\ GoTo(w, "merge")
          /\ UNCHANGED <<clock, txns, keys, effects, req, began, freed, loaded, change, reply>>

\* replace(): merge() reads the row again, the identity map being weak.
UpdateMerge(w) ==
    /\ pc[w] = "merge"
    /\ loaded' = [loaded EXCEPT ![w] = txns[req[w].id]]
    /\ GoTo(w, "flush")
    /\ UNCHANGED <<clock, txns, keys, effects, req, began, freed, wanted, change, reply>>

\* UPDATE names only the columns that differ from the row merge() read.
Column(row, old, new) == IF new # old THEN new ELSE row
WrittenOver(row, old, new) ==
    [direction |-> Column(row.direction, old.direction, new.direction),
     category  |-> Column(row.category, old.category, new.category),
     large     |-> Column(row.large, old.large, new.large),
     source    |-> Column(row.source, old.source, new.source)]

UpdateReply(w) == Reply("updated", req[w].id, wanted[w])

\* flush(): no statement, an UPDATE of the columns that differ, or an INSERT.
UpdateFlush(w) ==
    /\ pc[w] = "flush"
    /\ \/ /\ loaded[w] = wanted[w]
          /\ Finish(w, Absent, UpdateReply(w))
       \/ /\ loaded[w] # Absent /\ loaded[w] # wanted[w]
          /\ RowIsFree(w, req[w].id)
          /\ \/ txns[req[w].id] = Absent /\ Refuse(w, "internal_error")
             \/ /\ txns[req[w].id] # Absent
                /\ Finish(w, [id |-> req[w].id,
                              row |-> WrittenOver(txns[req[w].id], loaded[w], wanted[w])],
                          UpdateReply(w))
       \/ /\ loaded[w] = Absent
          /\ RowIsFree(w, req[w].id)
          /\ \/ txns[req[w].id] # Absent /\ Refuse(w, "internal_error")
             \/ /\ txns[req[w].id] = Absent
                /\ Finish(w, [id |-> req[w].id, row |-> wanted[w]], UpdateReply(w))

DeleteGet(w) ==
    /\ pc[w] = "perform" /\ req[w].op = "delete"
    /\ \/ txns[req[w].id] = Absent /\ Refuse(w, "not_found")
       \/ /\ txns[req[w].id] # Absent /\ ~req[w].confirmed
          /\ Refuse(w, "confirmation_required")
       \/ /\ txns[req[w].id] # Absent /\ req[w].confirmed
          /\ GoTo(w, "remove")
          /\ UNCHANGED <<clock, txns, keys, effects, work, freed, change, reply>>

\* remove(): a DELETE by id; nobody looks at how many rows it hit.
DeleteRemove(w) ==
    /\ pc[w] = "remove"
    /\ RowIsFree(w, req[w].id)
    /\ Finish(w, IF txns[req[w].id] = Absent THEN Absent
                 ELSE [id |-> req[w].id, row |-> Absent],
              Reply("deleted", req[w].id, Absent))

\* (mistake) The commit comes without the complete(): no key row is left.
Commit_NoKey(w) ==
    /\ pc[w] = "commit"
    /\ txns' = IF change[w] = Absent THEN txns
               ELSE [txns EXCEPT ![change[w].id] = change[w].row]
    /\ effects' = Append(effects,
          [key |-> req[w].key, hash |-> Hash(req[w]), at |-> began[w],
           reply |-> reply[w], confirmed |-> req[w].confirmed])
    /\ RollBack(w)
    /\ GoTo(w, "reply")
    /\ UNCHANGED <<clock, keys, work, reply>>

\* complete() and commit(): the key row with its reply and the change, in one go.
Commit(w) ==
    /\ pc[w] = "commit"
    /\ keys' = [keys EXCEPT ![req[w].key] =
                   [hash |-> Hash(req[w]), reply |-> reply[w], at |-> began[w]]]
    /\ txns' = IF change[w] = Absent THEN txns
               ELSE [txns EXCEPT ![change[w].id] = change[w].row]
    /\ effects' = Append(effects,
          [key |-> req[w].key, hash |-> Hash(req[w]), at |-> began[w],
           reply |-> reply[w], confirmed |-> req[w].confirmed])
    /\ RollBack(w)
    /\ GoTo(w, "reply")
    /\ UNCHANGED <<clock, work, reply>>

\* The request is over: its worker forgets everything.
Leave(w) ==
    /\ GoTo(w, "idle")
    /\ RollBack(w)
    /\ req' = [req EXCEPT ![w] = Absent]
    /\ began' = [began EXCEPT ![w] = 0]
    /\ wanted' = [wanted EXCEPT ![w] = Absent]
    /\ loaded' = [loaded EXCEPT ![w] = Absent]
    /\ reply' = [reply EXCEPT ![w] = Absent]
    /\ UNCHANGED <<clock, txns, keys, effects>>

Respond(w) == pc[w] = "reply" /\ Leave(w)

\* The process dies, the connection to the database breaks, or the caller is gone.
Vanish(w) == pc[w] # "idle" /\ Leave(w)

Tick ==
    /\ clock < MaxTime
    /\ clock' = clock + 1
    /\ UNCHANGED <<txns, keys, effects, pc, work, freed, change, reply>>

Init ==
    /\ clock = 0
    /\ txns = [id \in Id |-> IF id \in Seeded THEN SeedRow ELSE Absent]
    /\ keys = [k \in Key |-> Absent]
    /\ effects = <<>>
    /\ pc = [w \in Worker |-> "idle"]
    /\ req = [w \in Worker |-> Absent]
    /\ began = [w \in Worker |-> 0]
    /\ freed = [w \in Worker |-> FALSE]
    /\ wanted = [w \in Worker |-> Absent]
    /\ loaded = [w \in Worker |-> Absent]
    /\ change = [w \in Worker |-> Absent]
    /\ reply = [w \in Worker |-> Absent]

\* What the server does by itself for a request it has taken.
Serve(w) ==
    \/ FindExpire(w) \/ FindNothing(w) \/ FindReused(w) \/ FindReply(w)
    \/ ClaimTaken(w) \/ ClaimWon(w)
    \/ Create(w)
    \/ UpdateGet(w) \/ UpdateMerge(w) \/ UpdateFlush(w)
    \/ DeleteGet(w) \/ DeleteRemove(w)
    \/ Commit(w) \/ Respond(w)

Next == Tick \/ \E w \in Worker : Begin(w) \/ Serve(w) \/ Vanish(w)

Spec == Init /\ [][Next]_vars

\* The steps that wait for a key or a row another worker holds.
Wait(w) == FindExpire(w) \/ ClaimTaken(w) \/ ClaimWon(w) \/ UpdateFlush(w) \/ DeleteRemove(w)

\* A statement that can run does, and a waiter PostgreSQL wakes again and again gets its
\* turn; nobody must send a request, die or let time pass.
FairSpec == Spec /\ \A w \in Worker : WF_vars(Serve(w)) /\ SF_vars(Wait(w))

-----------------------------------------------------------------------------
(***************************************************************************)
(* Properties                                                              *)
(***************************************************************************)

Effect == 1..Len(effects)
Label ==
    {"idle", "expire", "lookup", "claim", "perform", "merge", "flush", "remove", "commit", "reply"}

\* Every variable has its type.
TypeOK ==
    /\ clock \in Nat
    /\ txns \in [Id -> Row \cup {Absent}]
    /\ keys \in [Key -> KeyRow \cup {Absent}]
    /\ effects \in Seq(EffectType)
    /\ pc \in [Worker -> Label]
    /\ req \in [Worker -> Request \cup {Absent}]
    /\ began \in [Worker -> Nat]
    /\ freed \in [Worker -> BOOLEAN]
    /\ wanted \in [Worker -> Row \cup {Absent}]
    /\ loaded \in [Worker -> Row \cup {Absent}]
    /\ change \in [Worker -> Change \cup {Absent}]
    /\ reply \in [Worker -> AnyReply \cup {Absent}]

\* The same write never enters the ledger twice: two effects of one key began more than
\* Retention apart, however often, however late and however concurrently it was sent.
OneEffectPerKey ==
    \A i, j \in Effect :
        i < j /\ effects[i].key = effects[j].key => effects[i].at + Retention < effects[j].at

\* A caller who is told that a write succeeded is told the truth: a write with this key,
\* this request and this very reply has been committed (replays included).
SuccessIsAnEffect ==
    \A w \in Worker :
        pc[w] = "reply" /\ IsSuccess(reply[w]) =>
            \E i \in Effect :
                /\ effects[i].key = req[w].key
                /\ effects[i].hash = Hash(req[w])
                /\ effects[i].reply = reply[w]

\* "The same request is still being processed" is said only when the rival has committed:
\* the loser of the INSERT waits, and goes ahead itself when the rival rolls back.
InProgressMeansDone ==
    \A w \in Worker :
        pc[w] = "reply" /\ reply[w].code = "request_in_progress" =>
            \E i \in Effect : effects[i].key = req[w].key

\* A confirmed write of a large amount to this id took effect.
LargeTold(id) ==
    \E i \in Effect :
        /\ effects[i].reply.id = id /\ effects[i].confirmed
        /\ effects[i].reply.code # "deleted" /\ effects[i].reply.row.large

\* A large amount stands in the ledger only if a user confirmed a write that put it there,
\* though the confirmation is no part of the request's hash and rows mix by columns.
LargeWasConfirmed ==
    \A id \in Id :
        txns[id] # Absent /\ txns[id].large /\ ~SeedRow.large => LargeTold(id)

\* The source a transaction was first entered with.
Makes(i, id) == effects[i].reply.code = "created" /\ effects[i].reply.id = id
SourceOf(id) ==
    IF id \in Seeded THEN SeedRow.source
    ELSE effects[CHOOSE i \in Effect : Makes(i, id)].reply.row.source

\* Who first entered a transaction never changes, whatever updates and deletes overlap,
\* a row that comes back after its deletion included.
SourceNeverChanges ==
    \A id \in Id : txns[id] # Absent => txns[id].source = SourceOf(id)

\* No two requests hold one key or one row at a time.
LocksExclude ==
    \A v, w \in Worker :
        v # w => /\ \A k \in Key : ~(HoldsKey(v, k) /\ HoldsKey(w, k))
                 /\ \A id \in Id : ~(HoldsRow(v, id) /\ HoldsRow(w, id))

\* Waiting for keys and rows never ends in a circle: each request is answered or vanishes.
EveryRequestEnds == \A w \in Worker : pc[w] # "idle" ~> pc[w] = "idle"

\* What a deleted id may become: nothing (delete_transaction.py: a deletion cannot be undone).
DeletedStaysDeleted ==
    \A i \in Effect :
        effects[i].reply.code = "deleted" => txns[effects[i].reply.id] = Absent

\* The category of a stored transaction fits its direction (the rule of check_draft).
CategoryFitsDirection ==
    \A id \in Id : txns[id] # Absent => DirectionOf[txns[id].category] = txns[id].direction

(***************************************************************************)
(* The inductive invariant behind OneEffectPerKey and SuccessIsAnEffect    *)
(***************************************************************************)

\* What a worker has in hand at each statement.
HandOK ==
    \A w \in Worker :
        /\ pc[w] = "idle" <=> req[w] = Absent
        /\ began[w] <= clock
        /\ pc[w] \in {"merge", "flush"} => req[w].op = "update" /\ wanted[w] \in Row
        /\ pc[w] = "remove" => req[w].op = "delete"
        /\ pc[w] = "commit" => reply[w] \in SuccessReply
        /\ pc[w] = "reply" => reply[w] \in AnyReply

\* A key row exists exactly when its write took effect, and is that of the latest effect.
KeysFollowEffects ==
    \A k \in Key :
        /\ keys[k] = Absent => \A i \in Effect : effects[i].key # k
        /\ keys[k] # Absent =>
              /\ \A i \in Effect : effects[i].key = k => effects[i].at <= keys[k].at
              /\ \E i \in Effect : /\ effects[i].key = k
                                   /\ effects[i].hash = keys[k].hash
                                   /\ effects[i].reply = keys[k].reply

\* Who has deleted a key row found it expired, and who has claimed a key found no live row:
\* what find() saw is still so when the write is committed.
HoldersMayRun ==
    \A w \in Worker :
        /\ freed[w] => pc[w] \notin {"idle", "expire", "reply"} /\ KeyExpired(w)
        /\ HasClaimed(w) => freed[w] \/ keys[req[w].key] = Absent

Inductive ==
    /\ TypeOK
    /\ HandOK
    /\ KeysFollowEffects
    /\ HoldersMayRun
    /\ LocksExclude
    /\ OneEffectPerKey
    /\ SuccessIsAnEffect
    /\ InProgressMeansDone

(***************************************************************************)
(* The inductive invariants behind LargeWasConfirmed and                   *)
(* SourceNeverChanges: what holds of the rows that are not yet committed   *)
(***************************************************************************)

\* An update that wants a large amount was confirmed, and the large row that is to be committed
\* is one that was told before or is told by this very reply.
LargeInHand ==
    \A w \in Worker :
        /\ pc[w] \in {"merge", "flush"} /\ wanted[w].large => req[w].confirmed
        /\ /\ pc[w] = "commit" /\ change[w] # Absent /\ ~SeedRow.large
           /\ change[w].row # Absent /\ change[w].row.large
           => \/ LargeTold(change[w].id)
              \/ /\ req[w].confirmed
                 /\ reply[w].id = change[w].id /\ reply[w].code # "deleted"
                 /\ reply[w].row.large

LargeInductive == LargeWasConfirmed /\ LargeInHand

\* The id is in the ledger or has been.
Known(id) == id \in Seeded \/ \E i \in Effect : Makes(i, id)

\* An id is made once, and only what is known is in the ledger.
MadeOnce ==
    /\ \A id \in Id : \A i, j \in Effect : Makes(i, id) /\ Makes(j, id) => i = j
    /\ \A id \in Id : txns[id] # Absent => Known(id)

\* An update or a delete in hand is of a known id and leaves its source; a create in hand is
\* of an id that is not known.
SourceInHand ==
    \A w \in Worker :
        /\ pc[w] \in {"merge", "flush", "remove"} => Known(req[w].id)
        /\ pc[w] \in {"merge", "flush"} => wanted[w].source = SourceOf(req[w].id)
        /\ pc[w] = "commit" /\ reply[w].code = "created" =>
               /\ ~Known(reply[w].id)
               /\ change[w] = [id |-> reply[w].id, row |-> reply[w].row]
        /\ pc[w] = "commit" /\ reply[w].code # "created" /\ change[w] # Absent =>
               /\ Known(change[w].id)
               /\ change[w].row # Absent => change[w].row.source = SourceOf(change[w].id)

SourceInductive == MadeOnce /\ SourceNeverChanges /\ SourceInHand

\* The api keeps the promise of OncePerKey.
Telling(w) ==
    IF pc[w] # "reply" THEN [kind |-> "nothing"]
    ELSE IF IsSuccess(reply[w])
         THEN [kind |-> "success", key |-> req[w].key, hash |-> Hash(req[w]), reply |-> reply[w]]
         ELSE [kind |-> "refused", key |-> req[w].key, code |-> reply[w].code]
told == [w \in Worker |-> Telling(w)]

Promise == INSTANCE OncePerKey WITH Caller <- Worker, Code <- RefusalCode, now <- clock, runs <- effects

KeepsPromise == Promise!Spec
=============================================================================
