----------------------------- MODULE OncePerKey -----------------------------
(***************************************************************************)
(* What an idempotency key promises to the callers of the ledger api,      *)
(* without sessions, statements or locks (docs/api-contract.md chapter 3): *)
(* a keyed write runs in one step, two runs of one key lie more than       *)
(* Retention apart, and a caller is told of success only with the reply of *)
(* a run of its own key and its own request.                               *)
(***************************************************************************)
EXTENDS Integers, Sequences

CONSTANTS
    Caller,     \* the requests that may be open at one time
    Key,        \* idempotency keys
    Code,       \* the codes of refusals
    Retention   \* how long a key lives

VARIABLES
    now,    \* the time on the database server's clock
    runs,   \* the writes that took effect, in commit order: [key, hash, at, reply]
    told    \* caller -> what it is being told now

vars == <<now, runs, told>>

\* A caller hears nothing, is refused, or is told of success.
Silence == [kind |-> "nothing"]
Refused(key, code) == [kind |-> "refused", key |-> key, code |-> code]
Success(key, hash, reply) == [kind |-> "success", key |-> key, hash |-> hash, reply |-> reply]

Init ==
    /\ now = 0
    /\ runs = <<>>
    /\ told = [c \in Caller |-> Silence]

\* A write may take effect when every earlier run of its key has outlived Retention.
MayRun(key, at) ==
    \A i \in 1..Len(runs) : runs[i].key = key => runs[i].at + Retention < at

RunsOf(log) == {log[i] : i \in 1..Len(log)}

Execute(c) ==
    \E run \in RunsOf(runs') :
        /\ MayRun(run.key, run.at)
        /\ run.at <= now
        /\ runs' = Append(runs, run)
        /\ told' = [told EXCEPT ![c] = Success(run.key, run.hash, run.reply)]
        /\ UNCHANGED now

\* A success that is told again is the reply of a run of the same key and request.
Replay(c) ==
    /\ \E run \in RunsOf(runs) :
          told' = [told EXCEPT ![c] = Success(run.key, run.hash, run.reply)]
    /\ UNCHANGED <<now, runs>>

\* A key in progress is one whose write has taken effect: the refused caller need not repeat it.
Refuse(c) ==
    /\ \E key \in Key, code \in Code :
          /\ code = "request_in_progress" => \E run \in RunsOf(runs) : run.key = key
          /\ told' = [told EXCEPT ![c] = Refused(key, code)]
    /\ UNCHANGED <<now, runs>>

HangUp(c) ==
    /\ told' = [told EXCEPT ![c] = Silence]
    /\ UNCHANGED <<now, runs>>

Advance ==
    /\ now' = now + 1
    /\ UNCHANGED <<runs, told>>

Next == Advance \/ \E c \in Caller : Execute(c) \/ Replay(c) \/ Refuse(c) \/ HangUp(c)

Spec == Init /\ [][Next]_vars
=============================================================================
