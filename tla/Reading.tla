-------------------------------- MODULE Reading --------------------------------
(***************************************************************************)
(* From a sentence to the entry of a proposal: the model extracts fields,  *)
(* what has no ground in the text is dropped, a category is chosen for the *)
(* merchant, what is missing gets a default, the arguments wait in the     *)
(* audit log, and the confirmation makes the entry of them again, maybe    *)
(* days later.  The gate between the two is CaptureGate.                   *)
(***************************************************************************)
EXTENDS Periods

CONSTANTS
    Merchant,     \* bound: the names that may be in a text or made up
    Extractions,  \* bound: what the model extracts, Wrong when it fits no schema
    SaidOn,       \* bound: the days a sentence is sent on
    Attempts,     \* _ATTEMPTS
    Ceiling       \* _CEILING of an amount

VARIABLES
    sent,      \* [names, at]: the merchants in the text and the moment it came, or None
    attempts,  \* how often the model was asked
    reading,   \* CaptureReading, or None; chosen: a category was looked for
    proposal,  \* [args, unsure, renewed] of the proposal in the audit log, or None
    written    \* the entry the confirmation writes, or None

capture_vars == <<sent, attempts, reading, proposal, written>>
reading_vars == <<today, minute, sent, attempts, reading, proposal, written>>

Method == {"card", "cash", "bank"}
Direction == {"expense", "income"}
FallbackOf == [expense |-> "etc", income |-> "other_income"]
OrElse(value, default) == IF value = None THEN default ELSE value

Refused(reason) ==
    [refusal |-> reason, direction |-> None, amount |-> None, when |-> None, payment |-> None,
     merchant |-> None, category |-> None, chosen |-> FALSE]

\* A merchant is read only if it is in the text, whatever its spaces.
Grounded(name) == IF name \in sent.names THEN name ELSE None

\* (mistake) What lies ahead is left to the model to refuse.
ReadingOf_AsSaid(x) ==
    LET when == Resolve(x.when, sent.at) IN
    IF x.kind # "transaction" THEN Refused(x.kind)
    ELSE IF x.amount \notin 1..Ceiling THEN Refused("no_amount")
    ELSE [refusal |-> "", direction |-> x.direction, amount |-> x.amount, when |-> when,
          payment |-> x.payment, merchant |-> Grounded(x.merchant), category |-> None,
          chosen |-> FALSE]

ReadingOf(x) ==
    LET when == Resolve(x.when, sent.at) IN
    IF x.kind # "transaction" THEN Refused(x.kind)
    ELSE IF x.amount \notin 1..Ceiling THEN Refused("no_amount")
    ELSE IF when # None /\ ~UpTo(when, sent.at) THEN Refused("planned")
    ELSE [refusal |-> "", direction |-> x.direction, amount |-> x.amount, when |-> when,
          payment |-> x.payment, merchant |-> Grounded(x.merchant), category |-> None,
          chosen |-> FALSE]

\* A time that is no time and an amount below zero are no extraction either.
Malformed(x) ==
    \/ x = Wrong
    \/ x # Wrong /\ x.amount < 0

(***************************************************************************)
(* ReadCapture                                                             *)
(***************************************************************************)

SendText ==
    /\ sent = None
    /\ \E names \in SUBSET Merchant :
           sent' = [names |-> names, at |-> Now]
    /\ UNCHANGED <<today, minute, attempts, reading, proposal, written>>

Asking == sent # None /\ reading = None /\ attempts < Attempts

\* An answer in no shape is asked for once more, then the sentence counts as unreadable.
Extract ==
    /\ Asking
    /\ attempts' = attempts + 1
    /\ \E x \in Extractions :
           reading' = IF ~Malformed(x) THEN ReadingOf(x)
                      ELSE IF attempts + 1 = Attempts THEN Refused("unreadable") ELSE None
    /\ UNCHANGED <<today, minute, sent, proposal, written>>

\* ModelUnavailable: nothing is read and nothing proposed.
LoseModel ==
    /\ Asking
    /\ attempts' = Attempts
    /\ UNCHANGED <<today, minute, sent, reading, proposal, written>>

Understood == reading # None /\ reading.refusal = ""

\* A category of the direction or none; whoever cannot be reached leaves the category open.
Classify ==
    /\ reading # None /\ Understood /\ reading.merchant # None /\ ~reading.chosen
    /\ \E c \in CategoriesOf[OrElse(reading.direction, "expense")] \cup {None} :
           reading' = [reading EXCEPT !.category = c, !.chosen = TRUE]
    /\ UNCHANGED <<today, minute, sent, attempts, proposal, written>>

(***************************************************************************)
(* ProposeRecord and DecideRecord: entry_of, entry_args and back           *)
(***************************************************************************)

Unsure ==
    {field \in {"category", "account"} :
        IF field = "category" THEN reading.category = None ELSE reading.payment = None}
EntryOf ==
    LET direction == OrElse(reading.direction, "expense") IN
    [direction |-> direction, amount |-> reading.amount, when |-> OrElse(reading.when, sent.at),
     category |-> OrElse(reading.category, FallbackOf[direction]),
     account |-> OrElse(reading.payment, "card"), merchant |-> reading.merchant]

Propose ==
    /\ proposal = None /\ reading # None /\ Understood
    /\ reading.merchant # None => reading.chosen
    /\ proposal' = [args |-> EntryOf, unsure |-> Unsure, renewed |-> FALSE]
    /\ UNCHANGED <<today, minute, sent, attempts, reading, written>>

\* What _create makes of the arguments in the log: without a category they are refused, without
\* a direction they are an expense, everything else is taken as it was written down.
Created(args) == IF args.category = None THEN None ELSE [args EXCEPT !.direction = OrElse(@, "expense")]

\* An expired proposal: a new one with the same fields; its card marks none of them.
Renew ==
    /\ proposal # None /\ written = None
    /\ ~proposal.renewed /\ Created(proposal.args) # None
    /\ proposal' = [args |-> Created(proposal.args), unsure |-> {}, renewed |-> TRUE]
    /\ UNCHANGED <<today, minute, sent, attempts, reading, written>>

Confirm ==
    /\ proposal # None /\ written = None
    /\ written' = Created(proposal.args)
    /\ UNCHANGED <<today, minute, sent, attempts, reading, proposal>>

Later ==
    /\ \/ \E m \in Minutes : m > minute /\ minute' = m /\ UNCHANGED today
       \/ today \in SaidOn /\ today' = today + 1 /\ minute' = Min(Minutes)
    /\ UNCHANGED <<sent, attempts, reading, proposal, written>>

NothingSent ==
    /\ sent = None /\ attempts = 0 /\ reading = None /\ proposal = None /\ written = None
ReadingInit == today \in SaidOn /\ minute \in Minutes /\ NothingSent
ReadingNext == SendText \/ Extract \/ LoseModel \/ Classify \/ Propose \/ Renew \/ Confirm \/ Later

ReadingSpec == ReadingInit /\ [][ReadingNext]_reading_vars

ASSUME ReadingAssumption ==
    /\ Minutes # {} /\ Minutes \subseteq Nat /\ None # "expense"
    /\ \A x \in Extractions : x # Wrong => x.kind # ""

-----------------------------------------------------------------------------

\* What a confirmation writes has its ground in what was sent: the merchant stands in the text,
\* the amount is one of an entry, the category is of the direction, and the moment was past when
\* the sentence came, however late it is confirmed.  The first card marks as unsure the category
\* and the account that were not read, these and no others: a direction or a day that was filled
\* in is not marked, though record_entry.py:3 names the day too, and the card of a renewed
\* proposal marks nothing (read_capture.py, record_entry.py, _create).
ReadingIsGrounded ==
    /\ proposal # None =>
           LET entry == proposal.args IN
           /\ entry.merchant \in sent.names \cup {None}
           /\ entry.amount \in 1..Ceiling
           /\ entry.category \in CategoriesOf[entry.direction] \cup {FallbackOf[entry.direction]}
           /\ UpTo(entry.when, sent.at)
           /\ ~proposal.renewed =>
                  /\ "category" \in proposal.unsure <=> reading.category = None
                  /\ "account" \in proposal.unsure <=> reading.payment = None
                  /\ proposal.unsure \subseteq {"category", "account"}
           /\ reading.category = None => entry.category = FallbackOf[entry.direction]
           /\ reading.payment = None => entry.account = "card"
           /\ reading.when = None => entry.when = sent.at
           /\ written # None => written = entry
    /\ reading # None /\ reading.refusal # "" => proposal = None

\* What was read came of what was sent and is of its day or before, once and for all; the
\* proposal is what was read, first or renewed, and the entry is the proposal.
ReadingInductive ==
    /\ minute \in Minutes
    /\ sent # None => sent.at.minute \in Minutes
    /\ reading # None =>
           /\ sent # None /\ DOMAIN reading = DOMAIN Refused("")
           /\ reading.refusal = "" =>
                  /\ reading.merchant \in sent.names \cup {None}
                  /\ reading.amount \in 1..Ceiling
                  /\ reading.category \in CategoriesOf[OrElse(reading.direction, "expense")] \cup {None}
                  /\ reading.when # None => UpTo(reading.when, sent.at)
    /\ proposal # None =>
           /\ reading # None /\ Understood /\ (reading.merchant # None => reading.chosen)
           /\ proposal.args = EntryOf
           /\ ~proposal.renewed => proposal.unsure = Unsure
    /\ written # None => proposal # None /\ written = proposal.args
=============================================================================
