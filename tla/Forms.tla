--------------------------------- MODULE Forms ---------------------------------
(***************************************************************************)
(* The forms of the ui that write the ledger: a page is opened with a key, *)
(* redrawn with what a sentence was read as and with what was wrong, sent, *)
(* sent again and gone back to, while replies come late or not at all.     *)
(* The api keeps the reply of a key for as long as the key lives           *)
(* (OncePerKey); the page may be older.  What a page holds is              *)
(* [direction, amount, category]; None is a field nothing is in, and Zero  *)
(* an amount the api refuses.                                              *)
(***************************************************************************)
EXTENDS Integers, Sequences, FiniteSets, Absent

CONSTANTS
    Held,       \* bound: the ids of entries
    Typeable,   \* bound: what the fields are filled with by hand
    Readings,   \* bound: what a sentence is read as
    MaxForms,   \* bound: the forms that are opened
    MaxSent,    \* bound: the requests of the browser
    MaxTyped,   \* bound: the fields that are typed in
    KeyLife,    \* the life of a key, 24 hours
    LastTick    \* bound: the time that is looked at

Zero == 0

VARIABLES
    store,    \* id -> the fields of the entry, or None
    kept,     \* key -> [ask, at] of the last write the api ran for it, and when, or None
    page,     \* the form on the screen, or None: [kind, of, key, opening, fields]
    past,     \* the pages that can be gone back to
    onway,    \* number -> the request that was sent and has no answer yet, or None
    notice,   \* what the user was told last: [what, form], or None
    opened, numbers, typed,  \* how many forms, requests and fields there were
    effects,  \* [by, opening, kind, id, fields, at] of every write that took effect
    hours      \* the hours of the api

form_vars == <<store, kept, page, past, onway, notice, opened, numbers, typed, effects, hours>>
screen_vars == <<page, past, notice, opened, numbers, typed, hours>>

Default == [direction |-> "expense", amount |-> None, category |-> None]

(***************************************************************************)
(* TransactionForm                                                         *)
(***************************************************************************)

Parses(fields) == fields.amount # None /\ fields.category # None

DropOutside(fields) ==
    IF fields.category \in CategoriesOf[fields.direction] THEN fields
    ELSE [fields EXCEPT !.category = None]

\* Over what was there goes what was read; a category only where none is chosen.
Applied(fields, reading) ==
    LET over == [fields EXCEPT !.amount = reading.amount,
                     !.direction = IF reading.direction = None THEN @ ELSE reading.direction]
        base == DropOutside(over) IN
    IF reading.amount = None THEN fields
    ELSE IF base.category = None /\ reading.category \in CategoriesOf[base.direction]
    THEN [base EXCEPT !.category = reading.category] ELSE base

\* A sentence that was not read, or an agent that cannot be reached, gives no field anything.
Heard(reading, reached) ==
    IF reached /\ reading.amount # None THEN reading
    ELSE [direction |-> None, amount |-> None, category |-> None]

\* (mistake) A form that is drawn again gets a key of its own.
KeyDrawnAgain_Fresh(form) == form.key + MaxForms

\* The form that is drawn again holds the key it was sent with.
KeyDrawnAgain(form) == form.key

(***************************************************************************)
(* The browser                                                             *)
(***************************************************************************)

FormsInit ==
    /\ store = [id \in Held |-> IF id = 1 THEN [direction |-> "expense", amount |-> 1,
                                               category |-> CHOOSE c \in CategoriesOf["expense"] : TRUE]
                                ELSE None]
    /\ kept = [k \in 1..(MaxForms * (MaxSent + 1)) |-> None]
    /\ page = None /\ past = {} /\ notice = None /\ effects = {}
    /\ onway = [n \in 1..MaxSent |-> None]
    /\ opened = 0 /\ numbers = 0 /\ typed = 0 /\ hours = 0

\* new_form, edit_form, delete_confirm: each makes a key.
OpenForm(kind, id) ==
    /\ opened < MaxForms /\ opened' = opened + 1
    /\ IF kind = "new" THEN id = None ELSE id \in Held /\ store[id] # None
    /\ page' = [kind |-> kind, of |-> id, key |-> opened + 1, opening |-> opened + 1,
                fields |-> IF kind = "new" THEN Default ELSE store[id]]
    /\ past' = IF page = None THEN past ELSE past \cup {page}
    /\ notice' = None
    /\ UNCHANGED <<store, kept, onway, numbers, typed, effects, hours>>

GoBack(form) ==
    /\ form \in past /\ form # page
    /\ page' = form /\ notice' = None
    /\ UNCHANGED <<store, kept, past, onway, opened, numbers, typed, effects, hours>>

Type(fields) ==
    /\ page # None /\ page.kind # "delete" /\ typed < MaxTyped
    /\ fields # page.fields
    /\ page' = [page EXCEPT !.fields = fields] /\ typed' = typed + 1
    /\ UNCHANGED <<store, kept, past, onway, notice, opened, numbers, effects, hours>>

\* what: the form is sent to be saved ("save") or to have a sentence read into it ("read").
Send(what) ==
    /\ page # None /\ numbers < MaxSent /\ numbers' = numbers + 1
    /\ what = "read" => page.kind = "new"
    /\ onway' = [onway EXCEPT ![numbers + 1] =
                    [what |-> what, form |-> page, at |-> "sent", reply |-> None]]
    /\ past' = past \cup {page}
    /\ UNCHANGED <<store, kept, page, notice, opened, typed, effects, hours>>

(***************************************************************************)
(* The handlers                                                            *)
(***************************************************************************)

Answered(n, reply) ==
    onway' = [onway EXCEPT ![n].at = "answered", ![n].reply = reply]
Effect(n, id) == LET form == onway[n].form IN
    [by |-> n, opening |-> form.opening, kind |-> form.kind, id |-> id, fields |-> form.fields, at |-> hours]

Used == {1} \cup {e.id : e \in effects}   \* an id is never given again

\* update and delete read the entry before they do anything else: a deletion that is sent again
\* does not come as far as its key.
LookFirst(n) ==
    /\ onway[n] # None /\ onway[n].what = "save" /\ onway[n].at = "sent"
    /\ onway[n].form.kind # "new"
    /\ IF store[onway[n].form.of] = None THEN Answered(n, "not_found")
       ELSE onway' = [onway EXCEPT ![n].at = "writing"]
    /\ UNCHANGED <<store, kept, effects, screen_vars>>

NextId(id) == id \notin Used /\ \A other \in Held \ Used : id <= other

\* What is hashed of the request.
AskOf(form) == [kind |-> form.kind, of |-> form.of,
                fields |-> IF form.kind = "delete" THEN None ELSE form.fields]

\* A reply that is older than a key's life is deleted when the key is looked for.
Alive(key) == kept[key] # None /\ hours <= kept[key].at + KeyLife

Keyed(n, id) ==
    LET form == onway[n].form IN
    \/ /\ Alive(form.key)
       /\ Answered(n, IF kept[form.key].ask = AskOf(form) THEN "saved" ELSE "unavailable")
       /\ UNCHANGED <<store, kept, effects>>
    \/ /\ ~Alive(form.key)
       /\ \/ /\ form.kind # "new" /\ store[form.of] = None /\ Answered(n, "not_found")
             /\ UNCHANGED <<store, kept, effects>>
          \/ /\ form.kind # "delete" /\ form.fields.amount = Zero /\ Answered(n, "refused")
             /\ UNCHANGED <<store, kept, effects>>
          \/ /\ form.kind = "new" => NextId(id)
             /\ form.kind # "new" => store[form.of] # None /\ id = form.of
             /\ form.kind # "delete" => form.fields.amount # Zero
             /\ store' = [store EXCEPT ![id] = IF form.kind = "delete" THEN None ELSE form.fields]
             /\ kept' = [kept EXCEPT ![form.key] = [ask |-> AskOf(form), at |-> hours]]
             /\ effects' = effects \cup {Effect(n, id)}
             /\ Answered(n, "saved")

\* _save and delete: the screen's own check, then the keyed write.
Save(n, id) ==
    /\ onway[n] # None /\ onway[n].what = "save"
    /\ onway[n].at = IF onway[n].form.kind = "new" THEN "sent" ELSE "writing"
    /\ IF onway[n].form.kind # "delete" /\ ~Parses(onway[n].form.fields)
       THEN Answered(n, "refused") /\ UNCHANGED <<store, kept, effects>>
       ELSE Keyed(n, id)
    /\ UNCHANGED screen_vars

\* The api cannot be reached, or its answer is lost on the way to the ui: before or after the write.
Unreachable(n) ==
    /\ onway[n] # None /\ onway[n].what = "save" /\ onway[n].reply # "unavailable"
    /\ Answered(n, "unavailable")
    /\ UNCHANGED <<store, kept, effects, screen_vars>>

(***************************************************************************)
(* Answers in the browser                                                  *)
(***************************************************************************)

Ends(n) == onway' = [onway EXCEPT ![n] = None]
OnScreen(n) == page # None /\ page.opening = onway[n].form.opening
DrawAgain(form, fields) == page' = [form EXCEPT !.fields = fields, !.key = KeyDrawnAgain(form)]

\* A form with errors is drawn as it was sent; an error page takes no form's place.
HearSaved(n) ==
    /\ onway[n] # None /\ onway[n].at = "answered"
    /\ Ends(n)
    /\ IF ~OnScreen(n) THEN UNCHANGED <<page, notice>>
       ELSE /\ notice' = [what |-> onway[n].reply, form |-> onway[n].form]
            /\ CASE onway[n].reply = "saved" -> page' = None
                 [] onway[n].reply = "refused" -> DrawAgain(onway[n].form, onway[n].form.fields)
                 [] OTHER -> UNCHANGED page
    /\ UNCHANGED <<store, kept, past, opened, numbers, typed, effects, hours>>

\* read_capture: what was typed since the sentence was sent is drawn over.
HearReading(n, reading, reached) ==
    /\ onway[n] # None /\ onway[n].what = "read"
    /\ Ends(n)
    /\ IF ~OnScreen(n) THEN UNCHANGED page
       ELSE DrawAgain(onway[n].form, Applied(onway[n].form.fields, Heard(reading, reached)))
    /\ UNCHANGED <<store, kept, past, notice, opened, numbers, typed, effects, hours>>

Lose(n) ==
    /\ onway[n] # None /\ onway[n].at \in {"sent", "answered"} /\ Ends(n)
    /\ UNCHANGED <<store, kept, effects, screen_vars>>

\* The entry is taken away by another request.
RemoveElsewhere(id) ==
    /\ store[id] # None /\ store' = [store EXCEPT ![id] = None]
    /\ UNCHANGED <<kept, onway, effects, screen_vars>>

\* A page may be left open, or a reply on its way, for as long as it likes.
HoursPass ==
    /\ hours < LastTick /\ hours' = hours + 1
    /\ UNCHANGED <<store, kept, page, past, onway, notice, opened, numbers, typed, effects>>

FormsNext ==
    \/ \E kind \in {"new", "edit", "delete"}, id \in Held \cup {None} : OpenForm(kind, id)
    \/ \E form \in past : GoBack(form)
    \/ page # None /\ \E fields \in Typeable : Type(fields)
    \/ \E what \in {"save", "read"} : Send(what)
    \/ \E n \in 1..numbers :
          \/ LookFirst(n) \/ Unreachable(n) \/ HearSaved(n) \/ Lose(n)
          \/ \E id \in Held : Save(n, id)
          \/ onway[n] # None /\ \E reading \in Readings, reached \in BOOLEAN : HearReading(n, reading, reached)
    \/ \E id \in Held : RemoveElsewhere(id)
    \/ HoursPass

FormsSpec == FormsInit /\ [][FormsNext]_form_vars

-----------------------------------------------------------------------------
(* Types *)

Sided == DOMAIN CategoriesOf
AnyCategory == (UNION {CategoriesOf[d] : d \in Sided}) \cup {None}
FormFields == [direction : Sided, amount : Int \cup {None}, category : AnyCategory]
Heeded == [direction : Sided \cup {None}, amount : Int \cup {None}, category : AnyCategory]
FormKind == {"new", "edit", "delete"}
FormPage == {form \in [kind : FormKind, of : Held \cup {None}, key : 1..MaxForms,
                       opening : 1..MaxForms, fields : FormFields] :
                /\ form.key = form.opening
                /\ form.kind # "new" => form.of \in Held}
FormReply == {"saved", "refused", "unavailable", "not_found"}
FormAsk == [kind : FormKind, of : Held \cup {None}, fields : FormFields \cup {None}]
FormRequest == [what : {"save", "read"}, form : FormPage, at : {"sent", "writing", "answered"},
                reply : FormReply \cup {None}]
FormNotice == [what : FormReply \cup {None}, form : FormPage]
FormEffect == [by : 1..MaxSent, opening : 1..MaxForms, kind : FormKind, id : Held,
               fields : FormFields, at : Nat]
FormKept == [ask : FormAsk, at : Nat]

ASSUME FormAssumption ==
    /\ MaxForms \in Nat /\ MaxSent \in Nat /\ KeyLife \in Nat /\ LastTick \in Nat
    /\ "expense" \in Sided /\ CategoriesOf["expense"] # {}
    /\ Typeable \subseteq FormFields /\ Readings \subseteq Heeded
    /\ 1 \in Held
    /\ None \notin FormFields \cup FormPage \cup FormKept \cup FormRequest \cup FormNotice
                      \cup FormReply \cup Held

FormsTypeOK ==
    /\ store \in [Held -> FormFields \cup {None}]
    /\ kept \in [1..(MaxForms * (MaxSent + 1)) -> FormKept \cup {None}]
    /\ page \in FormPage \cup {None} /\ past \subseteq FormPage
    /\ onway \in [1..MaxSent -> FormRequest \cup {None}]
    /\ notice \in FormNotice \cup {None}
    /\ opened \in 0..MaxForms /\ numbers \in 0..MaxSent /\ hours \in Nat
    /\ effects \subseteq FormEffect

-----------------------------------------------------------------------------

\* The entry, changed row or removal is what was asked for.
Fulfils(e, asked) ==
    /\ e.kind = asked.kind
    /\ e.kind # "delete" => e.fields = asked.fields
    /\ e.kind = "delete" => e.id = asked.of

\* The write a form stands for was made.
WasMade(form) == \E e \in effects : e.opening = form.opening /\ Fulfils(e, AskOf(form))

FarApart(e, f) == e.at + KeyLife < f.at \/ f.at + KeyLife < e.at

\* The reply under a form's key is that of its last write, and another one comes only when it
\* is dead.
KeysTell ==
    /\ \A e \in effects : kept[e.opening] # None /\ e.at <= kept[e.opening].at
    /\ \A k \in 1..MaxForms : kept[k] # None =>
           \E e \in effects : e.opening = k /\ Fulfils(e, kept[k].ask)
    /\ \A e, f \in effects : e.opening = f.opening => e = f \/ FarApart(e, f)

\* An entry a form is of was given its id, and that one is not given again.
OfGiven(form) == form.kind # "new" => form.of \in Used
Gone(form) == form.kind # "new" /\ form.of \in Used /\ store[form.of] = None

\* Who is told that it was saved has it, and who is told that there is none has none.
IsTrue(what, form) ==
    /\ what = "saved" => WasMade(form)
    /\ what = "not_found" => Gone(form)
AnswersAreTrue ==
    /\ \A n \in 1..MaxSent : onway[n] # None => IsTrue(onway[n].reply, onway[n].form)
    /\ notice # None => IsTrue(notice.what, notice.form)

IdsAreKept ==
    /\ \A id \in Held : store[id] # None => id \in Used
    /\ page # None => OfGiven(page)
    /\ \A form \in past : OfGiven(form)
    /\ \A n \in 1..MaxSent : onway[n] # None => OfGiven(onway[n].form)

FormsInductive == FormsTypeOK /\ KeysTell /\ AnswersAreTrue /\ IdsAreKept

-----------------------------------------------------------------------------

\* However often a form is sent, sent again after an answer was lost, gone back to or drawn
\* again, it has one effect for as long as the api remembers its key: two of them lie more
\* than the key's life apart, as those of a page that is left open overnight and sent again may.
\* Who is told that it was saved has it with the very fields that were sent; and who is told
\* that there is no such entry, as who deletes twice is though the key would have replayed the
\* deletion, has none in the ledger (transaction_form_router: the key is made when the form is
\* opened, the entry is read before it).
OneEntryPerForm ==
    /\ \A e, f \in effects : e.opening = f.opening => e = f \/ FarApart(e, f)
    /\ notice # None /\ notice.what = "saved" =>
           \E e \in effects :
               /\ e.opening = notice.form.opening /\ e.kind = notice.form.kind
               /\ e.kind # "delete" => e.fields = notice.form.fields
               /\ e.kind = "delete" => e.id = notice.form.of
    /\ notice # None /\ notice.what = "not_found" =>
           notice.form.kind # "new" /\ store[notice.form.of] = None
=============================================================================
