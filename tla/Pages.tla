-------------------------------- MODULE Pages --------------------------------
(***************************************************************************)
(* A list of the ledger read page by page while its rows change: the       *)
(* keyset cursor of the api and the ui that adds each page below the last. *)
(* The list of the finished runs is read in the same way.  An id is a      *)
(* number, a row is [at, fits]: its moment, and whether it meets the       *)
(* conditions of the list.                                                 *)
(***************************************************************************)
EXTENDS Integers, Sequences, FiniteSets, SequencesExt, Absent

CONSTANTS
    Id,          \* bound: the ids a row may get
    Moment,      \* bound: the moments a row may have
    Asked,       \* bound: the limits a reader may ask for
    MaxLimit,    \* MAX_LIMIT
    MaxShifts    \* bound: the rows that change while the list is open

Row == [at : Moment, fits : BOOLEAN]

VARIABLES
    rows,     \* id -> the row, or None
    listed,   \* the ids on the screen, from the top
    cursor,   \* the end of the last page, None when it was the last page or none was read
    limit,    \* what the open list asks for, None when no list is open
    touched   \* the ids that were added, changed or removed since the list was opened

page_vars == <<rows, listed, cursor, limit, touched>>

(***************************************************************************)
(* SqlTransactionRepository.search                                         *)
(***************************************************************************)

Fitting == {i \in Id : rows[i] # None /\ rows[i].fits}   \* filter_conditions

\* The key of a row comes before c: tuple_(occurred_at, id) < tuple_(*after).
Before(i, c) == rows[i].at < c.at \/ (rows[i].at = c.at /\ i < c.id)
Newer(i, j) == rows[i].at > rows[j].at \/ (rows[i].at = rows[j].at /\ i > j)
Clamp(n) == IF n < 1 THEN 1 ELSE IF n > MaxLimit THEN MaxLimit ELSE n
At(i) == [at |-> rows[i].at, id |-> i]   \* encode_cursor

\* ORDER BY occurred_at DESC, id DESC LIMIT: the k-th row has k - 1 newer ones.
Sorted(ids, n) ==
    [k \in 1..(IF Cardinality(ids) < n THEN Cardinality(ids) ELSE n) |->
        CHOOSE i \in ids : Cardinality({j \in ids : Newer(j, i)}) = k - 1]

\* One row more than asked for tells whether there is a next page.
Unread(after) == {i \in Fitting : after = None \/ Before(i, after)}
Found(after, n) == Sorted(Unread(after), n + 1)

\* (mistake) The cursor is the row that was read to know of a next page.
Page_CursorOfNext(after, n) ==
    LET found == Found(after, n) IN
    IF Len(found) <= n THEN [items |-> found, next |-> None]
    ELSE [items |-> SubSeq(found, 1, n), next |-> At(found[n + 1])]

Page(after, n) ==
    LET found == Found(after, n) IN
    IF Len(found) <= n THEN [items |-> found, next |-> None]
    ELSE [items |-> SubSeq(found, 1, n), next |-> At(found[n])]

(***************************************************************************)
(* The list on the screen and the ledger below it                          *)
(***************************************************************************)

PagesInit ==
    /\ rows = [i \in Id |-> None]
    /\ listed = <<>> /\ cursor = None /\ limit = None /\ touched = {}

\* A cursor that cannot be read, or none, is the first page.
OpenList(n) ==
    LET page == Page(None, Clamp(n)) IN
    /\ limit' = n /\ listed' = page.items /\ cursor' = page.next /\ touched' = {}
    /\ UNCHANGED rows

\* The end of the screen comes into view.
More ==
    /\ limit # None /\ cursor # None
    /\ LET page == Page(cursor, Clamp(limit)) IN listed' = listed \o page.items /\ cursor' = page.next
    /\ UNCHANGED <<rows, limit, touched>>

\* Another request adds a row, changes one or takes one away.
ChangeRow(i, row) ==
    /\ rows[i] # row
    /\ rows' = [rows EXCEPT ![i] = row]
    /\ touched' = IF limit = None THEN {} ELSE touched \cup {i}
    /\ Cardinality(touched') <= MaxShifts
    /\ UNCHANGED <<listed, cursor, limit>>

PagesNext ==
    \/ \E n \in Asked : OpenList(n)
    \/ More
    \/ \E i \in Id, row \in Row \cup {None} : ChangeRow(i, row)

PagesSpec == PagesInit /\ [][PagesNext]_page_vars

ASSUME PagesAssumption ==
    /\ IsFiniteSet(Id) /\ Id \subseteq Int /\ Moment \subseteq Int /\ Asked \subseteq Int
    /\ MaxLimit \in Nat \ {0}
    /\ None \notin Row /\ None \notin Asked /\ None \notin [at : Moment, id : Id]

-----------------------------------------------------------------------------

Times(i) == Cardinality({n \in DOMAIN listed : listed[n] = i})

PagesTypeOK ==
    /\ rows \in [Id -> Row \cup {None}] /\ listed \in Seq(Id)
    /\ cursor \in [at : Moment, id : Id] \cup {None}
    /\ limit \in Asked \cup {None} /\ touched \subseteq Id

Reached(i, after) == after = None \/ ~Before(i, after)

\* Of the rows that stay as they are, the screen shows in their order what is not below the
\* cursor, and nothing else.
ShownToCursor ==
    /\ limit = None => listed = <<>> /\ cursor = None
    /\ \A i \in ToSet(listed) \ touched : i \in Fitting /\ Reached(i, cursor)
    /\ limit # None => \A i \in Fitting \ touched : Reached(i, cursor) => i \in ToSet(listed)
    /\ \A a, b \in DOMAIN listed :
           a < b /\ {listed[a], listed[b]} \cap touched = {} => Newer(listed[a], listed[b])

PagesInductive == PagesTypeOK /\ ShownToCursor

\* Whatever happens to other rows between two pages, a row that stays as it is is never listed
\* twice, is listed by the last page when it meets the conditions, and stands in its order; the
\* screen shows nothing that did not meet them (sql_transaction_repository.search: a keyset and
\* not an offset).
UnchangedSeenOnce ==
    /\ \A i \in Id \ touched : Times(i) <= 1 /\ (Times(i) = 1 => i \in Fitting)
    /\ limit # None /\ cursor = None => \A i \in Fitting \ touched : Times(i) = 1
    /\ \A a, b \in DOMAIN listed :
           a < b /\ {listed[a], listed[b]} \cap touched = {} => Newer(listed[a], listed[b])
=============================================================================
