---------------------------- MODULE ReportCache ----------------------------
(***************************************************************************)
(* The report's AI part and its cache.  A request (CachedInsights) reads   *)
(* the version of the data, looks the key up, and on a miss builds the     *)
(* report (BuildInsights): a fixed look at the data, a plan by the model,  *)
(* further looks, an assembly by the model.  Each look is a transaction of *)
(* its own, and meanwhile others write; what they write carries the time   *)
(* their transaction BEGAN.  A row is that time, 0 where there is no row:  *)
(* what else it holds is known by when it was written.                     *)
(***************************************************************************)
EXTENDS Naturals, Sequences, FiniteSets, FiniteSetsExt

CONSTANTS
    Request,   \* requests for the report of one month
    Writer,    \* database transactions that change one row each
    Row,       \* rows within the months the report reads, and budgets
    Budgets,   \* those that are budgets
    FirstRows, \* row -> updated_at of what was entered before, 0 where there is none
    None,      \* no key, nothing to show, no row to write
    MaxTime,   \* bound: transactions that begin
    MaxOpens   \* bound: how often a request is made again

ASSUME RowAssumption ==
    Budgets \subseteq Row /\ IsFiniteSet(Row) /\ FirstRows \in [Row -> Nat]
ASSUME BoundAssumption == MaxTime \in Nat /\ MaxOpens \in Nat

VARIABLES
    rows,      \* the committed rows: row -> updated_at, 0 if there is none
    clock,     \* now(): transactions begun so far
    writes,    \* writer -> [row, at, to] it has not committed (and perhaps never will), or None
    behind,    \* a transaction has committed under a change that began later
    cache,     \* insight_cache: [key, report]
    puts,      \* the idempotency keys of PUT /v1/insights/cache
    pc,        \* request -> where CachedInsights and BuildInsights are
    key,       \* request -> the version it asked under, None without
    report,    \* request -> what it is made of: [data, whole, mixed]
    again,     \* request -> the malformed replies to the call it makes now
    looks,     \* request -> looks planned and taken; a second only after an empty one
    opens      \* how often a report was asked for

data_vars == <<rows, clock, writes, behind>>
request_vars == <<pc, key, report, again, looks>>
vars == <<data_vars, cache, puts, request_vars, opens>>

State == [Row -> Nat]

(***************************************************************************)
(* The data and its version                                                *)
(***************************************************************************)

There(s, table) == {r \in table : s[r] # 0}
Newest(s, table) == Max({s[r] : r \in table} \cup {0})

\* (mistake) The version does not count the rows.
Version_NewestOnly(s) == <<0, Newest(s, Row \ Budgets), 0, Newest(s, Budgets)>>

\* (mistake) A budget does not change the version.
Version_NoBudgets(s) ==
    <<Cardinality(There(s, Row \ Budgets)), Newest(s, Row \ Budgets), 0, 0>>

\* The number and the last change of the transactions and of the budgets.
Version(s) ==
    <<Cardinality(There(s, Row \ Budgets)), Newest(s, Row \ Budgets),
      Cardinality(There(s, Budgets)), Newest(s, Budgets)>>

Now == Version(rows)

\* A transaction begins and changes one row that no other is changing; a budget is set or
\* emptied in place, it is never deleted.
Write(w, r, gone) ==
    /\ writes[w] = None /\ clock < MaxTime
    /\ \A v \in Writer : writes[v] # None => writes[v].row # r
    /\ gone => r \notin Budgets /\ rows[r] # 0
    /\ clock' = clock + 1
    /\ writes' = [writes EXCEPT ![w] =
           [row |-> r, at |-> clock + 1, to |-> IF gone THEN 0 ELSE clock + 1]]
    /\ UNCHANGED <<rows, behind, cache, puts, request_vars, opens>>

Reading == {"lookup", "fixed", "plan", "look"}
InOrder(w) == writes[w].at > Newest(rows, Row)

\* A report between its version and its last look has read, or will read, past this commit.
Commit(w) ==
    /\ writes[w] # None
    /\ rows' = [rows EXCEPT ![writes[w].row] = writes[w].to]
    /\ behind' = (behind \/ ~InOrder(w))
    /\ writes' = [writes EXCEPT ![w] = None]
    /\ report' = [x \in Request |->
           IF pc[x] \in Reading THEN [report[x] EXCEPT !.mixed = TRUE] ELSE report[x]]
    /\ UNCHANGED <<clock, cache, puts, pc, key, again, looks, opens>>

(***************************************************************************)
(* CachedInsights                                                          *)
(***************************************************************************)

Goto(x, place) == pc' = [pc EXCEPT ![x] = place]
cache_vars == <<cache, puts>>

NoReport == [data |-> [r \in Row |-> 0], whole |-> TRUE, mixed |-> FALSE]

\* A report is asked for: its key is the version of the data, if the version can be had.
Open(x) ==
    /\ pc[x] = "idle" /\ opens < MaxOpens
    /\ opens' = opens + 1
    /\ \/ key' = [key EXCEPT ![x] = Now] /\ Goto(x, "lookup")
       \/ Goto(x, "fixed") /\ UNCHANGED key
    /\ UNCHANGED <<data_vars, cache_vars, report, again, looks>>

\* The request is answered and its run is over.
Leave(x) ==
    /\ Goto(x, "idle")
    /\ key' = [key EXCEPT ![x] = None]
    /\ report' = [report EXCEPT ![x] = NoReport]
    /\ again' = [again EXCEPT ![x] = 0]
    /\ looks' = [looks EXCEPT ![x] = 0]

Hit(x) ==
    /\ pc[x] = "lookup" /\ \E e \in cache : e.key = key[x]
    /\ Leave(x)
    /\ UNCHANGED <<data_vars, cache_vars, opens>>

\* No entry, one of an unknown shape, or a cache that cannot be reached.
Miss(x) ==
    /\ pc[x] = "lookup"
    /\ Goto(x, "fixed")
    /\ UNCHANGED <<data_vars, cache_vars, key, report, again, looks, opens>>

(***************************************************************************)
(* BuildInsights                                                           *)
(***************************************************************************)

\* The end of a build that is not to be cached: no base, two malformed replies, the wall
\* clock, a model that cannot be reached.
GiveUp(x) ==
    /\ pc[x] \in {"fixed", "plan", "look", "assemble"}
    /\ Leave(x)
    /\ UNCHANGED <<data_vars, cache_vars, opens>>

\* The two calls the code makes by itself; if one fails there is nothing to plan on (GiveUp).
LookFixed(x) ==
    /\ pc[x] = "fixed"
    /\ Goto(x, "plan")
    /\ report' = [report EXCEPT ![x].data = rows]
    /\ UNCHANGED <<data_vars, cache_vars, key, again, looks, opens>>

Asks(x) == again' = [again EXCEPT ![x] = 0]

\* _ATTEMPTS: a malformed reply is asked for once more.
Malformed(x) ==
    /\ pc[x] \in {"plan", "assemble"} /\ again[x] = 0
    /\ again' = [again EXCEPT ![x] = 1]
    /\ UNCHANGED <<data_vars, cache_vars, pc, key, report, looks, opens>>

\* A plan with steps, or one of which nothing is left: then the report is of the fixed calls.
Plan(x) ==
    /\ pc[x] = "plan"
    /\ Asks(x)
    /\ \E place \in {"look", "assemble"} : Goto(x, place)
    /\ UNCHANGED <<data_vars, cache_vars, key, report, looks, opens>>

\* (mistake) As long as nothing is found, another plan is made.
MayReplan_Always(x) == TRUE

\* A plan of which nothing came is made again once.
MayReplan(x) == looks[x] = 0

\* The planned calls, at the same time, for half the time that is left: rows found, nothing
\* found, or a step that failed or did not end and is left out.
Look(x) ==
    /\ pc[x] = "look"
    /\ looks' = [looks EXCEPT ![x] = @ + 1]
    /\ \E found \in {"all", "some", "nothing", "dropped"} :
           /\ report' = [report EXCEPT ![x].data = rows,
                             ![x].whole = @ /\ found \in {"all", "nothing"}]
           /\ Goto(x, IF found \in {"nothing", "dropped"} /\ MayReplan(x)
                      THEN "plan" ELSE "assemble")
    /\ UNCHANGED <<data_vars, cache_vars, key, again, opens>>

\* Assembled, or all of it discarded by the checks: either is an answer to be kept.
Assemble(x) ==
    /\ pc[x] = "assemble"
    /\ \/ key[x] # None /\ Asks(x) /\ Goto(x, "store") /\ UNCHANGED <<key, report, looks>>
       \/ key[x] = None /\ Leave(x)
    /\ UNCHANGED <<data_vars, cache_vars, opens>>

Put(e) == puts' = puts \cup {e} /\ cache' = {c \in cache : c.key # e.key} \cup {e}

\* (mistake) A PUT is repeated until it is written.
Store_UntilWritten(x) ==
    /\ pc[x] = "store"
    /\ LET e == [key |-> key[x], report |-> report[x]] IN e \notin puts /\ Put(e)
    /\ Leave(x)
    /\ UNCHANGED <<data_vars, opens>>

\* PUT under an idempotency key of the cache key and the body: the same body under the same
\* key is not written again.  A failure is swallowed.
Store(x) ==
    /\ pc[x] = "store"
    /\ LET e == [key |-> key[x], report |-> report[x]] IN
       UNCHANGED cache_vars \/ (e \notin puts /\ Put(e))
    /\ Leave(x)
    /\ UNCHANGED <<data_vars, opens>>

Init ==
    /\ rows = FirstRows /\ clock = Newest(FirstRows, Row)
    /\ writes = [w \in Writer |-> None] /\ behind = FALSE
    /\ cache = {} /\ puts = {} /\ opens = 0
    /\ pc = [x \in Request |-> "idle"] /\ key = [x \in Request |-> None]
    /\ report = [x \in Request |-> NoReport]
    /\ again = [x \in Request |-> 0]
    /\ looks = [x \in Request |-> 0]

Serve(x) ==
    \/ Hit(x) \/ Miss(x) \/ LookFixed(x) \/ Malformed(x) \/ Plan(x) \/ Look(x)
    \/ Assemble(x) \/ Store(x)

Next ==
    \/ \E w \in Writer : \/ \E r \in Row, gone \in BOOLEAN : Write(w, r, gone)
                         \/ Commit(w)
    \/ \E x \in Request : Open(x) \/ Serve(x) \/ GiveUp(x)

Spec == Init /\ [][Next]_vars

\* Every call BuildInsights makes has a time limit, and a task that was started goes on.
FairSpec == Spec /\ \A x \in Request : WF_vars(Serve(x) \/ GiveUp(x))

-----------------------------------------------------------------------------

Place == {"idle", "lookup", "fixed", "plan", "look", "assemble", "store"}
Key == Nat \X Nat \X Nat \X Nat
Report == [data : State, whole : BOOLEAN, mixed : BOOLEAN]
Entry == [key : Key, report : Report]

TypeOK ==
    /\ rows \in State /\ {clock, opens} \subseteq Nat /\ behind \in BOOLEAN
    /\ writes \in [Writer -> [row : Row, at : Nat, to : Nat] \cup {None}]
    /\ cache \subseteq Entry /\ puts \subseteq Entry
    /\ pc \in [Request -> Place] /\ key \in [Request -> Key \cup {None}]
    /\ report \in [Request -> Report]
    /\ looks \in [Request -> Nat]
    /\ again \in [Request -> 0..1]

\* A build looks at most twice, and after the second look it does not plan again, however its
\* steps fail and its plans come to nothing: with two tries for each call it asks the model
\* six times at most (BuildInsights._steps, _plan).
BuildIsBounded == \A x \in Request : looks[x] <= 2 /\ (looks[x] = 2 => pc[x] # "plan")

\* A cached report of the data as it is now shows this data,
\* unless a write fell into its making or a transaction committed under one that began
\* later: the count and the last change do tell two states of the months apart, rows deleted
\* and entered again included (read_data_version, CachedInsights).
CachedIsCurrent ==
    ~behind =>
        \A e \in cache : e.key = Now /\ ~e.report.mixed => e.report.data = rows

\* A commit in the order of the beginnings changes the version of the data, an update in place,
\* a delete and a budget included (SqlStatsRepository.data_version).
OrderedCommitChangesVersion ==
    [][\A w \in Writer : Commit(w) /\ InOrder(w) => Version(rows') # Version(rows)]_vars

\* Why it is bounded: a look is planned again only after the first.
LooksInHand ==
    \A x \in Request :
        /\ pc[x] \in {"idle", "lookup", "fixed"} => looks[x] = 0
        /\ pc[x] \in {"plan", "look"} => looks[x] <= 1
        /\ looks[x] <= 2

\* What a transaction has written and not committed: a time of its own, in a row of its own.
WritesInHand ==
    /\ \A r \in Row : rows[r] <= clock
    /\ \A w \in Writer : writes[w] # None =>
           /\ writes[w].at \in 1..clock /\ writes[w].to \in {0, writes[w].at}
           /\ writes[w].to = 0 => writes[w].row \notin Budgets /\ rows[writes[w].row] # 0
           /\ \A r \in Row : rows[r] # writes[w].at
           /\ \A v \in Writer \ {w} : writes[v] # None =>
                  writes[v].at # writes[w].at /\ writes[v].row # writes[w].row

\* The rows that changed since the table was d are gone or newer than all of d, as long as
\* the newest of d is still there.
NewerThan(d, table) ==
    \A p \in table : rows[p] = Newest(d, table) /\ rows[p] # 0 =>
        \A r \in table : rows[r] \in {0, d[r]} \/ rows[r] > Newest(d, table)

\* The data has been d: what is not committed now was not in d, and what was committed since
\* then came in order.
Past(d) ==
    /\ \A r \in Row : d[r] <= clock
    /\ \A w \in Writer : writes[w] # None => \A r \in Row : d[r] # writes[w].at
    /\ ~behind => NewerThan(d, Row \ Budgets) /\ NewerThan(d, Budgets)

\* The version a report is kept under is that of its data, whenever that was read.
KeptUnder(k, d) == k = Version(d) /\ Past(d)

\* What a report is made of, if no commit fell into its making.
ReportsInHand ==
    \A x \in Request : ~report[x].mixed =>
        /\ pc[x] \in Reading /\ key[x] # None => key[x] = Now
        /\ pc[x] \in {"plan", "look"} => report[x].data = rows
        /\ pc[x] \in {"assemble", "store"} /\ key[x] # None => KeptUnder(key[x], report[x].data)

CacheInHand == \A e \in cache : ~e.report.mixed => KeptUnder(e.key, e.report.data)

\* A key is had while a request is served, and what is stored has one.
KeysInHand ==
    \A x \in Request : /\ pc[x] = "idle" => key[x] = None
                       /\ pc[x] = "store" => key[x] # None

\* CachedIsCurrent is not inductive: what is cached must have been the data once, and so must
\* what a request is about to cache.
Inductive ==
    TypeOK /\ KeysInHand /\ WritesInHand /\ ReportsInHand /\ CacheInHand

\* Whoever asks for a report gets an answer, though every step may fail (CachedInsights).
EveryReportEnds == \A x \in Request : pc[x] # "idle" ~> pc[x] = "idle"

\* The doc of the reports: what a failure or a time limit made poorer is not kept.
NoFailureIsCached == \A e \in cache : e.report.whole
=============================================================================
