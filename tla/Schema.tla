-------------------------------- MODULE Schema --------------------------------
(***************************************************************************)
(* The schema of the ledger moved up and down while it holds rows: the ten *)
(* revisions, each alembic command one transaction, the seeds, and the     *)
(* writes of the program, which runs on the last revision only.  A text is *)
(* a tuple: the shop's name, with "tail" behind it when company or branch  *)
(* are still there; the hash of a text is the text, and of none is none.   *)
(***************************************************************************)
EXTENDS Integers, FiniteSets, FiniteSetsExt, Absent

CONSTANTS
    EntryId,      \* bound: the rows transactions may have
    ShopName,     \* bound: what merchants may be called: [shop, tail], shop "" for no name
    BudgetMonth,  \* bound: the months a budget may be set in, numbered
    RunKind,      \* bound: the runs that may be kept: [seat, status]
    MaxWritten    \* bound: the writes to the tables, which are the clock of created_at

Latest == 10

VARIABLES
    revision,  \* alembic_version, 0 for the empty database
    tables,    \* the rows, as InitialSchema names them
    writes,    \* how many writes there were
    owed       \* id -> what the program last wrote there, None when nothing or removed

schema_vars == <<revision, tables, writes, owed>>

SearchableText(name) == IF name.shop = "" THEN <<>> ELSE <<name.shop>>

(***************************************************************************)
(* The revisions                                                           *)
(***************************************************************************)

\* 0001 makes the tables, empty.  The reference rows are "none", "unplaced" or "placed"; limits
\* are "absent", "none" (0003) or "some" by month; reports (0008) are [version, of].
InitialSchema ==
    [entries |-> [i \in EntryId |-> None], limits |-> [m \in BudgetMonth |-> "absent"],
     runs |-> {}, catalog |-> "none", reports |-> {}]

OnEntries(t, Change(_)) ==
    [t EXCEPT !.entries = [i \in EntryId |-> IF @[i] = None THEN None ELSE Change(@[i])]]

\* 0002 places every row at 0: the next seed gives the places again.
DisplayOrderUp(t) == [t EXCEPT !.catalog = IF @ = "none" THEN @ ELSE "unplaced"]

\* 0003: "no budget from here on" has no form below; the month before carries on.
CarriesForwardDown(t) ==
    [t EXCEPT !.limits = [m \in BudgetMonth |-> IF @[m] = "none" THEN "absent" ELSE @[m]]]

\* (mistake) The columns are added, and the rows that are there keep the default.
SearchableTextUp_NoFill(t) == LET Fill(e) == [e EXCEPT !.hash = <<>>] IN OnEntries(t, Fill)

\* 0004 fills the rows that are there by the rule as it was, frozen in the revision.
SearchableTextUp(t) ==
    LET Fill(e) == [e EXCEPT !.hash = IF e.name.shop = "" THEN <<>> ELSE <<e.name.shop>>] IN
    OnEntries(t, Fill)
SearchableTextDown(t) == LET Drop(e) == [e EXCEPT !.hash = None] IN OnEntries(t, Drop)

\* 0006 adds columns with no default: there must be no run yet.
AuditColumnsUp(t) == t.runs = {}
AuditColumnsDown(t) == [t EXCEPT !.runs = {[k EXCEPT !.seat = None] : k \in t.runs}]

\* 0007, 0009 and 0010 change what the CHECKs list; a row off the list fails the command.
SeatFits(t, seats) == \A k \in t.runs : k.seat \in seats
InsightSeatDown(t) == SeatFits(t, {"capture", "classify", "chat", "ask"})
AwaitingDown(t) == \A k \in t.runs : k.status \in {"done", "failed"}
McpSeatDown(t) == SeatFits(t, {"capture", "classify", "chat", "ask", "insight"})

\* 0008: a row changed last when it was made; the reports go with their table.
ReportCacheUp(t) == LET Date(e) == [e EXCEPT !.updated = e.created] IN OnEntries(t, Date)
ReportCacheDown(t) == LET Drop(e) == [e EXCEPT !.updated = None] IN
                      [OnEntries(t, Drop) EXCEPT !.reports = {}]

\* One revision up to n, or the one that is n down; None when the database refuses it.
RevisionUp(t, n) ==
    CASE n = 1 -> InitialSchema
      [] n = 2 -> DisplayOrderUp(t)
      [] n = 4 -> SearchableTextUp(t)
      [] n = 6 -> IF AuditColumnsUp(t) THEN t ELSE None
      [] n = 8 -> ReportCacheUp(t)
      [] OTHER -> t
RevisionDown(t, n) ==
    CASE n = 1 -> InitialSchema
      [] n = 3 -> CarriesForwardDown(t)
      [] n = 4 -> SearchableTextDown(t)
      [] n = 6 -> AuditColumnsDown(t)
      [] n = 7 -> IF InsightSeatDown(t) THEN t ELSE None
      [] n = 8 -> ReportCacheDown(t)
      [] n = 9 -> IF AwaitingDown(t) THEN t ELSE None
      [] n = 10 -> IF McpSeatDown(t) THEN t ELSE None
      [] OTHER -> t

\* A command goes revision by revision; once refused it stays refused.
Between(from, to) == IF from < to THEN to - from ELSE from - to
Revision(t, from, to, n) ==
    IF from < to THEN RevisionUp(t, from + n) ELSE RevisionDown(t, from + 1 - n)
Moved(t, from, to) ==
    LET moved[n \in 0..Between(from, to)] ==
            IF n = 0 THEN t
            ELSE LET u == moved[n - 1] IN IF u = None THEN None ELSE Revision(u, from, to, n) IN
    moved[Between(from, to)]

(***************************************************************************)
(* Commands, seeds and writes                                              *)
(***************************************************************************)

SchemaInit ==
    /\ revision = 0 /\ tables = InitialSchema /\ writes = 0
    /\ owed = [i \in EntryId |-> None]

\* env.py: all revisions of a command in one transaction, so a refused one leaves everything.
Migrate(to) ==
    LET moved == Moved(tables, revision, to) IN
    /\ to # revision /\ moved # None
    /\ revision' = to /\ tables' = moved
    /\ owed' = IF to = 0 THEN [i \in EntryId |-> None] ELSE owed
    /\ UNCHANGED writes

Runs == revision = Latest /\ tables.catalog # "none"
WriteTime == writes + 1
EntryRow(name) == [name |-> name, hash |-> SearchableText(name), created |-> WriteTime, updated |-> WriteTime]

\* The api seeds the reference rows whenever it starts: what is there is set right.
SeedReference ==
    /\ revision = Latest /\ tables' = [tables EXCEPT !.catalog = "placed"]
    /\ UNCHANGED <<revision, writes, owed>>

\* The examples go into an empty ledger only, the limits into its first month, which must have
\* none: a limit that is there fails the whole of it.
SeedDemo(name) ==
    /\ Runs /\ writes < MaxWritten
    /\ \A i \in EntryId : tables.entries[i] = None
    /\ tables.limits[Min(BudgetMonth)] = "absent"
    /\ tables' = [tables EXCEPT !.entries = [i \in EntryId |-> EntryRow(name)],
                                !.limits[Min(BudgetMonth)] = "some"]
    /\ owed' = [i \in EntryId |-> name] /\ writes' = WriteTime
    /\ UNCHANGED revision

WriteEntry(i, name) ==
    /\ Runs /\ writes < MaxWritten
    /\ LET old == tables.entries[i] IN
       tables' = [tables EXCEPT !.entries[i] =
           [EntryRow(name) EXCEPT !.created = IF old = None THEN WriteTime ELSE old.created]]
    /\ owed' = [owed EXCEPT ![i] = name] /\ writes' = WriteTime
    /\ UNCHANGED revision

RemoveEntry(i) ==
    /\ Runs /\ writes < MaxWritten /\ tables.entries[i] # None
    /\ tables' = [tables EXCEPT !.entries[i] = None]
    /\ owed' = [owed EXCEPT ![i] = None] /\ writes' = WriteTime
    /\ UNCHANGED revision

SetLimit(m, limit) ==
    /\ Runs /\ writes < MaxWritten /\ tables.limits[m] # limit
    /\ tables' = [tables EXCEPT !.limits[m] = limit] /\ writes' = WriteTime
    /\ UNCHANGED <<revision, owed>>

KeepRun(kind) ==
    /\ Runs /\ writes < MaxWritten /\ kind \notin tables.runs
    /\ tables' = [tables EXCEPT !.runs = @ \cup {kind}] /\ writes' = WriteTime
    /\ UNCHANGED <<revision, owed>>

There(t) == {i \in EntryId : t.entries[i] # None}
Content(t) == [i \in There(t) |-> t.entries[i].name]
DataVersion(t) == <<Cardinality(There(t)), Max({0} \cup {t.entries[i].updated : i \in There(t)})>>

KeepReport ==
    /\ Runs
    /\ tables' = [tables EXCEPT !.reports = @ \cup {[version |-> DataVersion(tables), of |-> Content(tables)]}]
    /\ tables' # tables
    /\ UNCHANGED <<revision, writes, owed>>

SchemaNext ==
    \/ \E to \in 0..Latest : Migrate(to)
    \/ SeedReference
    \/ \E name \in ShopName : SeedDemo(name)
    \/ \E i \in EntryId : RemoveEntry(i) \/ \E name \in ShopName : WriteEntry(i, name)
    \/ \E m \in BudgetMonth : \E limit \in {"none", "some"} : SetLimit(m, limit)
    \/ \E kind \in RunKind : KeepRun(kind)
    \/ KeepReport
SchemaSpec == SchemaInit /\ [][SchemaNext]_schema_vars

(***************************************************************************)
(* What the constants are, and what the rows are at each revision          *)
(***************************************************************************)

KeptSeat == {"capture", "classify", "chat", "ask", "insight", "mcp"}
KeptStatus == {"done", "failed", "awaiting_confirmation", "aborted"}
EntryRows ==
    [name : ShopName, hash : {SearchableText(name) : name \in ShopName} \cup {None},
     created : Nat, updated : Nat \cup {None}]
KeptReport ==
    [version : Nat \X Nat, of : UNION {[there -> ShopName] : there \in SUBSET EntryId}]
SchemaTables ==
    [entries : [EntryId -> EntryRows \cup {None}], limits : [BudgetMonth -> {"absent", "none", "some"}],
     runs : SUBSET [seat : KeptSeat \cup {None}, status : KeptStatus],
     catalog : {"none", "unplaced", "placed"}, reports : SUBSET KeptReport]

ASSUME SchemaAssumption ==
    /\ IsFiniteSet(EntryId) /\ RunKind \subseteq [seat : KeptSeat, status : KeptStatus]
    /\ None \notin KeptSeat /\ None \notin EntryRows /\ None \notin SchemaTables

NamesIn(t) == [i \in EntryId |-> IF t.entries[i] = None THEN None ELSE t.entries[i].name]

\* A row of revision k, after w writes.
RowFits(e, k, w) ==
    /\ e.created \in 1..w
    /\ e.hash = IF k >= 4 THEN SearchableText(e.name) ELSE None
    /\ IF k >= 8 THEN e.updated \in 1..w ELSE e.updated = None

\* What a report is of holds every entry that has not changed since.
ReportStands(r, t, w) ==
    /\ r.version[1] = Cardinality(DOMAIN r.of) /\ r.version[2] <= w
    /\ \A i \in There(t) : t.entries[i].updated <= r.version[2] =>
          i \in DOMAIN r.of /\ r.of[i] = t.entries[i].name

TablesFit(t, k, w, written) ==
    /\ t \in SchemaTables
    /\ IF k = 0 THEN t = InitialSchema ELSE NamesIn(t) = written
    /\ \A i \in There(t) : RowFits(t.entries[i], k, w)
    /\ k >= 6 => \A run \in t.runs : run.seat # None
    /\ IF k >= 8 THEN \A r \in t.reports : ReportStands(r, t, w) ELSE t.reports = {}

SchemaInductive ==
    /\ revision \in 0..Latest /\ writes \in Nat /\ owed \in [EntryId -> ShopName \cup {None}]
    /\ revision = 0 => owed = NamesIn(InitialSchema)
    /\ TablesFit(tables, revision, writes, owed)

-----------------------------------------------------------------------------

EmptyAtLatest == Moved(InitialSchema, 0, Latest)

\* Whatever way the schema has gone, the last revision holds what the program relies on: every
\* entry that was written and not removed, under the hash the program asks for (revision 0004 and
\* sql_transaction_repository), and no report under today's version that is of other entries
\* (0008).  The runs fit the lists of their revision, and only runs that went below 0006 keep the
\* schema from going up again.
SchemaIsWhole ==
    /\ revision > 0 => NamesIn(tables) = owed
    /\ revision = Latest =>
          /\ \A i \in There(tables) : tables.entries[i].hash = SearchableText(tables.entries[i].name)
          /\ \A r \in tables.reports : r.version = DataVersion(tables) => r.of = Content(tables)
    /\ revision >= 6 => \A k \in tables.runs : k.seat # None
    /\ EmptyAtLatest # None
    /\ revision > 0 /\ Moved(tables, revision, Latest) = None => revision < 6 /\ tables.runs # {}
=============================================================================
