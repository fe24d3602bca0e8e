------------------------- MODULE ReportCacheProofs -------------------------
(* Theorems about ReportCache for every value of its constants. *)
EXTENDS ReportCache, NumberFacts

USE RowAssumption, BoundAssumption

-----------------------------------------------------------------------------
(* The version of the data *)

\* What the newest time of a table is, where the times have a bound.
LEMMA NewestIs ==
    ASSUME NEW s \in State, NEW table \in SUBSET Row, NEW b \in Nat, \A r \in table : s[r] <= b
    PROVE  /\ Newest(s, table) \in 0..b
           /\ \A r \in table : s[r] <= Newest(s, table)
           /\ Newest(s, table) # 0 => \E r \in table : s[r] = Newest(s, table)
  <1> DEFINE T == {s[r] : r \in table} \cup {0}
  <1>1. T \in SUBSET Nat /\ T # {} /\ \A t \in T : t <= b
    BY DEF State
  <1>2. Newest(s, table) \in T /\ \A t \in T : t <= Newest(s, table)
    <2>1. Newest(s, table) = Max(T)
      BY DEF Newest
    <2> HIDE DEF T
    <2> QED BY <1>1, <2>1, MaxOfBounded
  <1> QED BY <1>1, <1>2

\* The rows of a table are finitely many, and one less without one of them.
LEMMA ThereIs ==
    ASSUME NEW s, NEW table \in SUBSET Row
    PROVE  IsFiniteSet(There(s, table)) /\ Cardinality(There(s, table)) \in Nat
  BY FS_Subset, FS_CardinalityType DEF There

\* A version of the data is a key.
LEMMA VersionType ==
    ASSUME NEW s \in State, NEW b \in Nat, \A r \in Row : s[r] <= b
    PROVE  Version(s) \in Key
  <1>1. Row \ Budgets \in SUBSET Row /\ Budgets \in SUBSET Row
    OBVIOUS
  <1>2. Newest(s, Row \ Budgets) \in Nat /\ Newest(s, Budgets) \in Nat
    BY <1>1, NewestIs
  <1> QED BY <1>1, <1>2, ThereIs DEF Version, Key

\* Of a table, the number of rows and the newest time tell the rows from what they were.
LEMMA SameTable ==
    ASSUME TypeOK, WritesInHand, NEW d \in State, NEW table \in SUBSET Row,
           \A r \in table : d[r] <= clock,
           NewerThan(d, table), Newest(d, table) = Newest(rows, table),
           Cardinality(There(d, table)) = Cardinality(There(rows, table))
    PROVE  \A r \in table : rows[r] = d[r]
  <1>1. rows \in State /\ clock \in Nat /\ \A r \in table : rows[r] <= clock
    BY DEF TypeOK, WritesInHand
  <1> DEFINE n == Newest(d, table)
  <1>2. /\ n \in Nat
        /\ \A r \in table : rows[r] <= n /\ d[r] <= n
        /\ n # 0 => \E p \in table : rows[p] = n
    BY <1>1, NewestIs
  <1>3. CASE n = 0
    <2>1. \A r \in table : rows[r] \in Nat /\ d[r] \in Nat
      BY <1>1 DEF State
    <2> QED BY <1>2, <1>3, <2>1
  <1>4. CASE n # 0
    <2>1. \A r \in table : rows[r] \in {0, d[r]} \/ rows[r] > n
      BY <1>2, <1>4 DEF NewerThan
    <2>2. \A r \in table : rows[r] \in Nat /\ rows[r] <= n
      BY <1>1, <1>2 DEF State
    <2>3. \A r \in table : rows[r] \in {0, d[r]}
      BY <1>2, <2>1, <2>2
    <2>4. There(rows, table) \in SUBSET There(d, table)
      BY <2>3 DEF There
    <2>5. There(rows, table) = There(d, table)
      BY <2>4, ThereIs, FS_Subset
    <2> QED BY <2>3, <2>5 DEF There
  <1> QED BY <1>3, <1>4

\* The version tells the data from every state it has been in.
LEMMA SameVersion ==
    ASSUME TypeOK, WritesInHand, ~behind, NEW d \in State, Past(d), Version(d) = Now
    PROVE  d = rows
  <1>1. Row \ Budgets \in SUBSET Row /\ Budgets \in SUBSET Row
    OBVIOUS
  <1>2. \A r \in Row \ Budgets : rows[r] = d[r]
    <2>1. /\ Newest(d, Row \ Budgets) = Newest(rows, Row \ Budgets)
          /\ Cardinality(There(d, Row \ Budgets)) = Cardinality(There(rows, Row \ Budgets))
      BY DEF Version, Now
    <2> QED BY <1>1, <2>1, SameTable DEF Past
  <1>3. \A r \in Budgets : rows[r] = d[r]
    <2>1. /\ Newest(d, Budgets) = Newest(rows, Budgets)
          /\ Cardinality(There(d, Budgets)) = Cardinality(There(rows, Budgets))
      BY DEF Version, Now
    <2> QED BY <1>1, <2>1, SameTable DEF Past
  <1>4. rows \in State
    BY DEF TypeOK
  <1> QED BY <1>2, <1>3, <1>4 DEF State

\* A commit in order is newer than all there is, or takes a row that no budget is away.
LEMMA CommitIsSeen ==
    ASSUME TypeOK, WritesInHand, NEW w \in Writer, Commit(w), InOrder(w)
    PROVE  Version(rows') # Version(rows)
  <1> DEFINE r == writes[w].row
             at == writes[w].at
  <1>1. /\ rows \in State /\ clock \in Nat /\ \A q \in Row : rows[q] <= clock
        /\ writes[w] \in [row : Row, at : Nat, to : Nat]
    BY DEF TypeOK, WritesInHand, Commit
  <1>2. /\ r \in Row /\ at \in 1..clock /\ writes[w].to \in {0, at}
        /\ writes[w].to = 0 => r \notin Budgets /\ rows[r] # 0
        /\ rows' = [rows EXCEPT ![r] = writes[w].to]
    BY <1>1 DEF WritesInHand, Commit
  <1>3. rows' \in State /\ \A q \in Row : rows'[q] <= clock
    BY <1>1, <1>2 DEF State
  <1>4. CASE writes[w].to = 0
    <2> DEFINE table == Row \ Budgets
    <2>1. There(rows', table) = There(rows, table) \ {r} /\ r \in There(rows, table)
      BY <1>1, <1>2, <1>4 DEF There, State
    <2>2. Cardinality(There(rows', table)) = Cardinality(There(rows, table)) - 1
      <3> DEFINE before == There(rows, table)
      <3>1. IsFiniteSet(before)
        BY ThereIs
      <3>2. Cardinality(before \ {r}) = Cardinality(before) - 1
        <4>1. r \in before
          BY <2>1
        <4> HIDE DEF before
        <4> QED BY <3>1, <4>1, FS_RemoveElement, ZenonT(60)
      <3> QED BY <2>1, <3>2
    <2>3. Cardinality(There(rows, table)) \in Nat
      BY ThereIs
    <2>4. Cardinality(There(rows', table)) # Cardinality(There(rows, table))
      BY <2>2, <2>3
    <2> QED BY <2>4 DEF Version
  <1>5. CASE writes[w].to = at
    <2>1. PICK table \in {Row \ Budgets, Budgets} : r \in table
      BY <1>2
    <2>2. table \in SUBSET Row
      OBVIOUS
    <2>3. at <= Newest(rows', table)
      <3>1. rows'[r] = at
        BY <1>1, <1>2, <1>5 DEF State
      <3> QED BY <1>1, <1>3, <2>1, <2>2, <3>1, NewestIs
    <2>4. Newest(rows, table) < at
      <3>1. Newest(rows, table) \in Nat /\ Newest(rows, Row) \in Nat
        BY <1>1, <2>2, NewestIs
      <3>2. Newest(rows, table) <= Newest(rows, Row)
        BY <1>1, <2>2, <3>1, NewestIs
      <3> QED BY <1>2, <3>1, <3>2 DEF InOrder
    <2>5. Newest(rows', table) \in Nat /\ Newest(rows, table) \in Nat
      <3>1. Newest(rows', table) \in 0..clock
        BY <1>1, <1>3, <2>2, NewestIs
      <3>2. Newest(rows, table) \in 0..clock
        BY <1>1, <2>2, NewestIs
      <3> QED BY <1>1, <3>1, <3>2
    <2>6. Newest(rows', table) # Newest(rows, table)
      BY <1>2, <2>3, <2>4, <2>5
    <2> QED BY <2>1, <2>6 DEF Version
  <1> QED BY <1>2, <1>4, <1>5

-----------------------------------------------------------------------------
(* Types, and what is written and not committed *)

\* No row is newer than the newest.
LEMMA FirstTimes == \A r \in Row : FirstRows[r] <= Newest(FirstRows, Row)
  <1> DEFINE T == {FirstRows[r] : r \in Row}
  <1>1. T \in SUBSET Nat /\ FirstRows \in Surjection(Row, T)
    BY DEF Surjection
  <1>2. IsFiniteSet(T)
    <2> HIDE DEF T
    <2> QED BY <1>1, FS_Surjection
  <1>3. PICK b \in Nat : \A t \in T : t <= b
    <2> HIDE DEF T
    <2> QED BY <1>1, <1>2, FiniteIsBounded
  <1>4. FirstRows \in State /\ \A r \in Row : FirstRows[r] <= b
    BY <1>3 DEF State
  <1> QED BY <1>4, NewestIs

\* So is the version now.
LEMMA NowType == TypeOK /\ WritesInHand => Now \in Key
  BY VersionType DEF TypeOK, WritesInHand, Now

\* The types hold at the start.
LEMMA InitTypes == Init => TypeOK /\ WritesInHand
  <1> SUFFICES ASSUME Init PROVE TypeOK /\ WritesInHand
    OBVIOUS
  <1>1. FirstRows \in State /\ Newest(FirstRows, Row) \in Nat
    <2>1. FirstRows \in State /\ Row \in SUBSET Row
      BY DEF State
    <2>2. PICK b \in Nat : \A r \in Row : FirstRows[r] <= b
      <3> DEFINE T == {FirstRows[r] : r \in Row}
      <3>1. T \in SUBSET Nat /\ FirstRows \in Surjection(Row, T)
        BY DEF Surjection
      <3>2. \E b \in Nat : \A t \in T : t <= b
        <4> HIDE DEF T
        <4> QED BY <3>1, FS_Surjection, FiniteIsBounded
      <3> QED BY <3>2
    <2> QED BY <2>1, <2>2, NewestIs
  <1>2. NoReport \in Report
    BY DEF NoReport, Report, State
  <1>3. TypeOK
    <2>1. pc \in [Request -> Place] /\ key \in [Request -> Key \cup {None}]
      BY DEF Init, Place
    <2>2. /\ writes \in [Writer -> [row : Row, at : Nat, to : Nat] \cup {None}]
          /\ report \in [Request -> Report]
          /\ looks \in [Request -> Nat] /\ again \in [Request -> 0..1]
      BY <1>2 DEF Init
    <2>3. rows \in State /\ {clock, opens} \subseteq Nat
      BY <1>1 DEF Init
    <2>4. behind \in BOOLEAN
      BY Zenon DEF Init
    <2>5. cache \subseteq Entry /\ puts \subseteq Entry
      BY DEF Init
    <2> QED BY <2>1, <2>2, <2>3, <2>4, <2>5 DEF TypeOK
  <1>4. WritesInHand
    BY FirstTimes DEF Init, WritesInHand
  <1> QED BY <1>3, <1>4

\* Who leaves keeps its types.
LEMMA LeaveTypes ==
    ASSUME TypeOK, NEW x \in Request, Leave(x)
    PROVE  /\ pc' \in [Request -> Place] /\ key' \in [Request -> Key \cup {None}]
           /\ report' \in [Request -> Report] /\ looks' \in [Request -> Nat]
           /\ again' \in [Request -> 0..1]
  <1>1. NoReport \in Report
    BY DEF NoReport, Report, State
  <1> QED BY <1>1 DEF Leave, Goto, TypeOK, Place

\* Every step of a writer or of a request keeps the types.
LEMMA TypesKept ==
    ASSUME TypeOK, WritesInHand, KeysInHand, [Next]_vars
    PROVE  TypeOK'
  <1> USE DEF TypeOK
  <1>1. ASSUME NEW w \in Writer, NEW r \in Row, NEW gone \in BOOLEAN, Write(w, r, gone)
        PROVE  TypeOK'
    <2>1. clock' \in Nat /\ opens' \in Nat
      BY <1>1 DEF Write
    <2>2. writes' \in [Writer -> [row : Row, at : Nat, to : Nat] \cup {None}]
      BY <1>1 DEF Write
    <2> QED BY <1>1, <2>1, <2>2 DEF Write, request_vars
  <1>2. ASSUME NEW w \in Writer, Commit(w) PROVE TypeOK'
    <2>1. rows' \in State
      BY <1>2 DEF Commit, State
    <2>2. writes' \in [Writer -> [row : Row, at : Nat, to : Nat] \cup {None}]
      BY <1>2 DEF Commit
    <2>3. report' \in [Request -> Report]
      <3>1. \A x \in Request : report[x] \in Report /\ [report[x] EXCEPT !.mixed = TRUE] \in Report
        BY DEF Report
      <3> QED BY <1>2, <3>1 DEF Commit
    <2>4. behind' \in BOOLEAN
      BY <1>2 DEF Commit, InOrder
    <2> QED BY <1>2, <2>1, <2>2, <2>3, <2>4 DEF Commit
  <1>3. ASSUME NEW x \in Request, Open(x) PROVE TypeOK'
    <2>1. key' \in [Request -> Key \cup {None}]
      BY <1>3, NowType DEF Open
    <2>2. pc' \in [Request -> Place]
      BY <1>3 DEF Open, Goto, Place
    <2> QED BY <1>3, <2>1, <2>2 DEF Open, data_vars, cache_vars
  <1>4. ASSUME NEW x \in Request, Hit(x) \/ GiveUp(x) PROVE TypeOK'
    <2>1. Leave(x) /\ UNCHANGED <<data_vars, cache_vars, opens>>
      BY <1>4 DEF Hit, GiveUp
    <2> QED BY <2>1, LeaveTypes DEF data_vars, cache_vars
  <1>5. ASSUME NEW x \in Request, Miss(x) PROVE TypeOK'
    BY <1>5 DEF Miss, Goto, Place, data_vars, cache_vars
  <1>6. ASSUME NEW x \in Request, LookFixed(x) PROVE TypeOK'
    <2>1. report' \in [Request -> Report]
      BY <1>6 DEF LookFixed, Report
    <2> QED BY <1>6, <2>1 DEF LookFixed, Goto, Place, data_vars, cache_vars
  <1>7. ASSUME NEW x \in Request, Malformed(x) PROVE TypeOK'
    BY <1>7 DEF Malformed, data_vars, cache_vars
  <1>8. ASSUME NEW x \in Request, Plan(x) PROVE TypeOK'
    BY <1>8 DEF Plan, Asks, Goto, Place, data_vars, cache_vars
  <1>9. ASSUME NEW x \in Request, Look(x) PROVE TypeOK'
    <2>1. report' \in [Request -> Report]
      <3>1. PICK found \in {"all", "some", "nothing", "dropped"} :
                report' = [report EXCEPT ![x].data = rows,
                              ![x].whole = @ /\ found \in {"all", "nothing"}]
        BY <1>9 DEF Look
      <3> DEFINE now == [report[x] EXCEPT !.data = rows,
                             !.whole = @ /\ found \in {"all", "nothing"}]
      <3>2. now \in Report
        BY DEF Report
      <3>3. report' = [report EXCEPT ![x] = now]
        BY <3>1
      <3> QED BY <3>2, <3>3
    <2>2. pc' \in [Request -> Place]
      BY <1>9 DEF Look, Goto, Place
    <2>3. looks' \in [Request -> Nat]
      BY <1>9 DEF Look
    <2> QED BY <1>9, <2>1, <2>2, <2>3 DEF Look, data_vars, cache_vars
  <1>10. ASSUME NEW x \in Request, Assemble(x) PROVE TypeOK'
    <2>1. CASE Leave(x)
      BY <1>10, <2>1, LeaveTypes DEF Assemble, data_vars, cache_vars
    <2>2. CASE Asks(x) /\ Goto(x, "store") /\ UNCHANGED <<key, report, looks>>
      BY <1>10, <2>2 DEF Assemble, Asks, Goto, Place, data_vars, cache_vars
    <2> QED BY <1>10, <2>1, <2>2 DEF Assemble
  <1>11. ASSUME NEW x \in Request, Store(x) PROVE TypeOK'
    <2>1. [key |-> key[x], report |-> report[x]] \in Entry
      BY <1>11 DEF Entry, Store, KeysInHand
    <2>2. cache' \subseteq Entry /\ puts' \subseteq Entry
      BY <1>11, <2>1 DEF Store, Put, cache_vars
    <2> QED BY <1>11, <2>2, LeaveTypes DEF Store, data_vars
  <1>12. CASE UNCHANGED vars
    BY <1>12 DEF vars, data_vars, request_vars
  <1> QED
    BY <1>1, <1>2, <1>3, <1>4, <1>5, <1>6, <1>7, <1>8, <1>9, <1>10, <1>11, <1>12
    DEF Next, Serve

\* A transaction takes a time of its own, and when it commits nobody else has its time.
LEMMA WritesKept ==
    ASSUME TypeOK, WritesInHand, [Next]_vars
    PROVE  WritesInHand'
  <1>1. ASSUME NEW w \in Writer, NEW r \in Row, NEW gone \in BOOLEAN, Write(w, r, gone)
        PROVE  WritesInHand'
    <2> DEFINE mine == [row |-> r, at |-> clock + 1, to |-> IF gone THEN 0 ELSE clock + 1]
    <2>1. /\ rows' = rows /\ clock' = clock + 1 /\ clock \in Nat
          /\ writes' = [writes EXCEPT ![w] = mine]
      BY <1>1 DEF Write, TypeOK
    <2>2. \A q \in Row : rows[q] \in Nat /\ rows[q] <= clock
      BY DEF TypeOK, State, WritesInHand
    <2>3. \A v \in Writer \ {w} : writes'[v] = writes[v]
      BY <2>1 DEF TypeOK
    <2>4. writes'[w] = mine
      BY <2>1 DEF TypeOK
    <2>5. ASSUME NEW v \in Writer \ {w}, writes[v] # None
          PROVE  /\ writes[v].at \in 1..clock /\ writes[v].at # mine.at
                 /\ writes[v].row # mine.row
      BY <1>1, <2>1, <2>5 DEF WritesInHand, Write
    <2>6. ASSUME writes'[w] # None
          PROVE  /\ writes'[w].at \in 1..clock' /\ writes'[w].to \in {0, writes'[w].at}
                 /\ writes'[w].to = 0 =>
                        writes'[w].row \notin Budgets /\ rows'[writes'[w].row] # 0
                 /\ \A q \in Row : rows'[q] # writes'[w].at
                 /\ \A v \in Writer \ {w} : writes'[v] # None =>
                        writes'[v].at # writes'[w].at /\ writes'[v].row # writes'[w].row
      <3>1. /\ mine.at \in 1..clock' /\ mine.to \in {0, mine.at}
            /\ mine.to = 0 => mine.row \notin Budgets /\ rows'[mine.row] # 0
        BY <1>1, <2>1 DEF Write
      <3>2. \A q \in Row : rows'[q] # mine.at
        BY <2>1, <2>2
      <3> QED BY <2>3, <2>4, <2>5, <3>1, <3>2
    <2>7. ASSUME NEW v \in Writer \ {w}, writes'[v] # None
          PROVE  /\ writes'[v].at \in 1..clock' /\ writes'[v].to \in {0, writes'[v].at}
                 /\ writes'[v].to = 0 =>
                        writes'[v].row \notin Budgets /\ rows'[writes'[v].row] # 0
                 /\ \A q \in Row : rows'[q] # writes'[v].at
                 /\ \A u \in Writer \ {v} : writes'[u] # None =>
                        writes'[u].at # writes'[v].at /\ writes'[u].row # writes'[v].row
      <3>1. writes[v] # None /\ writes'[v] = writes[v]
        BY <2>3, <2>7
      <3>2. \A u \in Writer \ {v} : writes'[u] # None =>
                writes'[u].at # writes'[v].at /\ writes'[u].row # writes'[v].row
        <4>1. ASSUME NEW u \in Writer \ {v, w}, writes'[u] # None
              PROVE  writes'[u].at # writes'[v].at /\ writes'[u].row # writes'[v].row
          BY <2>3, <3>1, <4>1 DEF WritesInHand
        <4>2. writes'[w].at # writes'[v].at /\ writes'[w].row # writes'[v].row
          BY <2>4, <2>5, <3>1
        <4> QED BY <4>1, <4>2
      <3> QED BY <2>1, <3>1, <3>2 DEF WritesInHand
    <2>8. \A q \in Row : rows'[q] <= clock'
      BY <2>1, <2>2
    <2> QED BY <2>6, <2>7, <2>8 DEF WritesInHand
  <1>2. ASSUME NEW w \in Writer, Commit(w) PROVE WritesInHand'
    <2>1. /\ rows' = [rows EXCEPT ![writes[w].row] = writes[w].to]
          /\ clock' = clock /\ clock \in Nat /\ writes[w] # None
          /\ writes' = [writes EXCEPT ![w] = None]
          /\ writes[w] \in [row : Row, at : Nat, to : Nat]
      BY <1>2 DEF Commit, TypeOK
    <2>2. /\ writes[w].at \in 1..clock /\ writes[w].to \in {0, writes[w].at}
          /\ rows \in [Row -> Nat]
      BY <2>1 DEF WritesInHand, TypeOK, State
    <2>3. \A q \in Row : rows'[q] = IF q = writes[w].row THEN writes[w].to ELSE rows[q]
      BY <2>1, <2>2
    <2>4. \A v \in Writer : writes'[v] # None => v # w /\ writes'[v] = writes[v]
      BY <2>1 DEF TypeOK
    <2>5. \A q \in Row : rows'[q] <= clock'
      BY <2>1, <2>2, <2>3 DEF WritesInHand
    <2>6. ASSUME NEW v \in Writer, writes'[v] # None
          PROVE  /\ writes'[v].at \in 1..clock' /\ writes'[v].to \in {0, writes'[v].at}
                 /\ writes'[v].to = 0 =>
                        writes'[v].row \notin Budgets /\ rows'[writes'[v].row] # 0
                 /\ \A q \in Row : rows'[q] # writes'[v].at
                 /\ \A u \in Writer \ {v} : writes'[u] # None =>
                        writes'[u].at # writes'[v].at /\ writes'[u].row # writes'[v].row
      <3>1. v # w /\ writes'[v] = writes[v] /\ writes[v] # None
        BY <2>4, <2>6
      <3>2. /\ writes[v].at \in 1..clock /\ writes[v].to \in {0, writes[v].at}
            /\ writes[v].at # writes[w].at /\ writes[v].row # writes[w].row
            /\ writes[v].to = 0 => writes[v].row \notin Budgets /\ rows[writes[v].row] # 0
            /\ \A q \in Row : rows[q] # writes[v].at
        BY <2>1, <3>1 DEF WritesInHand
      <3>3. writes[v].row \in Row
        BY <3>1 DEF TypeOK
      <3>4. rows'[writes[v].row] = rows[writes[v].row]
        BY <2>3, <3>2, <3>3
      <3>5. \A q \in Row : rows'[q] # writes[v].at
        BY <2>2, <2>3, <3>2
      <3>6. \A u \in Writer \ {v} : writes'[u] # None =>
                writes'[u].at # writes[v].at /\ writes'[u].row # writes[v].row
        BY <2>4, <3>1 DEF WritesInHand
      <3> QED BY <2>1, <3>1, <3>2, <3>4, <3>5, <3>6
    <2> QED BY <2>5, <2>6 DEF WritesInHand
  <1>3. ASSUME NEW x \in Request, Open(x) \/ Serve(x) \/ GiveUp(x)
        PROVE  UNCHANGED data_vars
    BY <1>3 DEF Open, Serve, GiveUp, Hit, Miss, LookFixed, Malformed, Plan, Look, Assemble, Store
  <1>4. CASE UNCHANGED data_vars
    BY <1>4 DEF data_vars, WritesInHand
  <1> QED BY <1>1, <1>2, <1>3, <1>4 DEF Next, vars

-----------------------------------------------------------------------------
(* What is cached has been the data *)

\* What the data was at one time it has been at every later time.
LEMMA PastStays ==
    ASSUME TypeOK, WritesInHand, NEW d \in State, Past(d), [Next]_vars
    PROVE  Past(d)'
  <1>1. ASSUME NEW w \in Writer, NEW r \in Row, NEW gone \in BOOLEAN, Write(w, r, gone)
        PROVE  Past(d)'
    <2>1. /\ rows' = rows /\ clock' = clock + 1 /\ behind' = behind /\ clock \in Nat
          /\ \A v \in Writer : writes'[v] = writes[v] \/ writes'[v].at = clock + 1
      BY <1>1 DEF Write, TypeOK
    <2>2. \A q \in Row : d[q] \in Nat /\ d[q] <= clock
      BY DEF Past, State
    <2>3. \A q \in Row : d[q] <= clock'
      BY <2>1, <2>2
    <2>4. ASSUME NEW v \in Writer, writes'[v] # None
          PROVE  \A q \in Row : d[q] # writes'[v].at
      BY <2>1, <2>2, <2>4 DEF Past
    <2>5. ~behind' => NewerThan(d, Row \ Budgets)' /\ NewerThan(d, Budgets)'
      BY <2>1 DEF Past, NewerThan
    <2> QED BY <2>3, <2>4, <2>5 DEF Past
  <1>2. ASSUME NEW w \in Writer, Commit(w) PROVE Past(d)'
    <2> DEFINE r == writes[w].row
               at == writes[w].at
    <2>1. /\ rows' = [rows EXCEPT ![r] = writes[w].to]
          /\ clock' = clock /\ clock \in Nat /\ writes[w] # None
          /\ behind' = (behind \/ ~InOrder(w))
          /\ writes' = [writes EXCEPT ![w] = None]
      BY <1>2 DEF Commit, TypeOK
    <2>2. /\ at \in 1..clock /\ writes[w].to \in {0, at} /\ r \in Row
          /\ \A q \in Row : d[q] # at
      BY <2>1 DEF WritesInHand, TypeOK, Past
    <2>3. \A q \in Row : rows'[q] = IF q = r THEN writes[w].to ELSE rows[q]
      BY <2>1, <2>2 DEF TypeOK, State
    <2>4. ASSUME NEW table \in SUBSET Row, NewerThan(d, table), InOrder(w)
          PROVE  NewerThan(d, table)'
      <3>1. /\ \A q \in table : d[q] <= Newest(d, table)
            /\ Newest(d, table) # 0 => \E q \in table : d[q] = Newest(d, table)
            /\ Newest(d, table) \in Nat
        <4>1. \A q \in table : d[q] <= clock
          BY DEF Past
        <4>2. Newest(d, table) \in 0..clock
          BY <2>1, <4>1, NewestIs
        <4> QED BY <2>1, <4>1, <4>2, NewestIs
      <3>2. SUFFICES ASSUME NEW p \in table, rows'[p] = Newest(d, table), rows'[p] # 0
                     PROVE  \A q \in table :
                                rows'[q] \in {0, d[q]} \/ rows'[q] > Newest(d, table)
        BY DEF NewerThan
      <3>3. p # r
        BY <2>2, <2>3, <3>1, <3>2
      <3>4. rows[p] = Newest(d, table) /\ rows[p] # 0
        BY <2>3, <3>2, <3>3
      <3>5. \A q \in table : rows[q] \in {0, d[q]} \/ rows[q] > Newest(d, table)
        BY <2>4, <3>4 DEF NewerThan
      <3>6. at > Newest(d, table)
        <4>1. /\ Row \in SUBSET Row /\ rows \in State /\ \A q \in Row : rows[q] <= clock
          BY DEF TypeOK, WritesInHand
        <4>2. /\ Newest(rows, Row) \in Nat
              /\ rows[p] <= Newest(rows, Row)
          BY <2>1, <4>1, NewestIs
        <4> QED BY <2>2, <2>4, <3>1, <3>4, <4>2 DEF InOrder
      <3> QED BY <2>2, <2>3, <3>5, <3>6
    <2>5. ~behind' => NewerThan(d, Row \ Budgets)' /\ NewerThan(d, Budgets)'
      <3>1. SUFFICES ASSUME ~behind' PROVE NewerThan(d, Row \ Budgets)' /\ NewerThan(d, Budgets)'
        OBVIOUS
      <3>2. ~behind /\ InOrder(w)
        BY <2>1, <3>1
      <3> QED BY <2>4, <3>2 DEF Past
    <2>6. \A v \in Writer : writes'[v] # None => \A q \in Row : d[q] # writes'[v].at
      BY <2>1 DEF Past, TypeOK
    <2> QED BY <2>1, <2>5, <2>6 DEF Past
  <1>3. ASSUME NEW x \in Request, Open(x) \/ Serve(x) \/ GiveUp(x)
        PROVE  UNCHANGED data_vars
    BY <1>3 DEF Open, Serve, GiveUp, Hit, Miss, LookFixed, Malformed, Plan, Look, Assemble, Store
  <1>4. CASE UNCHANGED data_vars
    BY <1>4 DEF data_vars, Past, NewerThan
  <1> QED BY <1>1, <1>2, <1>3, <1>4 DEF Next, vars

\* The data as it is has been the data.
LEMMA NowIsPast ==
    ASSUME TypeOK, WritesInHand
    PROVE  Past(rows)
  <1>1. ASSUME NEW table \in SUBSET Row PROVE NewerThan(rows, table)
    BY DEF NewerThan
  <1> QED BY <1>1 DEF Past, WritesInHand

\* What ReportsInHand says of one request.
HandAt(x) ==
    ~report[x].mixed =>
        /\ pc[x] \in Reading /\ key[x] # None => key[x] = Now
        /\ pc[x] \in {"plan", "look"} => report[x].data = rows
        /\ pc[x] \in {"assemble", "store"} /\ key[x] # None => KeptUnder(key[x], report[x].data)

\* A request that stands where it stood, while nothing it reads is committed.
LEMMA StandsKept ==
    ASSUME TypeOK, WritesInHand, [Next]_vars, NEW x \in Request, HandAt(x),
           pc'[x] = pc[x], key'[x] = key[x], report'[x] = report[x],
           rows' = rows \/ pc[x] \notin Reading
    PROVE  HandAt(x)'
  <1>1. SUFFICES ASSUME ~report[x].mixed PROVE HandAt(x)'
    BY DEF HandAt
  <1>2. pc[x] \in Reading /\ key[x] # None => key'[x] = Now'
    BY <1>1 DEF HandAt, Now
  <1>3. pc[x] \in {"plan", "look"} => report'[x].data = rows'
    BY <1>1 DEF HandAt, Reading
  <1>4. ASSUME pc[x] \in {"assemble", "store"}, key[x] # None
        PROVE  KeptUnder(key[x], report[x].data)'
    <2>1. PICK d \in State : d = report[x].data
      BY DEF TypeOK, Report
    <2>2. key[x] = Version(d) /\ Past(d)
      BY <1>1, <1>4, <2>1 DEF HandAt, KeptUnder
    <2>3. Past(d)'
      BY <2>2, PastStays
    <2> QED BY <2>1, <2>2, <2>3 DEF KeptUnder, Past, NewerThan
  <1> QED BY <1>2, <1>3, <1>4 DEF HandAt

\* Every step of a request leaves it with the version of the data it has looked at.
LEMMA MoveKept ==
    ASSUME TypeOK, WritesInHand, KeysInHand, NEW x \in Request, HandAt(x),
           Open(x) \/ Serve(x) \/ GiveUp(x)
    PROVE  HandAt(x)'
  <1> USE DEF TypeOK
  <1>1. UNCHANGED data_vars
    BY DEF Open, Serve, GiveUp, Hit, Miss, LookFixed, Malformed, Plan, Look, Assemble, Store
  <1>2. Now' = Now /\ rows' = rows
    BY <1>1 DEF Now, data_vars
  <1>3. CASE Open(x)
    <2>1. pc'[x] \in {"lookup", "fixed"} /\ key'[x] \in {None, Now}
      BY <1>3 DEF Open, Goto, KeysInHand
    <2> QED BY <1>2, <2>1 DEF HandAt
  <1>4. CASE Leave(x)
    <2>1. pc'[x] = "idle"
      BY <1>4 DEF Leave, Goto
    <2> QED BY <2>1 DEF HandAt, Reading
  <1>5. CASE Miss(x)
    <2>1. pc[x] = "lookup" /\ pc'[x] = "fixed" /\ key'[x] = key[x] /\ report'[x] = report[x]
      BY <1>5 DEF Miss, Goto
    <2> QED BY <1>2, <2>1 DEF HandAt, Reading
  <1>6. CASE LookFixed(x)
    <2>1. /\ pc[x] = "fixed" /\ pc'[x] = "plan" /\ key'[x] = key[x]
          /\ report'[x].data = rows /\ report'[x].mixed = report[x].mixed
      BY <1>6 DEF LookFixed, Goto, Report
    <2> QED BY <1>2, <2>1 DEF HandAt, Reading
  <1>7. CASE Malformed(x)
    <2>1. pc'[x] = pc[x] /\ key'[x] = key[x] /\ report'[x] = report[x]
      BY <1>7 DEF Malformed
    <2> QED BY <1>1, <1>2, <2>1
        DEF HandAt, KeptUnder, Past, NewerThan, data_vars
  <1>8. CASE Plan(x)
    <2>1. /\ pc[x] = "plan" /\ pc'[x] \in {"look", "assemble"} /\ key'[x] = key[x]
          /\ report'[x] = report[x]
      BY <1>8 DEF Plan, Goto
    <2>2. ~report[x].mixed =>
            report[x].data = rows /\ (key[x] # None => KeptUnder(key[x], rows))
      BY <2>1, NowIsPast DEF HandAt, Reading, KeptUnder, Now
    <2> QED BY <1>1, <1>2, <2>1, <2>2
        DEF HandAt, Reading, KeptUnder, Past, NewerThan, data_vars, Now
  <1>9. CASE Look(x)
    <2>1. /\ pc[x] = "look" /\ pc'[x] \in {"plan", "assemble"} /\ key'[x] = key[x]
          /\ report'[x].data = rows /\ report'[x].mixed = report[x].mixed
      BY <1>9 DEF Look, Goto, Report
    <2>2. ~report[x].mixed => (key[x] # None => key[x] = Now /\ KeptUnder(key[x], rows))
      BY <2>1, NowIsPast DEF HandAt, Reading, KeptUnder, Now
    <2> QED BY <1>1, <1>2, <2>1, <2>2
        DEF HandAt, Reading, KeptUnder, Past, NewerThan, data_vars, Now
  <1>10. CASE Assemble(x) /\ ~Leave(x)
    <2>1. /\ pc[x] = "assemble" /\ pc'[x] = "store" /\ key'[x] = key[x]
          /\ report'[x] = report[x]
      BY <1>10 DEF Assemble, Goto
    <2> QED BY <1>1, <1>2, <2>1
        DEF HandAt, Reading, KeptUnder, Past, NewerThan, data_vars
  <1>11. CASE Hit(x) \/ GiveUp(x) \/ Store(x)
    BY <1>4, <1>11 DEF Hit, GiveUp, Store
  <1> QED BY <1>3, <1>4, <1>5, <1>6, <1>7, <1>8, <1>9, <1>10, <1>11 DEF Serve

\* Each step keeps what is known of the reports in hand.
LEMMA ReportsKept ==
    ASSUME TypeOK, WritesInHand, KeysInHand, ReportsInHand, [Next]_vars
    PROVE  ReportsInHand'
  <1>1. \A x \in Request : HandAt(x)
    BY DEF ReportsInHand, HandAt
  <1>2. SUFFICES ASSUME NEW x \in Request PROVE HandAt(x)'
    BY DEF ReportsInHand, HandAt
  <1>3. CASE Open(x) \/ Serve(x) \/ GiveUp(x)
    BY <1>1, <1>3, MoveKept
  <1>4. ASSUME NEW y \in Request \ {x}, Open(y) \/ Serve(y) \/ GiveUp(y)
        PROVE  HandAt(x)'
    <2>1. pc'[x] = pc[x] /\ key'[x] = key[x] /\ report'[x] = report[x] /\ rows' = rows
      BY <1>4 DEF TypeOK, Open, Serve, GiveUp, Hit, Miss, LookFixed, Malformed, Plan, Look,
                  Assemble, Store, Leave, Goto, data_vars
    <2> QED BY <1>1, <2>1, StandsKept
  <1>5. ASSUME NEW w \in Writer, NEW r \in Row, NEW gone \in BOOLEAN, Write(w, r, gone)
        PROVE  HandAt(x)'
    <2>1. pc'[x] = pc[x] /\ key'[x] = key[x] /\ report'[x] = report[x] /\ rows' = rows
      BY <1>5 DEF Write, request_vars
    <2> QED BY <1>1, <2>1, StandsKept
  <1>6. ASSUME NEW w \in Writer, Commit(w), pc[x] \in Reading PROVE HandAt(x)'
    <2>1. report'[x].mixed
      BY <1>6 DEF Commit, TypeOK, Report
    <2> QED BY <2>1 DEF HandAt
  <1>7. ASSUME NEW w \in Writer, Commit(w), pc[x] \notin Reading PROVE HandAt(x)'
    <2>1. pc'[x] = pc[x] /\ key'[x] = key[x] /\ report'[x] = report[x]
      BY <1>7 DEF Commit, TypeOK
    <2> QED BY <1>1, <1>7, <2>1, StandsKept
  <1>8. CASE UNCHANGED vars
    <2>1. pc'[x] = pc[x] /\ key'[x] = key[x] /\ report'[x] = report[x] /\ rows' = rows
      BY <1>8 DEF vars, request_vars, data_vars
    <2> QED BY <1>1, <2>1, StandsKept
  <1> QED BY <1>3, <1>4, <1>5, <1>6, <1>7, <1>8 DEF Next

\* Nothing is cached but by Store, under the version of what it is made of.
LEMMA CacheKept ==
    ASSUME TypeOK, WritesInHand, KeysInHand, ReportsInHand, CacheInHand, [Next]_vars
    PROVE  CacheInHand'
  <1>1. SUFFICES ASSUME NEW e \in cache', ~e.report.mixed
                 PROVE  KeptUnder(e.key, e.report.data)'
    BY DEF CacheInHand
  <1>2. PICK d \in State : d = e.report.data
    BY <1>1, TypesKept DEF TypeOK, Entry, Report
  <1>3. CASE e \in cache
    <2>1. e.key = Version(d) /\ Past(d)
      BY <1>1, <1>2, <1>3 DEF CacheInHand, KeptUnder
    <2>2. Past(d)'
      BY <2>1, PastStays
    <2> QED BY <1>2, <2>1, <2>2 DEF KeptUnder
  <1>4. CASE e \notin cache
    <2>1. PICK x \in Request : Store(x) /\ e = [key |-> key[x], report |-> report[x]]
      BY <1>1, <1>4 DEF Next, vars, Write, Commit, Open, Serve, GiveUp, Hit, Miss, LookFixed,
                        Malformed, Plan, Look, Assemble, Store, Put, cache_vars
    <2>2. KeptUnder(key[x], report[x].data)
      BY <1>1, <2>1 DEF ReportsInHand, KeysInHand, Store
    <2>3. e.key = Version(d) /\ Past(d)
      BY <1>2, <2>1, <2>2 DEF KeptUnder
    <2>4. Past(d)'
      BY <2>3, PastStays
    <2> QED BY <1>2, <2>3, <2>4 DEF KeptUnder
  <1> QED BY <1>3, <1>4

\* Each step keeps what is known of the keys in hand.
LEMMA KeysKept ==
    ASSUME TypeOK, KeysInHand, [Next]_vars
    PROVE  KeysInHand'
  <1>1. SUFFICES ASSUME NEW x \in Request
                 PROVE  /\ pc'[x] = "idle" => key'[x] = None
                        /\ pc'[x] = "store" => key'[x] # None
    BY DEF KeysInHand
  <1>2. ASSUME NEW y \in Request, Open(y) \/ Serve(y) \/ GiveUp(y), pc'[x] \in {"idle", "store"}
        PROVE  \/ pc'[x] = pc[x] /\ key'[x] = key[x]
               \/ pc'[x] = "idle" /\ key'[x] = None
               \/ pc'[x] = "store" /\ key'[x] # None
    BY <1>2 DEF TypeOK, Open, Serve, GiveUp, Hit, Miss, LookFixed, Malformed, Plan, Look,
                Assemble, Store, Leave, Goto
  <1>3. ASSUME NEW w \in Writer,
               Commit(w) \/ \E r \in Row, gone \in BOOLEAN : Write(w, r, gone)
        PROVE  pc' = pc /\ key' = key
    BY <1>3 DEF Write, Commit, request_vars
  <1>4. CASE UNCHANGED vars
    BY <1>4 DEF vars, request_vars, KeysInHand
  <1>5. ASSUME NEW y \in Request, Open(y) \/ Serve(y) \/ GiveUp(y)
        PROVE  /\ pc'[x] = "idle" => key'[x] = None
               /\ pc'[x] = "store" => key'[x] # None
    BY <1>2, <1>5 DEF KeysInHand
  <1> QED BY <1>3, <1>4, <1>5 DEF Next, KeysInHand

-----------------------------------------------------------------------------
(* The theorems *)

\* Whatever requests and writers do, types hold, a transaction has a time of its own, and what
\* is cached has been the data of its key.
THEOREM InductiveInvariant == Spec => []Inductive
  <1>1. Init => Inductive
    <2>1. Init => ReportsInHand /\ CacheInHand /\ KeysInHand
      BY DEF Init, ReportsInHand, CacheInHand, KeysInHand, Reading, NoReport
    <2> QED BY <2>1, InitTypes DEF Inductive
  <1>2. Inductive /\ [Next]_vars => Inductive'
    BY TypesKept, WritesKept, ReportsKept, CacheKept, KeysKept DEF Inductive
  <1> QED BY <1>1, <1>2, PTL DEF Spec

\* A cached report of the data as it is now shows this data (CachedIsCurrent).
THEOREM OnlyCurrentIsServed == Spec => []CachedIsCurrent
  <1>1. Inductive => CachedIsCurrent
    <2> SUFFICES ASSUME Inductive, ~behind, NEW e \in cache, e.key = Now, ~e.report.mixed
                 PROVE  e.report.data = rows
      BY DEF CachedIsCurrent
    <2>1. KeptUnder(e.key, e.report.data)
      BY DEF Inductive, CacheInHand
    <2>2. e.report.data \in State
      BY DEF Inductive, TypeOK, Entry, Report
    <2> QED BY <2>1, <2>2, SameVersion DEF Inductive, KeptUnder
  <1> QED BY <1>1, InductiveInvariant, PTL

\* A commit in the order of the beginnings changes the version of the data
\* (OrderedCommitChangesVersion).
THEOREM OrderIsSeen == Spec => OrderedCommitChangesVersion
  <1>1. Inductive /\ [Next]_vars =>
            [\A w \in Writer : Commit(w) /\ InOrder(w) => Version(rows') # Version(rows)]_vars
    BY CommitIsSeen DEF Inductive
  <1> QED BY <1>1, InductiveInvariant, PTL DEF Spec, OrderedCommitChangesVersion

\* A build looks at most twice and does not plan again after that (BuildIsBounded).
THEOREM BuildsAreBounded == Spec => []BuildIsBounded
  <1>1. Init => LooksInHand
    BY DEF Init, LooksInHand
  <1>2. TypeOK /\ LooksInHand /\ [Next]_vars => LooksInHand'
    <2> SUFFICES ASSUME TypeOK, LooksInHand, [Next]_vars, NEW x \in Request
                 PROVE  /\ pc'[x] \in {"idle", "lookup", "fixed"} => looks'[x] = 0
                        /\ pc'[x] \in {"plan", "look"} => looks'[x] <= 1
                        /\ looks'[x] <= 2
      BY DEF LooksInHand
    <2>1. ASSUME NEW y \in Request, Look(y)
          PROVE  x # y => pc'[x] = pc[x] /\ looks'[x] = looks[x]
      BY <2>1 DEF Look, Goto, TypeOK
    <2>2. CASE Look(x)
      <3>1. pc[x] = "look" /\ looks[x] \in Nat /\ looks[x] <= 1 /\ looks'[x] = looks[x] + 1
        BY <2>2 DEF Look, TypeOK, LooksInHand
      <3>2. pc'[x] \in {"plan", "assemble"} /\ (pc'[x] = "plan" => looks[x] = 0)
        BY <2>2 DEF Look, Goto, MayReplan, TypeOK
      <3> QED BY <3>1, <3>2
    <2>3. ASSUME NEW y \in Request, Open(y) \/ Serve(y) \/ GiveUp(y), ~Look(y)
          PROVE  \/ pc'[x] = pc[x] /\ looks'[x] = looks[x]
                 \/ pc[x] \in {"idle", "lookup", "fixed"} /\ looks'[x] = looks[x]
                 \/ pc[x] = "plan" /\ pc'[x] \in {"look", "assemble"} /\ looks'[x] = looks[x]
                 \/ pc'[x] = "idle" /\ looks'[x] = 0
                 \/ pc'[x] = "store" /\ looks'[x] = looks[x]
      BY <2>3 DEF TypeOK, Open, Serve, GiveUp, Hit, Miss, LookFixed, Malformed, Plan,
                  Assemble, Store, Leave, Goto
    <2>4. ASSUME NEW w \in Writer,
                 Commit(w) \/ \E r \in Row, gone \in BOOLEAN : Write(w, r, gone)
          PROVE  pc' = pc /\ looks' = looks
      BY <2>4 DEF Write, Commit, request_vars
    <2>5. CASE UNCHANGED vars
      BY <2>5 DEF vars, request_vars, LooksInHand
    <2>6. ASSUME NEW y \in Request, Open(y) \/ Serve(y) \/ GiveUp(y)
          PROVE  /\ pc'[x] \in {"idle", "lookup", "fixed"} => looks'[x] = 0
                 /\ pc'[x] \in {"plan", "look"} => looks'[x] <= 1
                 /\ looks'[x] <= 2
      BY <2>1, <2>2, <2>3, <2>6 DEF LooksInHand
    <2> QED BY <2>4, <2>5, <2>6 DEF Next, LooksInHand
  <1>3. LooksInHand => BuildIsBounded
    BY DEF LooksInHand, BuildIsBounded
  <1> QED BY <1>1, <1>2, <1>3, InductiveInvariant, PTL DEF Spec, Inductive
=============================================================================
