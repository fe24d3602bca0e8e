# A verification development of account-book

The program is a household ledger: a Python api over PostgreSQL, an agent that turns
sentences into entries and answers questions with a language model, a web ui, and an MCP
server that lets other programs read. These modules model what the program itself decides:
the writes and their keys, the confirmation of what a model proposes, the loop that answers a
question and its way to the browser, the report and its cache, the rules behind the numbers,
and what is let through of a model's words. TLC checks them on small instances and TLAPS proves
what matters most for every value of the constants. Where code and documents disagree, a run
shows the disagreement, or the list at the end names it.

Paths below are relative to the repository (`src/` is its package directory).

## The system

| part | state it keeps | operations | talks to |
|---|---|---|---|
| api: keyed writes (`api/application/use_cases/idempotent_write.py`, `create/update/delete_transaction.py`) | `transactions`, `idempotency_keys` | POST, PATCH, DELETE `/v1/transactions`, each under an `Idempotency-Key` in one database transaction | PostgreSQL |
| agent + api: confirmation gate (`agent/application/use_cases/decide_record.py`, `propose_record.py`; `api/infrastructure/db/sql_run_log.py`) | `agent_runs`, `tool_calls`, the card in the browser | propose, confirm, cancel, renew; `/v1/runs`, `/v1/runs/{id}/confirm`, `/close` | the keyed writes |
| api: audit log of finished runs | `agent_runs`, `tool_calls` | record, list, read | every seat of the agent writes one run |
| api: budgets | `budgets` | set a limit, carry it over, pace | keyed writes, statistics |
| agent + api: report cache (`cached_insights.py`, `build_insights.py`, `sql_insight_cache.py`) | `insight_cache`, a data version computed from `transactions` and `budgets` | read the version, look up, build, store | statistics, language model |
| agent: query loop (`answer_question.py`) | messages, steps, spent money and time of one question | model call, tool calls, retry, stop | language model, tools, audit log |
| agent: tools (`run_tool.py`, `tool_arguments_parser.py`) | none | parse arguments, ask the api, cut the answer | api |
| agent: category choice (`classify_category.py`, `sync_index.py`) | the vector index, a lock | sync, search, vote | embeddings, api |
| agent: reading a sentence (`read_capture.py`, `record_entry.py`) | none | parse, normalise, fill in | language model |
| agent + api: document answers | `law_documents`, chunks and their vectors | load, cut, search by two orders, fuse, fall back, cite | embeddings, language model |
| agent: checks of model output | none | numbers, plan, charts, highlights, citations | - |
| api: statistics and paging | none of its own | sums, comparisons, outliers, cursor pages | PostgreSQL |
| mcp_server | a window of recent calls | tools, rate limit | api |
| ui: forms and lists | a form's key, the rows on the screen | open, read a sentence, send, go back, delete, page on | api, agent |
| ui: chat stream | the stream of one question | relay, give up, end | agent |
| ui: stand-ins of the demo | a ledger in memory | the same reports, budgets, proposals | - |
| settings, wiring, migrations, seeds | the schema | up, down, seed | PostgreSQL |

What is hard in it:

- **Two requests at a time.** Every request of the api is a database transaction at READ
  COMMITTED; between any two statements another may commit. Nothing in the code locks more
  than the rows it writes.
- **Answers that do not come.** A caller gives up after its time limit while the server
  still works; it repeats, or tells the user something, before the first call takes effect.
- **Half-done sequences.** One press of "record" is up to five calls to the api, each with a
  transaction of its own; one report is a dozen reads. Any of them can fail, and nothing undoes
  the ones before.
- **Time.** Keys die after 24 hours, proposals after 24 hours of their own, reports are kept by the
  version of the data, questions have limits of steps, cost and time that are looked at only
  between steps.
- **Rules written twice.** The agent and the MCP server have a copy each of the tools, the api
  and the demo store a copy each of the sums.
- **Numbers at their edges.** Days and months, quotients, medians, windows, cursors.

What makes each part correct: a keyed write happens once and its reply is true; nothing is
in the ledger that the user did not confirm, and the audit log says so; a proposal has one
end; a cached report is the report of the data as they are; a question ends within its
limits with one answer; a page list misses no row; a rate limit admits no more than it says;
what is told of the same money is the same; nothing a model made up is shown as found.

## The modules

| module | models | kind |
|---|---|---|
| `OncePerKey` | what an idempotency key promises | abstract specification |
| `LedgerWrites` | the write path of the api, statement by statement | detailed specification |
| `CaptureGate` | the confirmation gate: agent, api and user | detailed specification |
| `QueryLoop` | one question: model calls, tool calls, limits, the reason to stop | state machine |
| `ChatStream` | the loop together with the agent's stream, the ui's relay and the record | composition, extends `QueryLoop` |
| `ReportCache` | requests for the report, the cache, and the transactions that write meanwhile | state machine |
| `LedgerStats` | totals, reports, budgets, pace, outliers over a ledger that changes | part |
| `Periods` | calendar, periods, comparisons of equal length, moments that were said | part |
| `Pages` | the list that is paged on while rows change | part |
| `CallLimit` | the sliding window of `mcp_server` and the calls under it | part |
| `RankFusion` | two rankings made one | operators, used by two parts |
| `CategoryIndex` | the index, its sync behind a lock, the choice of a category | part |
| `ToolArguments` | one call of a tool in the agent and in `mcp_server` | part |
| `Reading` | from a sentence to the entry of a proposal | part |
| `Forms` | the forms of the ui and the key of each | part |
| `ModelOutput` | plans, charts, highlights, answers: what is let through | part |
| `Places` | the elements at some places of a sequence, and its beginning | operators |
| `RunLog` | what each seat records of a run, and the list of the runs | part |
| `Schema` | the ten migrations up and down, seeds and writes | part |
| `Documents` | loading and cutting laws, the search with its fallbacks | part |
| `StandIns` | the memory store, the scripted chat and card reader of the demo | part, refers to `LedgerStats` |
| `LedgerWritesProofs`, `CaptureGateProofs`, `ReportCacheProofs` | theorems about the module of that name | proofs |
| `ChatStreamProofs` | theorems about `QueryLoop` and `ChatStream` | proofs |
| `PartsProofs` | theorems about `CallLimit`, `CategoryIndex`, `Reading`, `ModelOutput`, `Forms`, `Periods`, `ToolArguments` | proofs |
| `StatsProofs` | theorems about `LedgerStats` and `Pages` | proofs |
| `RecordsProofs` | theorems about `RunLog` and `Schema` | proofs |
| `NumberFacts` | quotients, least numbers, k-th elements, sums over finite sets, parts of a sequence | lemmas the proofs share |
| `MCLedgerWrites`, `MCCaptureGate`, `MCChatStream`, `MCReportCache`, `MCParts` | small instances | for TLC |

`Absent` declares the constants `None` (nothing) and `Wrong` (a value of no accepted shape).

### LedgerWrites

A *worker* is one request being served: one `SqlUnitOfWork`, one database session. `pc` names
the SQL statement it runs next:

    idle -Begin-> expire -> lookup -> claim -> perform -> (merge -> flush | remove) -> commit -> reply

`expire` and `lookup` are the two statements of `SqlIdempotencyStore.find` (the DELETE of an
expired row, then the SELECT), `claim` its INSERT, `perform` the first read of the use case,
`merge`/`flush` the two halves of `SqlTransactionRepository.replace`, `remove` its DELETE,
`commit` is `complete()` and `commit()`. Committed rows are `txns` and `keys`; a worker's own
uncommitted change is in `change`, its deletion of an expired key row in `freed`. A statement
sees what is committed and what the worker itself has changed. Row locks are not stored: they
follow from what a worker has changed and not committed (`HoldsKey`, `HoldsRow`); a statement
that writes a held row is not enabled until its holder has committed or rolled back, and then
evaluates its condition again, as PostgreSQL does.

`merge()` reads the row again (the session's identity map holds it weakly), and the UPDATE names only the
columns that differ from what it read (`WrittenOver`). That is why updates of one row can mix
by columns and a row can come back after its deletion.

A draft is its direction, its category and whether its amount is large enough to need a
confirmation. Amounts, merchants, memos and dates, and the rules about one of them
alone, are left out: no property tells them apart. `effects` is a history variable: the
writes that were committed, in commit order.

`Vanish` is a process that dies, a lost connection or a caller that is gone, at any statement.
What the caller sends next under the same key is another request (`Begin`), so retries,
duplicates and reordering need no action of their own.

### OncePerKey

The promise without sessions and locks: a keyed write runs in one step; two runs of a key are
more than `Retention` apart; success is told only with the reply of a run of the same key and
request; "in progress" is told only when a run of the key has taken effect. `LedgerWrites`
implements it with `runs <- effects`, and `told` is what a worker in `reply` is sending.

### CaptureGate

A *press* is one request to the agent to confirm or cancel a proposal, with the api call it
waits for. `pc` is where `DecideRecord` is (reading the run, then its calls; or the call it
has made), `st` where the api is with this call. A press that stops waiting (`Unreachable`) is
over, but its call goes on: that is how an abandoned call takes effect later. An agent that
dies leaves the same state as one that answers "unreachable". `Break` is the server that dies
or loses its database: the call is rolled back.

Each call is a keyed write. `CaptureGate` keeps of `LedgerWrites` what its properties need
(find, claim, commit; key rows, their expiry and their locks) and merges statements that
nothing in between can disturb: find()'s two statements read the same key row, which only its
holder can change. The UPDATEs of the run log keep their statement of their own, before the read-back
and the commit, because there the gate is decided: `hit` is whether the UPDATE found its row.
`CreateTransaction` is one step: what happens inside it is the subject of `LedgerWrites`.

The values of a proposal are abstracted to whether the api refuses them (`bad`). `shown` is
the cards the user has; a card may be lost on its way. The clocks of the agent and of the
database are one clock here.

`entries` is the ledger in commit order, `told` what a press was answered.

### QueryLoop

One question in `AnswerQuestion`: `start` (read the dictionary), `look` (the limits before a
model call), `calls` (the calls of one reply), `tool` (one call and its tries), `end`. A call
is a tool with its arguments, `Checked` what the dictionary makes of it, and a *code* what the
executor and the api make of that. Time is counted in ticks: a call of the model and the reading of the
dictionary take one at most, a time limit, and so does a pause before the next try. A try of a tool takes
up to `TryTicks`: `search_documents` waits in one try for the lock of the index while others
hold it, makes up to twenty rounds of a pull, an embedding and as many writes as the pull
brought, embeds the question and searches; `compare_periods` asks twice. What such a try takes is therefore a constant, any number,
and not one time limit; how long others hold the lock is not bounded by the code. A call is three tries at most and the
two pauses between them (`CallTicks`). The model's reply is any sequence of up to `Width` calls, and its cost
any up to `MaxPrice`. `Observe` keeps two reasons apart that the code sets in different places:
a tool that was refused too often ends the loop only after the rest of its reply has run, and
a repeated call among the rest replaces the reason.

### ChatStream

`QueryLoop` runs inside: `AgentStep` is a step of the loop, and where the loop ends its outcome
becomes a run to record and a message. The agent says `done`, then writes the run to the audit
log (`Record`), so the browser may be gone, or the process dead, between the two.
`wire` is what was sent and not yet relayed, `screen` what the browser keeps. The agent can
fail (it tells of it), die (it does not), the connection break, an event be undrawable, the ui give up on a silent agent, and the
browser leave, each between any two steps. Tools' names are on the wire for as long as they are
drawn only, and left out.

### ReportCache

A request reads the version of the data, looks the key up, and on a miss takes a fixed look at the data, plans,
looks again and assembles; each look is a transaction of its own. Writers begin, change one row
and commit in any order: a row carries the time its transaction *began*. `mixed` marks a report
with a write between its version and its last look, `whole` one without a dropped or failed step, `behind` that a
transaction has committed under one that began later. The reports are compared by the data they
show, not by their words.

### The parts

Thirteen modules stand for themselves: `LedgerStats`, `Periods`, `Pages`, `CallLimit`,
`CategoryIndex`, `ToolArguments`, `Reading`, `Forms`, `ModelOutput`, `RunLog`, `Schema`,
`Documents` and `StandIns`. Each has its variables, its `...Init` and `...Next`, and its properties.
`MCParts` puts them into one instance in which `part` chooses at the start which of them moves;
the others stay as they begin, so the parts are explored one beside the other and not multiplied.

- `LedgerStats` computes every number the way its query and its rule do, over rows that are
  entered and deleted while days pass and budgets are set. Money is in small numbers; `round()` is that
  of Python where the code rounds, and that of the database where the query does.
- `Periods` has the calendar of Python's `date`: a day is its number since the first day of year 1, and leap years
  follow the rule of 4, 100 and 400. On it stand `PeriodSpec`, the clipping of comparisons, and `SaidWhen`.
  The years are a bound; the first of them is there to be spoken of, the last one to count up to.
  It is run through every day of the four years between (`UserDays`).
- `Pages`: `OpenList` and `More` are the ui's requests, `ChangeRow` any other write. A cursor is
  the moment and id of the last row of a page.
- `CallLimit`: a call is refused or counted, answered with an envelope, and recorded or not. The clock
  is finer than the seconds that are told.
- `CategoryIndex`: a request pulls what is pending, embeds it and puts the vectors under the
  lock of its `SyncIndex`, round by round, then searches and chooses. The
  two kinds of request have a lock each and pull from the same list. Scores
  are left open: any order and any confidence. Failures end a phase, not the request.
- `ToolArguments`: `AgentAccepts` and `AgentQuestion`, `McpAccepts` and `McpQuestion` are the two copies,
  over every combination of shapes of arguments a model may write.
- `Reading`: extraction, grounding, category, defaults, and the confirmation that reads the
  arguments back when days have passed (`Confirm`, `Created`). What a card marks as unsure is kept apart from what was filled in.
- `Forms`: a page holds a key and fields; sending, losing a reply, sending again,
  going back, redrawing with a sentence that was read, and rows that are removed elsewhere. The reply under a key dies
  as it does in `LedgerWrites` (`Alive`), while the page and its key stay; the keyed write itself is one step.
- `ModelOutput`: the steps of a run with their results, and the plans, charts, highlights and
  sentences that pass the checks. A chart has the title the model wrote. What a filter keeps of a list, the code's loops with their `continue`, are the
  elements at the places that pass (`Places!Those`), which a proof can take hold of and a fold it cannot.
- `RunLog`: the record each seat makes of its run and the one attempt to send it, the api's
  checks, and the list that is read while runs are added and decided. A decision (`Decided`) closes a proposal as done, failed or aborted
  with its reason, and gives the write its result when it was made; which one comes is `CaptureGate`'s.
- `Schema`: `RevisionUp` and `RevisionDown` are the ten migrations as functions of the tables;
  one alembic command is one transaction. The program writes at the last revision only.
- `Documents`: a law is lines in paragraphs in articles; three ways to cut it, a load that
  replaces laws in one transaction, and the search with the two places where it falls back.
- `StandIns`: the demo's store with its own sums; `Api` is `LedgerStats` over the entries of the store
  (`INSTANCE ... WITH`), with which it is compared. The narrator's remarks and the page of the report are computed from it.

## The runs

| run | question | size |
|---|---|---|
| `ledger_keys` | one key, three requests at once and again after the key's death | 3 workers, 1 key, time 0..3, retention 1 |
| `ledger_rows` | two keys meet on one row; does the path implement the promise; is everyone answered | 2 workers, 2 keys, 3 ids, time 0..2 |
| `gate_renew` | proposals, presses, lost replies, death and renewal | 2 presses, 2 proposals, time 0..2, lifetime and retention 1 |
| `gate_answers` | is every press answered | 2 presses on one card |
| `chat` | one question from the first call to the last event, with everything that can break | 4 calls of one tool, replies of 2, 3 steps, tries of 2 ticks |
| `reports` | a request against writers, twice | 1 request, 2 writers, 3 rows, 2 transactions |
| `parts` | the thirteen parts | see below |
| `ledger_deleted` | *violated*: a deleted transaction stays deleted | 2 workers |
| `ledger_category` | *violated*: a stored category fits its direction | 2 workers |
| `gate_one_entry` | *violated*: one proposal is one entry | 2 presses |
| `gate_aborted` | *violated*: a confirmed proposal is not aborted | 2 presses |
| `reports_degraded` | *violated*: a report with a failed step is not kept | as `reports` |

Bounds, each a constant: `MaxTime` stops the clock, `MaxEffects` the requests that may still
take effect, `MaxSaid` the sentences said; each press is made once. Every constant whose comment
begins with "bound" is a bound of a model; the others are constants of the code.

- A key has a rival, a winner and a late-comer: three workers are the least with which the
  loser of an INSERT can itself be rivalled after its winner rolls back. Time needs
  `Retention + 2` values for a key to be born, die and be born again. More workers
  or keys add only more of the same pairs, and the proofs hold for any number.
- Rows mix by pairs of updates; the third effect is the one that sees the mixture.
- A proposal needs two presses for every rivalry between confirming, cancelling and renewing,
  and a second run id for the proposal that replaces the first. A third press adds only a
  rival to a rivalry that is already there; the theorems hold for any number.
- One tool is failed more than `Fixes` times within replies of two calls and three steps; the
  calls are one that is well-formed, one that is not, one that is corrected into another and one that cannot be
  corrected. The theorems about the loop hold for any number of each.
- A report is about two transactions: one that enters a row and one that deletes it again, around
  the looks of the report, take the version back to the one it asked under; or one begins first and
  commits last. There is one row to delete or update, one to enter, and a budget. The cache
  outlives a request, so it is asked for twice.
- The parts: a month of three days and two months with a trend and a baseline; three rows and
  pages of at most two; a window of two calls and three calls; two entries with texts and
  an article; every day from 2024 to 2027, with a leap
  year and a year after one, each in the morning and in the evening; every combination of argument shapes on a leap day at the
  end of its month and in the week after it; one form with its
  key, three sends and one page typed by hand, over two ticks, one more than a key lives, so that a form can be
  sent again alive and dead; runs of up to three calls and two of them; three
  writes between migrations; two loads of two laws; two entries ever made in the demo.

`CHECK_DEADLOCK FALSE` in every configuration, because the bounds stop the system: the clock
ends, every press has been made, the question is answered. Circles of waiting would show as a
violation of `EveryRequestEnds` and `EveryPressEnds`.

### What the passing runs show

- `OneEffectPerKey`, `SuccessIsAnEffect`, `InProgressMeansDone`: what a key promises, also when
  the winner of the INSERT dies, the key row expires under a waiter, or the request is
  refused first and comes back confirmed under the same key.
- `LargeWasConfirmed`, `SourceNeverChanges`: what holds of a row though its columns come from
  several updates. (`CategoryFitsDirection` does not, see below: it relates two columns.)
- `LocksExclude`: waiting gives exclusive rows.
- `KeepsPromise`: refinement of `OncePerKey`.
- `EveryRequestEnds`, `EveryPressEnds`: no circle of waiting, under the fairness below.
- `EntryWasConfirmed`: nothing is in the ledger that the audit log does not show as
  confirmed and the user did not confirm.
- `EntriesFarApart`: a proposal enters the ledger at most once per life of its key.
- `VerdictIsTrue`, `ClosedAsTold`: `done` means an entry, `failed` none; "recorded",
  "already", "cancelled" and "rejected" are true when they are said and stay true.
- `DecisionsAreFinal`: a closed run keeps its status and a confirmation its time.
- `WithinLimits`: by how much a run may pass its limits: the cost of the last reply and of two
  that were malformed, and of each call of the last reply three tries with the pauses between them, in
  terms of what one try takes.
- `StopIsTrue`: the reason a run is recorded with is what happened in it, with a failing tool and a
  repeated call in one reply.
- `ScreenIsWhole`: whatever breaks, the browser sees one answer at most and the end of its
  stream; after `done` only the error of a connection that broke during the record.
- `RecordMatchesAnswer`: whoever sees an answer has a run in the log with that reason, if there is one.
- `InputReopens`: the browser's stream ends, though the agent owes nothing.
- `BuildIsBounded`: two looks at most, the second only after an empty first one.
- `CachedIsCurrent`: a report under today's version shows today's data, unless a write fell between its
  version and its last look or a transaction committed under one that began later. Both
  exceptions are needed, without either the run fails: a report asked for under a version, made
  while an entry was there that was deleted again, is kept and shown with this entry as long as
  the version stands.
- `OrderedCommitChangesVersion`: commits in order of beginning change the version.
- `EveryReportEnds`: a request is answered.
- Of the parts: the same money is told by every query (`ReportsAgree`); the day a budget is passed
  (`CrossingIsTrue`); what is out of the ordinary (`OutliersStandOut`); budgets of months gone
  (`PastBudgetsStand`); periods that tile the calendar and comparisons that are clipped
  to the days there were where the code clips them, which this week and this year are not (`PeriodsFit`); moments that
  were said are past (`SaidIsPast`); no row listed twice or missed (`UnchangedSeenOnce`); the window
  and the wait (`MinuteHolds`); what the index holds and what a choice rests on
  (`IndexServes`); two copies of the tools (`SharedToolsAgree`); one effect for a form
  within the life of its key, and a "there is none" that is true (`OneEntryPerForm`); no sentence, row of a chart or line under it with a
  number that no query told, titles of charts apart (`ShownIsGrounded`); nothing written that was not in the
  text or a default, of which category and account are marked and the day is not (`ReadingIsGrounded`); runs in the log as their seat recorded
  them, or as one decision on a proposal left them (`RunsAreKept`); the schema
  whole whatever way it went (`SchemaIsWhole`); no line of a law lost and no search told as another
  (`DocumentsAreWhole`); the demo tells what the api would (`StandInsAgree`).

### What the violated runs show

- `AtMostOneEntry`: a confirmed proposal whose closing was lost still waits, and confirming
  skips the lifetime of a proposal that is already confirmed (`decide_record.py:55`); pressed
  again when its key is dead it is written a second time.
- `ConfirmedNeverAborted`: `confirm` and `close` test each other's table and change
  their own, a write skew at READ COMMITTED. `docs/api-contract.md:287` says that a confirmed
  proposal cannot be cancelled.
- `DeletedStaysDeleted`: an update that read a row before a deletion committed inserts it again.
- `CategoryFitsDirection`: two overlapping updates leave a category of the other direction.
- `NoFailureIsCached`: a step that is late or failed leaves a report that ends as assembled and
  is kept under the version of the data, though `docs/ai/agentic-reports.md:232` promises the same
  for the same input.

### Fairness

- `LedgerWrites!FairSpec`: `WF(Serve(w))`, the server runs a statement that can run;
  `SF(Wait(w))`, PostgreSQL queues the waiters of a lock and wakes them in turn, so a waiter
  that can go ahead again and again does. Weak fairness would not do: between two moments at which
  a key is free, another worker may hold it.
- `CaptureGate!FairSpec`: `WF(Serve(x))` and `WF(Decide(x))`, for the same reason and because
  the agent awaits its call's answer and goes on. A press's key is held at most once by each other
  press, so weak fairness suffices.
- `ChatStream!FairChatSpec`: `WF(UiStep)` alone. The ui's own task relays what is there, ends with
  its stream, and gives up on an agent that is silent past the read limit; nothing is assumed of the agent.
- `ReportCache!FairSpec`: `WF` of "the request goes on or gives up": the build runs under a time
  limit of its own. Writers are not fair: a transaction may never commit.
- Users, deaths, lost replies and the clock are not fair: nobody has to do anything.

## The proofs

`LedgerWritesProofs`, from the named assumptions of `LedgerWrites` (times are numbers, the
catalog is a function, requests are well-formed, `Absent` is no value):

- `TypeCorrect`: `Spec => []TypeOK`. Types are inductive only together with
  `HandOK`, what a worker holds at each statement: the row an UPDATE writes is a row because `wanted` was set
  before `merge`.
- `InductiveInvariant`: `Spec => []Inductive`. `OneEffectPerKey` alone is not inductive: a commit
  appends an effect, so one has to know that its key has no live row *now*, though the
  worker looked two statements ago. That is `HoldersMayRun` (who has claimed found no live
  row or holds the deletion of the dead one), which is stable because of `LocksExclude`;
  and `KeysFollowEffects` turns "no live key row" into "no recent effect".
- `NeverTwice`, `SuccessIsTrue`, `InProgressIsDone`, `LocksAreExclusive`: consequences.
- `ImplementsPromise`: `Spec => KeepsPromise`. Each action of the path is a step of
  `OncePerKey` or none; `Commit` is `Execute`, and `MayRun` follows from the invariant.

`CaptureGateProofs`, from `TimeAssumption` (the clock, the lifetime and the retention are
numbers) and `NoneAssumption` (`None` is no time, no run and no key row):

- `TypeCorrect`: `Spec => []TypeOK`.
- `InductiveInvariant`: `Spec => []Inductive`. What a user is told and what the audit log says
  do not carry themselves: a repeated press is answered from a key row, so the row must say what the write
  it stands for did (`KeysOK`); a call commits what its UPDATE or its INSERT found some
  statements ago, so that must still be so at the commit (`CallOK`), which holds because the lock
  it has taken is its own (`LocksOK`); and a press acts on an answer the api gave earlier (`TellOK`),
  which holds because the answers it acts on are about things that do not change back
  (`RecordOK`). The proof regroups these parts by what a step can disturb: what concerns
  one press (`PressAt`), the rows of the database (`RowsOK`) and the locks (`Exclusive`). A step that
  decides nothing moves one press (`OnePressMoves`); only the commits of a creation (`CreateKeeps`)
  and of a decision (`CommitKeeps`) touch the rest.
- `OnlyConfirmed`, `OnceInALifetime`, `VerdictsAreTrue`, `ClosingsAreTrue`: consequences.
- `DecisionsStand`: `Spec => DecisionsAreFinal`, from the same invariant, one step per action.

`ChatStreamProofs`, from `CallAssumption` (the dictionary makes a call of the same tool of a call,
and `None` is no call and no reason) and `LimitAssumption` (the limits are positive, a price is a number):

- `TypeCorrect`: `Spec => []LoopTypeOK`.
- `InductiveInvariant`: `Spec => []Inductive`. The limits do not carry themselves, because they
  are looked at before a model call only. `TimeKept` says how late it can be with so many
  calls of the reply left: each of them is three tries and two pauses, so a call that ends pays for the tries it used.
  `BooksKept` keeps what was paid apart from what is on the books, which a malformed reply is
  not. `QuietKept` gives each place of the loop the time that can lie between it and the last
  event. `ReasonKept` says which reasons can stand at each place and what each says of the
  steps; that a failing tool is found out needs `StepsKept` (a step's call was
  asked for) and the lemma `FailuresGrow` about cardinalities.
- `KeepsLimits`, `TrueReason`, `SilenceIsShort`: consequences. The last one bounds how long the
  agent sends nothing by one call of a tool, with its three tries and two pauses, and two calls of the model, whatever the limits are; the read limit of the ui is set
  without regard to it (`ui/main.py:222`). All three speak of `TryTicks`, of which nothing is assumed but that it is a
  positive number: they say how the tries add up, not how long one is.

### What else holds of the ledger's rows

In `LedgerWritesProofs`, over `Inductive`:

- `LargeIsConfirmed`: `LargeWasConfirmed` speaks of what is committed, but an UPDATE writes the columns
  that differ from a row it read two statements ago. `LargeInHand` says it of the row in hand: a
  worker that is about to merge or flush a large amount is confirmed, and what it will commit is large only where the
  ledger was, or because of its own confirmed draft.
- `SourceStands`: a row may come back after its deletion, so "where it first came from" must outlive
  it. `MadeOnce` (an id is made once, and only what is known is in the ledger) and `SourceInHand` (an update in hand carries
  the source of its id, a create in hand an unknown id) are preserved together with it.

### The chat stream

The second part of `ChatStreamProofs` reuses the `StepInductive` of the first: a step of the agent is a step of the
loop or leaves it alone.

- `ChatInductive`: neither `ScreenIsWhole` nor `RecordMatchesAnswer` is inductive, because the
  relay puts on the screen what the agent sent earlier. `SaidInHand` takes screen and wire
  together: while the ui relays, what was said is nothing, the answer, or one of the whole endings, and
  which of them is fixed by the agent's place. `AnswerInHand` ties an answer on the screen to the run.
- `WholeScreens`, `RecordsMatch`, and `LoopInStream`: the loop's limits and reasons in the composition.

### The report cache

`ReportCacheProofs`, from `RowAssumption` (finitely many rows, each with a time at first) and `BoundAssumption`:

- `InductiveInvariant`: `CachedIsCurrent` compares two states far apart, the one a report was made of and
  today's. `Past(d)` says what ties them: nothing uncommitted was in `d`, and as long as commits come in order,
  every row that changed since is gone or newer than all of `d`, if the newest of `d` is still there
  (`NewerThan`). Then equal versions mean equal data: the same count and the same newest moment leave no room for a change.
- `OnlyCurrentIsServed`, `OrderIsSeen`; `BuildsAreBounded` needs `LooksInHand` only.

### The parts

These theorems are about each part's own specification (`LimitSpec`, `IndexSpec`, `ReadingSpec`, `OutputSpec`, `FormsSpec`,
`PeriodsSpec`, `ArgSpec`, `StatsSpec`, `PagesSpec`, `RunsSpec`, `SchemaSpec`), whose `...Init` and `...Next` are the ones `MCParts` composes.

- `CallLimit`: `CountedAreLast` (the deque holds the last calls let through, and the ones before are as old as the window),
  `CallsAreSpread` (a call and the one a limit later are a window apart) and `WaitIsEnough`. From them `LimitHolds`: a set
  of calls within a minute lies between its first and the one a limit later, and has no room for more.
- `CategoryIndex`: `LocksHold` and `PulledAreAll`: who pulled less than a batch has all there was, and the other kind of
  request, with a lock of its own, can only add vectors. The fusion is a fact about two orders (`FusionKeepsOrder`): of `Ahead`,
  a comparison of two fractions by their cross products, it is proved that being first in both orders wins.
- `Reading`: `ReadingInductive`: what was read is bound to the moment it was *sent*, and the proposal to the reading, so that days
  may pass before the confirmation.
- `ModelOutput`: `PlansAreKept`: a call of a report is made once although a plan may be made twice, since a plan is checked against
  the steps that ran and against itself. What is shown rests on the steps alone (`UnshownIsGrounded`); the rest are lemmas about what each
  check lets through, and one about places of a sequence (`NumberFacts!ThoseFacts`): by its rank, each place is taken once and in order. TLC agreed on
  `OutputInductive` before it was proved.
- `Forms`: `KeysTell` (the reply under a key is that of a write of its form, the last one, and two writes of one form lie
  more than a key's life apart), `AnswersAreTrue` (a reply on its way, and a notice, say "saved" only of a write that was made, with the
  fields that were sent, and "not found" only of what is gone), and `IdsAreKept`, for what is gone must not come back: an id is given once.
- `Periods`: the state needs its types only; the work is the calendar. Years and months are in order (`YearIsLong`,
  `YearsInOrder`, `MonthsInOrder`), so a day that is written as a date has that year, month and day (`DateFits`), and
  every day of the years can be written so (`EveryDayIsADate`, with the least-number principle). From there the periods are sums: a month
  ends where the next begins (`MonthsMeet`), six months are 181 to 184 days (`SixMonths`), two dates of one name a year
  apart lie within 366 days, since no two years in a row are leap years (`SameMonths`).
- `ToolArguments`: `ArgInductive` ties what was answered to the call that was written. Then `ParsersAgree`: a call of a shared tool that
  one parser accepts the other accepts, but for the two exceptions, as the same question; `AcceptedPeriod` and `PeriodIsBounded`: whatever shape was written,
  what is accepted has at least one day and at most `MaxDays + 1`.
- `Pages`: `ShownToCursor`: of the rows that stay as they are the screen shows exactly those not below the
  cursor. A page is defined by rank, so that its k-th row exists needs a proof of its own.
- `LedgerStats`: the state needs its types only; the reports are functions of it. The work is in the sums: the categories
  of a report partition the month, so a sum over their sums is the sum over the month
  (`NumberFacts!TotalOfParts`); rounding is bounded from both sides; a median exists for every
  finite set; crossing days compare products, and `\div` is taken apart once in `NumberFacts`.
- `RunLog`: `Handled` says of each run that what the api has answered is what it did and what the user was told is what the
  answer was; a row is its run's record or what one of the decisions makes of it (`AsRecorded`), and since a decision keeps the calls,
  their ids and their number (`DecidedFacts`), a closed proposal still ends with its write; a run that may be refused is so because of its calls, and `EndedWell` says which seats can end with such calls: ids are
  written one after another, each after the calls before it (`ChatCallsFacts`, an induction over the steps of a chat), and a
  report numbers the calls of its second plan anew (`ReportIdsDiffer`). `WalkShowsRuns` is what `ShownToCursor` is for `Pages`: what was
  there at the opening is on the screen or still below the cursor, though runs come, and proposals are decided and leave the list.
- `Schema`: `TablesFit` says what the rows are at each revision. A revision up or down takes what fits one to what
  fits the next (`RevisionUpKeeps`, `RevisionDownKeeps`), a command is as many of them as it takes (`CommandKeeps`, an induction over the steps
  of a command), and 0006 is the only one that may be refused on the way up. `ReportStands` is why a version tells of the data: what a report
  is of holds every entry that has not changed since its moment, so equal counts leave no room for another.
- `NumberFacts`: sums over a finite set are the library's fold, which is defined by a recursive function, and its facts
  are inductions. `SubsetsAreGood` does an induction over the subsets of a finite set without an operator as a parameter: the
  formula is given as the set of the subsets that satisfy it. The least-number principle takes the same form.

`LedgerStats`, `Periods`, `Pages`, `CallLimit`, `CategoryIndex`, `ToolArguments`, `Reading`, `ModelOutput`, `Forms`, `RunLog` and `Schema` name what their theorems assume. The
assumptions are about the bounds (finite sets of ids and entries), about `None` being no value, and about what the code
fixes: a limit, a window, a batch and a page have at least one place (`PER_MINUTE`, `WINDOW_SECONDS`, `MAX_LIMIT`,
`MIN_BASELINE`); texts are pulled DISTINCT, so that no two articles are the same text; the calls before any plan differ (`_FIXED`); a batch is no larger than what the api
answers with (`_BATCH`, `MAX_PENDING`); a budget is a positive number; a report makes no more calls than the api takes of a
run (`insight_max_tool_calls`, `MAX_TOOL_CALLS`). How many calls a chat makes, and by which ids, is not limited. The calendar has
three years at least, `MAX_DAYS` is no less than 365, and the days that a tool is asked on and about have a year before them.

Proving `ReportsAgree` showed one of its parts to be false of real months, though no small instance shows it: the gap between the
days of entries, in tenths and rounded, need not fit below the month (26 days within a span of 29 of a
month of 30 round up to more). `MeanAndGapFit` now has the bound that holds, half a tenth more for each gap.

### Only model-checked

- Liveness, for which the provers have no `ENABLED`: `EveryRequestEnds`, `EveryPressEnds`, `InputReopens`, `EveryReportEnds`.
- `DocumentsAreWhole`: it follows sequences through folds and sorts of the library, step by step of the sequence.
- `StandInsAgree`, with `CardDaysArePast` for the dates on a card: a second copy of every sum is a finite case distinction over data that a run goes through and a proof would
  only repeat.

## Not modelled, and why

- Wiring and settings (`api/main.py`, `agent/main.py`, `ui/main.py`, settings modules): they build objects once.
- Rendering: presenters, charts, pages and their routing; wording and prompts. No property tells layouts apart.
- The regular expressions of `UtteranceParser` and of the card messages: what they find
  is a record in `StandIns`, what they match is left out.
- `scripts/check_docs.py` and `scripts/fetch_laws.py`: tools of the repository, not of the program. The demo's documents
  are data.
- Tokens, scores and similarities: language models, embeddings and PostgreSQL itself are external
  and modelled by what the code relies on.

Further limits of the models: one shared clock; a server that rolls back a dying request at
once; no `serialization_failure`, since READ COMMITTED raises none; in `CaptureGate`, time passes
at most once during a press; amounts, merchants, memos and dates are left out of
`LedgerWrites`. The parts do not meet each other in `MCParts`: where one uses another's result
it is any result of its kind (a choice of category in `Reading`, results of queries in `ModelOutput`).
In `MCParts` a plan that stands its check has two steps.

## Where code and documents part

The violated runs show five. These were met while reading and are not runs; the models
follow the code.

Confirming and recording
- `docs/ai/chat-capture.md:263` keeps a proposal waiting when the api refuses its values (422);
  `decide_record.py:90` closes it as failed.
- `record_entry.py:3` says that a date that was filled in is told as unsure; only category and
  account are. A renewed proposal's card marks nothing as unsure (`decide_record._renew`).
- A proposal told "not saved" may show up later as an awaiting row that no card belongs to.
- The scripted agent and the routed chat differ on "0원": the routed chat takes it as something to record.
- `2/29` said in a common year is no date, even where the year before has the day (`said_when.py`).

The loop and its stream
- `docs/ai/agent-loop.md:197`: repetitions of a tool after `internal_error` pass the wall clock too.
- `docs/api-contract.md:269` says that a call's id is unique within its run; a second plan after a
  dropped step numbers calls anew. `chat_run`'s `#n` may also meet an id the provider gave, and a
  tool's name of more than 50 characters, or of none, makes the api refuse the record of the chat, as does
  a hundred-and-first call: nothing limits the calls of one reply.
- `docs/chat.md`, 4.2: the reconnect it describes is not there.
- `run_tool._suggest` cuts its evidence to eight without saying so.
- A model without a price costs 0, and the limit of cost never holds (`litellm_language_model.py`).
- `mcp_server` takes weeks and days as the period of `get_budget_status`, the agent only months, though
  `arguments_parser.py` says that the rules of a period are the same.
- `docs/ai/tools.md:124` cuts the period a week, month or year that goes on is compared with to as many days;
  `run_tool._same_length` cuts it for a month only, since this week and this year end with today and what ends with today
  counts as over, as `docs/ai/agentic-reports.md:86` has it.
- One try of `search_documents` has no time limit of its own (`run_tool.py:169`): it waits for the lock of the index however long
  others hold it, and each of its calls may take its own limit. The wall clock of a question is not looked at meanwhile.
- `chart_fill.py` says that no number of the model gets into a chart; the title is not checked.

Reports and numbers
- The data version misses a transaction that began early and commits late (`transaction_row.py:47`).
- `cached_insights.py:23` says that the key changes with the data. It also changes back: an entry
  made and deleted again while a report is made stays in the cached report.
- The key of a report lacks the day, though its words speak of today.
- `insight_cache_router` says that the last write remains; a PUT that is repeated replays instead.
- `read_budget_statuses` counts entries dated after today.
- The narrator of the demo may say of one category that it will pass its budget and that it is hardly
  used; `report_insights` of a month to come is not led to this month as the page is.

Index and documents
- Each kind of request has a lock of its own (`agent/main.py:112`, `classify_category.py:56`), so two of them
  may embed one text; another vector under the same key is refused and fails the request.
- The pending list comes back short where an article's text is an entry's as well.
- Two unnumbered paragraphs of one article get one chunk id, and the whole load fails.
- A hybrid search may mix the chunks of two versions of a law.
- An answer whose retrieval fell back to keywords is not marked so on its page.

Forms, demo and schema
- A deletion that is sent again gets 404 although it succeeded (`transaction_form_router.py:81`).
- A form's page outlives its key: sent again more than 24 hours after it was saved, by the back button, it makes a second entry
  (`sql_idempotency_store.py:13`).
- The edit form drops the seconds of `occurred_at` and sends every field, so it writes over what was
  changed elsewhere meanwhile; a reply of `read_capture` that comes late draws over what was typed; a late
  list of categories may be of the other direction (`category_select_router.py`).
- Resetting the demo keeps the proposals of its chat. A creation repeated after its entry was deleted creates again, and
  an update there has no key. A card message of `2/29` read in a leap year before that day raises
  an error nobody catches (`scripted_capture_reader.py:125`).
- `api/seed.py` says six months of examples; it fills twelve.
- Going below revision 0006 with runs in the tables cannot be undone, and going below 0003 makes
  "no budget from here on" a budget again.
