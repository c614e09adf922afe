# Verification of the analytical platform

TLA+ models of the backend under `src/backend`, the TLC instances that check
them and the TLAPS proofs that extend the most important results to every value
of the constants. Every definition is a translation of code; `PROJECT.json`
names the lines. Where a document and the code disagree the model follows the
code, and the disagreement is a property that TLC refutes.

## 1. The system

A market-analytics platform. A scheduler in the worker process starts an
*execution cycle* every half hour; a command line and `POST /runs` start one at
other times. A cycle fetches bars from the provider (INGEST), computes
indicators, open interest and market profiles (ANALYZE), and composes scores
(SCORE), for all tracked instruments, in **one** database transaction under
**one** PostgreSQL advisory lock. Apart from cycles, a streaming ingestor writes
one-minute bars, a daily roll changes the set of tracked instruments, and the
API reads.

| Component | State it keeps | Operations | Talks to |
|---|---|---|---|
| Run lifecycle (`worker/scheduler.py`, `worker/cli.py`, `worker/deps.py`, `api/routers/runs.py`, `api/routers/health.py`) | advisory lock on a pooled connection, `analysis_runs` (`cycle_seq`, status, snapshot) | scheduled tick, CLI cycle, POST + background task, readiness probe | database; runs the cycle |
| Execution cycle (`worker/cycle.py`, `pipeline.py`, `worker/hooks.py`) | eligible instruments, outcomes per phase, roll-ups | the three phases, finalise, hooks | ingestion, analysis, scoring; subscribers |
| Request budget (`ingestion/budget.py`) | deque of grant times behind a lock | acquire, snapshot | fetch threads; HTTP client |
| Results (`analysis/service.py`, `scoring/__init__.py`, repositories) | `analysis_results`, `signal_scores`, factors, `current_*`, profile cache | analyse or carry, score, project, rebuild | read by the API |
| Backfill (`ingestion/backfill.py`, `aggregation.py`) | bars, watermarks | plan, fetch with a pool of threads, store, aggregate | provider, request budget |
| Streaming (`ingestion/stream.py`, `analytical_core/streaming/m1_builder.py`, `providers/upstox/feed.py`) | buckets of forming minutes, the open transaction | tick, flush, reconnect | second writer of the bars |
| Registry and universe roll (`instruments/`) | `instruments`, `is_tracked` | roll, bootstrap, contract keys | read by cycles and stream |
| Provider access (`providers/upstox/`) | token, request spacing | fetch, retry, OAuth | provider |
| Validation gate, calendar gate | none | decide whether to run | file, calendar |
| Configuration (`settings_store.py`, `config.py`) | `app_settings` | GET and PATCH /config | every cycle |
| Scoring, indicators, options, astro (`analytical_core/`) | none | pure functions | called by the cycle |
| HTTP API, backup, schema, frontend | none of their own | read, format, dump | database |

What is hard in it, and what makes each part correct:

- *Starts overlap.* The lock belongs to a connection, is re-entrant on it,
  survives rollback and return to the pool, and is released **before** the commit.
  Correct: at most one cycle at a time; rows numbered 1, 2, 3, ... and closed once;
  every accepted run closed; no flow stuck.
- *One transaction over all instruments.* One failed statement poisons the rest.
  Correct: a committed run tells the truth about every instrument; a later phase
  works only on what the earlier one left fit; every cycle ends.
- *Threads share a budget* and sleep outside its lock, and every cycle begins with
  an empty one. Correct: spacing and rolling quota, and nobody starves.
- *Results are carried* from run to run, over data that changes under them.
  Correct: a carried result comes of the input the engine would be given now; links lead to the
  row with the payload; projections are a function of the history.
- *Two writers of bars.* The stream builds minutes from ticks that may be late, the
  backfill overwrites them from REST, in transactions that wait for each other.
  Correct: what the stream leaves wrong is repaired; no volume twice; a final
  aggregate is whole; a watermark does not go back.
- *Contracts expire, are renamed, and pass their symbols on.* Correct: nothing is
  fetched under another contract's symbol.
- *Everything is read back from a growing series.* Studies, events and screens are
  computed anew from all bars each time, several of them from the same rows by
  different code, each once per market side. Correct: what was said of settled
  bars stands; two readings of one fact agree; the sides mirror each other; what a
  structure states is what its legs do.

`PROJECT.json` lists every component with its status and every hazard with its
line.

## 2. Modules

```
RunLedger  <--refined by--  RunLifecycle  <-- RunLifecycleProofs
RequestBudget <-- ProviderAccess <-- ProviderAccessProofs
Cycle <-- CycleProofs                      ResultHistory <-- ResultHistoryProofs
M1Builder, BarAggregation <-- BarStore <-- BarStoreProofs
InstrumentRegistry <-- InstrumentRegistryProofs
MarketProfile <-- ProfileEvents <-- ProfileProofs --instantiates--> FoldFacts
OIBehavior <-- Indicators <-- PriceStudies <-- Scoring <-- DayViews <-- Prices
                                                           DayViews <-- IndexBreadth
                                     Prices, IndexBreadth <-- PriceViews
OptionChain <-- OiPulse, Strategy <-- OptionDesk
MC*: the instances TLC runs
```

`A <-- B`: B extends A.

**RunLedger** is what `analysis_runs` promises its readers and nothing of how:
committed rows are numbered densely in the order of their ids, none is removed or
renumbered, a closed row never changes.

**RunLifecycle** has a *flow* for each call: a tick or CLI cycle, a POST with its
background task, a probe. `pc[f]` is the flow's place in `worker_context`
(`locked` to `leaving` are inside it, `committing` is after the unlock and before
the commit), `conn[f]` its session's connection, `held[c]` how often a connection
holds the lock, `tx[f]` what the flow has written and not committed, `runs` the
committed table. `EnterContext`/`FindBusy` are `pg_try_advisory_lock`;
`NextCycleSeq`, `DrawId`, `CreateRun` are the parts of `create_pending_run` that
other sessions can fall between (the `MAX`, the id from the sequence, the flush
that waits on the unique index); `RunCycle` is `run_cycle` up to `finalize_run`;
`LeaveContext` is the unlock and `CommitSession` the commit. `AbortContext` is the
way out with an exception: in an aborted transaction PostgreSQL refuses the
unlock as well, so the connection returns to its pool with the lock.
`StatementFails`, `CommitFails`, `FailPendingFails` and `Crash` are the faults;
`GateClosed` is the tick the calendar gate stops; `PatchConfig` is another
client's PATCH /config.

**Cycle** is the inside of `run_cycle`: INGEST with `Workers` fetch threads and a
serial store, ANALYZE and SCORE over the eligible instruments, the roll-ups, the
hooks, and the commit of `worker_context`. `tx` is the state of the transaction:
after a failed statement every later one fails, and no handler rolls back. `held`
are the instruments whose minutes the live stream has written and not committed
(`StreamWrites`, `StreamCommits`); storing the same minutes waits for it. It assumes at
least one tracked instrument.

**RequestBudget** is `acquire()` with its lock: a round of the loop is one action
(`Acquire`: prune, then grant or sleep), time is a separate action, and a runnable
thread may be kept waiting (`lag`). `stamps` keeps every grant as a history, `head`
is the front of the code's deque.

**ProviderAccess** is what a fetch does above the budget. `Begin` builds the
provider (the validation gate, the token), `Slot` waits for the budget, `Send`
spends the grant with the token of that moment, `Answer` is the provider's page,
its throttling with the client's back-off or `Retry-After`, or a refusal.
`ChangeToken` is a login meanwhile, `NewContext` the next scheduled cycle with a
budget of its own. A page is abstracted to its days, a token to the day it was
issued, and every failure to `failed`.

**ResultHistory** is one instrument's results. A *slot* is an analysis with its
`scope_key`; its input is abstracted to the time and finality of the last bar,
a revision of its content, and whether complete bars were changed; the market
profile is also given the clock against the close (`closed`) and the latest earlier
profile that is complete (`PriorOf`). "indicator"
stands for the per-timeframe analyses, which differ in nothing the properties
tell apart. `Analyze` is one turn of the loop over the plan (guard, row,
projection), `AnalyzeFails` the turn whose engine raises, `Score` one timeframe's
score with its factors and links, `Rebuild` the rebuild-projections command;
`SessionCloses` and `NextDay` are the clock, which a run reads once. The inputs of
the slots change independently of each other (in the code several are views of
the same bars), which allows more behaviours than the code; runs that abort and
a rebuild concurrent with a run are left out.

**M1Builder** and **BarAggregation** are the two pure parts of the bars: the
builder of minutes from ticks, and the session grid with the fold onto it.
**BarStore** composes them with the two writers. `Trade` and `SendFrame` are the
exchange and its feed (a frame may be late), `Connect`, `ReceiveTick`, `OtherTick`,
`FeedEnds`, `FeedFails` the ingestor (`Turn` is the body of its loop: the tick's
upsert, the flush, the commit in the turn of a flush), `Fetch`, `ReadDaily`,
`StoreBars`, `CommitBars`, `AbortJob` a backfill, by the cycle or by the command.
A bar is the set of trades it was made from (`seen`) and its volume, so that lost
and invented trades are visible. `verified` is a history: the finished minutes a
backfill has stored whole. `volumeDay` is the exchange's: the day whose volume
the feed reports, which starts anew once, some time before the day's first trade.

**InstrumentRegistry** has the exchange's `listing` and the registry `reg`. `Sync`
is the master's import with its quarantine and the deactivation of what was not
seen, `Roll` the plan around the spot with the change of `tracked`,
`CreateInstrument` and `PatchTracked` the API's writes; `NextDay` and
`ListContract` are the exchange. `CreateInstrument` takes the symbol the exchange lists at the
time: the handler accepts whatever is posted (services.py:178-260), and a contract
entered from a stale catalogue is not covered. `synced` says that the exchange has changed
nothing since the registry read it.

**MarketProfile** is the profile engine: TPO and volume bins, value area, initial
balance, tails, shape. **ProfileEvents** is the event layer over it: snapshots per
bracket, the acceptance, rejection and outside machines as folds of a step
function over the snapshots, and the readings (opening, migration, topology,
tension, day type, silhouette). Its state is a session in progress: `BarPrints`
(or the minute has no bar), `Tick`, `Cycle` (rebuild and store today's row),
`NextDay` (the row becomes the prior profile if complete).

**Indicators** and **PriceStudies** are the studies as operators over a sequence of
bars with whole prices; what the code divides is compared by cross
multiplication. **OIBehavior** is the table of price against open interest that two
engines use. **Scoring** turns what the studies say into factors, sub-scores,
confidences and the composite. **DayViews** and **IndexBreadth** are what the API
computes on read: pivots in force, daily digest, board, key levels, half-hour
grids, constituents of an index. **Prices** is the series: `Store` prints a bar,
`Revise` changes the last one until it is final. **PriceViews** states the
properties of the views over the same series.

**OptionChain** is the table of one expiry, **OiPulse** its open interest over the
day (pulse, trace, ladder, a contract's trace), **Strategy** the ranking of views and the
structures with their profit, loss and breakevens. **OptionDesk** is a session:
`Stream` stores a minute of premiums and open interest (some contracts silent),
`Cycle` writes the analysis and the M5 bars, `Roll` drops the near expiry; every
screen is an operator over those rows.

## 3. Runs

| Run | Instance | What it shows |
|---|---|---|
| `lifecycle` | 1 tick, 1 POST with a key, 1 probe; API with 2 connections, worker with 1; 2 settings; 1 fault | `TypeOK`; `MutualExclusion`; `OpenRowsAreOwned`; `ImplementsLedger` (refinement of RunLedger); `EveryFlowEnds`; `AcceptedRunsEnd` (without faults every 202 gets a final status) |
| `cycle` | 2 instruments, 2 threads, all sets of phases | `SucceededIsComplete`, `DownstreamOnlyFit`, `StatusExplained`, `HooksReportStatus`, `CycleEnds` |
| `provider` | 2 threads, 2 pages each, 2 cycles, 1 retry, quota 3 in a window of 6, 1 change of token, 5 status files | `AccessTypeOK`; `SpacingKept`, `QuotaKept`; `FetchIsWhole` (every day once, in order, and no grant wasted); `AskedOnlyWhenValidated`; `FetchesEnd` |
| `results` | 1 timeframe, 2 sessions, 3 runs of both phases in any order, 2 changes of the data | `CarriedFromRoot`; `CarryIsFresh` (what is carried comes of the input the engine would be given now, the clock excepted); `FactorsTraceable`; `ScoresRebuilt`, `AnalysesRebuilt`: in creation order the projections are what a rebuild derives, up to section 5 |
| `bar_store` | 2 trading days of 2 minutes and a holiday, 2 trades, 2 frames, 2 connects, 2 fetches | `DamageInReach`: what the stream leaves wrong lies where the next fetch overwrites it, unless it is older than the lookback or was stored whole before; `VolumeNotInvented`; `AggregatesWhole`; `WatermarkForward` |
| `registry` | an index, a future, 2 options, 3 symbols, 4 changes by the exchange | `SymbolsAreTheirs`: what is active is listed under the symbol it is fetched with |
| `profile` | 2 sessions of at most 2 and 4 bars | `ValueAreaSound`; `NoRepaint` (what a cycle stored of an event a later one only continues); `AcceptancesNest` (an acceptance beyond the range waits for the one beyond the value, and fails with it); `ReadingsAgree` |
| `prices` | series of at most 9 bars | `HistoryStands`, `ViewsStand` (no repainting); `SidesMirror`, `ViewsMirror`, `ScoresBalance` (no side is treated otherwise); `ViewsAgree` (readings of one fact, the pivots in force while the newest period is open) |
| `options` | 6 strikes, 2 expiries, a session of 4 samples with 10 tapes | `ScreensAgree`, `TraceStands`, `PayoffsHold` (breakevens beyond the wings excepted, section 5) |
| `lock_leak`, `stream_blocks`, `strangle` | as small as shows it | expected violations, section 5 |

Every property of a passing run has a mutant: the operators marked "Slip" in the
modules are plausible bugs of the code, each of which makes TLC refute the property.

### Bounds

`MaxFaults = 1`: the hazards of RunLifecycle are single faults between two steps
of other flows; the proofs hold for any number. Three competing flows are needed
for the worst case of the lock (one that leaves, one that reads a stale maximum,
one that is refused): the tick, the POST and the probe in `lifecycle`, two ticks
and a POST in `lock_leak`. In Cycle, instruments meet in the pool and in the
transaction, where two suffice. In ProviderAccess two sleepers are woken
together by one freed slot; four pages with a retry fill the window of three
twice; `MaxLag` bounds the *sum* of the delays and `MaxTime` is never reached
before all are served. In ResultHistory a third run is needed for a carry from a
carried row, two changes for one before a run and one while it analyses.

Runs of one phase only are left to the proofs, which hold for any requests.

In BarStore two days are needed for the resume point and the day's volume, and a
third, a holiday, for the minutes of the first to leave the lookback; two trades
and two frames for a late quote that reopens a minute, two backfills for the
order of fetch and store. Volumes need more of the exchange to go wrong, and less
of the backfill: without fetches the invariant of the proof was checked for three
trades, five frames and days of three minutes as well. In
InstrumentRegistry four changes suffice to delist a contract, hand its symbol on,
and change the successor. In ProfileEvents seven slots are three brackets of two and a
partial one; the second day has four bars, the fewest with an initial balance, a
break, an acceptance and its failure. In Prices every parameter that counts bars is
cut to one to five, so that nine bars hold a swing, an impulse, a gap, a test and
a breakout; the moves of each bar are chosen so that each branch of the studies is
taken by some path. In OptionDesk the marks of the trace lie fifteen minutes
apart, as in the code, and the samples fall before, at and after the first hour
and after the close.

`CHECK_DEADLOCK FALSE` everywhere: each instance has finitely many calls, cycles,
bars or requests and stops when they are done. That nothing else stops them is
what the liveness properties say, where something has to end.

### Fairness

- `RunLifecycle`: weak fairness of each flow's own steps **once it has begun**.
  Nothing obliges a tick, request, fault, crash or PATCH to come. Statements return
  since threads are scheduled and a wait on the unique index ends with the other
  transaction. `RunCycle` is one fair step here, so the waits *inside* the cycle are
  outside `EveryFlowEnds` and `AcceptedRunsEnd`: they assume that the cycle ends,
  which is what `CycleEnds` says and on which condition.
- `ProviderAccess`: weak fairness of time and of each thread's turn: `time.sleep`
  returns, a mutex held for a few instructions is granted to somebody, and a
  request ends, with an answer or by the client's timeout.
- `Cycle`: weak fairness of `Progress`, the steps the thread takes by itself (a fetch
  returns or raises, since the HTTP client has a timeout and a bounded number of
  attempts; the engines are loops over finite data; no other fault is forced), and
  strong fairness of `Persist`: PostgreSQL wakes the waiter when the transaction it
  waits for ends. Nothing is assumed of the stream, whose uncommitted minutes hold
  `Persist` up: `CycleEnds` is conditional, `[]<>(held = {})` implies the end. The
  condition is not a promise of the code. The stream commits in the turn of a tick
  only (`ingestion/stream.py:83`), and what follows when no tick comes is what
  `stream_blocks` shows.
- `BarStore` (`stream_blocks` only): weak fairness of a backfill's steps. Frames come
  from outside and nothing obliges one to come.

## 4. Proofs

**RunLifecycleProofs** (`TypeCorrect`, `SingleFlight`, `LedgerImplemented`,
`OpenRowsOwned`), from
`FlowAssumption` only: any flows, processes, pools, keys, settings and number of
faults. Mutual exclusion is not inductive: the lock is re-entrant, outlives its
session and may leak. `Inv` adds `KindInv` (which flow can be where), `LockInv` (a
connection serves one session, a flow with the lock holds it through its
connection, *all holds are on one connection*), `IdInv` (ids are drawn once),
`TxInv` (what a flow has written at each place) and `NumInv`. The last is why the
numbering survives the early unlock: committed numbers are dense; a computed
number is the next one or has been taken since, and then every row with a later
id has a number at least as high; at most one uncommitted row is new and it is
the next in every respect. So the unique index refuses exactly the stale numbers,
and each commit is one `Append` or `Close` of RunLedger. One lemma per conjunct,
with one step per action. `LedgerImplemented` proves `Init => Ledger!Init` and
that each step maps to a ledger step or to a stutter. `OpenRowsOwned` adds
`WrittenByOwner` (what a flow writes carries its name, and a tick commits only a final
row): a row opened by a POST keeps its owner through every step that leaves the
table alone (`Kept`), and the steps that write it close it or hand it on.

**ProviderAccessProofs** begins with the budget alone (`SpacingHolds`, `QuotaHolds`), for
any threads, interval, quota, window and delays. `Inv` is `TypeOK`, both properties,
and `PruneInv`: what has left the deque is at least a window old, so the test on the
deque decides about all grants. Then the fetches over it (`AccessSpacing`, `AccessQuota`,
`GateHolds`, `FetchComplete`, `FetchHolds`, `AccessTyped`), for any threads, pages, retries,
status files and tokens. A turn of a fetch at the budget is a step of RequestBudget, whose `Inv` is
used as proved; every other step is a new budget, or leaves the grants alone and
changes only what a thread still asks for and how long it sleeps (`BudgetStands`).
`GateInv` says that whoever asks has passed the gate, or ended. `PagesInv` is the
account of a fetch: what it has, what it has still to ask for and what is on its
way are the pages it wants, and what it has are the first of them; a retry moves
one back. For `FetchIsWhole` the pages of a range follow one another without gap or
overlap, whatever the limit on days (`Contiguous`, `ChunksContiguous`), and such
pages laid end to end are the days in order (`DaysJoin`). `AccessTyped` adds
`RestTyped`, the types of what budget and pages do not depend on.

**CycleProofs** (`SucceededHolds`, `DownstreamHolds`, `StatusHolds`, `HooksHold`), for any
number of instruments and fetch threads and any sets of phases. What a committed
run says depends on every step before it, so `Inv` has a conjunct for each thing
`run_cycle` relies on between its steps: what a fetch has received at its place
(`FetchInv`), that OK means worked on wholly (`WorkInv`), that a phase not begun has
left nothing (`BeforeInv`), that the one in progress has outcomes up to the cursor
(`PhaseInv`), that a phase's row agrees with the outcomes of all instruments
(`RowInv`), that nothing is made of an instrument that is not fit (`FitInv`), and
where a failed transaction can be and what the end knows (`EndInv`). The last is
where "the transaction was aborted" and "the run reports success" meet: no
handler rolls back, so what is reported after a failed statement is never
committed.

**ResultHistoryProofs** (`CarriesNameRoots`, `CarriesAreFresh`, `FactorsHold`, `ScoresHold`,
`AnalysesHold`), for any timeframes, sessions, requests, number of runs and
changes. `Inv` is `Typed`, `CarriedFromRoot`, `CarryIsFresh`, `DayInv` and `RowsInv`, which
relates each row to the present input of its slot: no row is ahead of the data
(`Behind`), equal windows mean equal data unless complete bars were changed
(`WindowMeansData`), and a row over a final bar is what the bar still is
(`FinalIsCurrent`). `DayInv` is about the prior session: a run analyses today's profile
only, so the profiles before it, and with them what every row's prior session was,
stand (`PriorsStay`). Each conjunct must survive changes of the data as well as new
rows. The other three theorems need to know how runs write (`HistInv`): a run is
executed once (`RunsInv`), analyses a slot once (`PlanInv`) and scores a timeframe
once (`ScoreInv`), so that the last row of a slot is the one on show, and a factor
links to rows that exist (`LinkInv`).

**BarStoreProofs** (`DamageHolds`, `AggregatesHold`, `WatermarkHolds`, `VolumesHold`), for
any session, lookback, repair window, interval, callers and faults. A backfill
acts on bars it fetched earlier; the first invariant says what still holds of
them whenever they are stored (`BarsOK`): final ones are whole (`FinalWhole`), the newest
one of the current day is not final (`NewestOpen`), up to it none is missing
(`NoGap`), and none lets the watermark pass a minute that nobody has verified
(`NoJump`). A trade, a midnight or the other caller's commit may come between, and each is a
lemma. From it follow the reach of the next fetch, whole aggregates and the
watermark; the stream plays no part in it. Volumes are the stream's alone. `VolumeInv`
counts the trades of a day up to the newest one that a bar has seen (`Behind`): a
bar's volume and what an earlier bar of its day has behind it are together no
more than what it has behind itself (`BarsApart`). To be inductive it needs what a frame on
its way may carry (`FrameOK`: the volume of its trade's day, or nothing once that is
over) and where a bucket starts (`BucketOK`), with the exception that makes it
hard: a bucket begun by a late quote after the day's volume was gone has counted
nothing and never will. The sum over the day is bounded by giving each bar trades
of its own (`SumBound`).

**InstrumentRegistryProofs** (`SymbolsHold`, `OwnersHold`), for any contracts, symbols,
flaws of the master and universe: a symbol has one instrument, active or not, and
once synced every active instrument holds the symbol its contract is listed under. A
sync folds the rows of the master over the registry; `PassOK` is what each row
keeps.

**ProfileProofs** (`ValueAreaHolds`, `AcceptancesHold`, `ReadingsHold`, `NothingRepaints`, with
`BarsInOrder` and `SessionsHold`), for any bars, bin width, share of the value area,
brackets, days and prior sessions:

- *The inductive invariant* is `SessionInv`. None of the four properties is inductive,
  for each speaks of what is computed anew from the bars: what they need of the
  state is that the bars are in order (`SeriesInv`), that the stored row is a beginning
  of them with a profile, and every later bar comes after the row's clock but for the
  delay (`RowInv`), and that the prior levels are those of a profile (`PriorInv`: the
  value lies around the point of control and below the high).
- *The value area* (`ValueAreaHolds`). What holds after k turns of the loop (`AreaOK`): the
  area is one stretch of the printed bins around the point of control, and without
  what the last turn added it would not hold enough. A turn on an area that is
  short adds a bin (`AreaWidens`), so as many turns as there are bins suffice.
- *The machines nest* (`AcceptancesHold`). The machine beyond the prior high and the
  one beyond the prior value are run side by side over the brackets; after each, the
  inner one is ahead of the outer: its counter of full brackets is at least as
  high, and it has developed and accepted if the outer has (`Ahead`). It needs that full
  beyond the farther level is full beyond the nearer one (`FartherFull`), which is where
  the counts of bins with their tolerance of half a bin come in. Who fails within fails
  without: the inner machine's opposite brackets count for the outer one (`Behind`),
  and what the histories hold is what the turns have added (`Marches`, `PairSteps`).
- *The readings agree* (`ReadingsHold`): linear arithmetic over the levels of today's and
  the prior profile, once the levels of every profile are known to be in order, and
  for the value outside what its machine has seen, by induction over the brackets.
- *Nothing repaints* (`NothingRepaints`), under two assumptions that its statement names: no
  bar comes late (`Delay = 0`) and none at the slot of the close. Without the first it is
  false, see section 5. The brackets closed at the row's clock have the same bars
  in the later series, so the later facts are the stored ones with more brackets
  (`Truncated`), and a machine's history over more brackets begins with its history
  over fewer.

**FoldFacts** holds what those need of folds, sums and finite sets of numbers: an
invariant of a fold's step is one of its result, a fold over more steps continues the
one over fewer, a sum over a finite set grows with it. The step and the formula of the
induction are CONSTANT operators of the module, so that ProfileProofs gets each induction by
instantiating it, where a theorem with an operator parameter could not be cited.

The sums and folds in the other proofs are recursive functions of the library as well.
The induction over their length is written as a least counterexample, from the
well-foundedness of the naturals (`Least`).

Every safety property of `lifecycle`, `provider`, `results`, `cycle`, `bar_store`, `registry`
and `profile` is thus proved, from the named assumptions about the constants and, for
`NoRepaint`, the two above. All strengthenings were first checked by TLC as invariants of
these instances; that is how the conjuncts about late frames were found.

Model-checked only:

- Liveness (`EveryFlowEnds`, `AcceptedRunsEnd`, `CycleEnds`, `FetchesEnd`): beyond the prover, as
  is ENABLED.
- `SidesMirror`, `ScoresBalance`, `HistoryStands` of Prices, `ViewsAgree`, `ViewsMirror`, `ViewsStand` of
  PriceViews. A proof of the mirror has to carry each of some twenty studies, most
  of them folds or chosen extremes, through the reflection of prices, and the properties
  name the ties that have to be excluded one by one; what a search in the studies
  finds first has no closed form short of the search itself.
- `ScreensAgree`, `TraceStands`, `PayoffsHold` of OptionDesk. The first two relate four
  traversals of the same rows, each its own fold; the last states extremes of a piecewise
  linear function over the strikes of the instance.

## 5. Where the code does not do what is written

Expected violations, checked as runs:

- `lock_leak` (`BusyMeansCycle`): two starts around the unlock-before-commit window
  take the same `cycle_seq`; the second's transaction fails and so does its unlock;
  the lock stays with a pooled connection and later starts are refused
  although no cycle runs.
- `stream_blocks` (`BackfillEnds`): the stream commits only in the turn of a tick that
  finds a flush due. Its uncommitted rows keep the cycle's upsert of the same bars
  waiting, under the single-flight lock, until another tick comes.
- `strangle` (`StrangleBreaksEven`): the breakevens stated for a long strangle lie
  inside its strikes, where both legs lose all of the debit; they should lie
  outside by the debit.

Stated in the modules, refuted in the same way, and not part of the regular runs.
The cfg names one at a time (`tlc -config <cfg> <module>`):

| Property, cfg | What happens |
|---|---|
| `BusyMeansCycle`, `RunLifecycleOpen.cfg` | a readiness probe holds the cycle lock between two statements; a tick there is skipped |
| `OneRunPerKey`, `RunLifecycleOpen.cfg` | two POSTs with one Idempotency-Key look before either commits; both create a run |
| `SnapshotIsEffective`, `RunLifecycleOpen.cfg` | PATCH /config between creation and execution: the run's snapshot is not what it ran with |
| `InstrumentProblemsRecorded`, `CycleOpen.cfg` | a failed statement in one instrument's analysis undoes the whole cycle instead of becoming an ERROR outcome |
| `HooksAfterTheFact`, `CycleOpen.cfg` | subscribers hear of a run that is then rolled back |
| `FetchErrorsContained`, `CycleOpen.cfg` | a transport error of one fetch fails the whole INGEST phase |
| `RollingQuota`, `ProviderRolling.cfg` | the rolling quota is kept within a context only; two cycles together exceed it |
| `LinksExact`, `ResultHistoryOpen.cfg` | the map of a score's links is keyed by analysis alone: a factor of one timeframe may link to the result of another |
| `RebuildKeepsSession`, `ResultHistoryOpen.cfg` | the rebuild puts the oldest session's profile on show |
| `RebuildKeepsScores`, `ResultHistoryOpen.cfg` | runs executed in another order than created: the rebuild shows another score |
| `RebuildKeepsSummaries`, `ResultHistoryOpen.cfg` | after a carried result the rebuild shows no values |
| `AdvancedOIRecomputed`, `ResultHistoryOpen.cfg` | open interest is carried although its last minute advanced |
| `ReingestedRecomputed`, `ResultHistoryOpen.cfg` | a profile is carried although its bars were ingested anew |
| `ClosedProfileCompleted`, `ResultHistoryOpen.cfg` with `PROPERTY` | the profile's guard looks at the last bar and the parameters (service.py:248), not at the clock: computed before the close and carried after it, a session stays incomplete, and no later session takes it as its prior (docs/14:166) |
| `CurrentIsLastCompleted`, `Prices.cfg` with `INVARIANTS CurrentIsLastCompleted` | once the newest period is over and until a bar of the next is stored, the set called current is a period old (services.py:4037; docs/05:1084) |
| `BreakevensAreReal`, `OptionDesk.cfg` with `INVARIANTS BreakevensAreReal` | at the chain's edge the wing is the short strike itself: the stated breakeven is where the legs earn (strategy.py:499) |
| `DamageAlwaysInReach`, `BarStoreOpen.cfg` | a quote of an earlier day's last trade, still on its way or in a bucket when the watermark moves on, overwrites a verified bar that no fetch returns to |
| `FinalBarsKept`, `BarStoreOpen.cfg` | a quote that comes after its minute's bucket was dropped reopens it and overwrites the final bar |
| `DailyWatermarkForward`, `BarStoreOpen.cfg` | two backfills at once: the second writes back the D1 watermark it read before the first committed |
| `PlannedAreFetched`, `InstrumentRegistry.cfg` with `PROPERTIES PlannedAreFetched` | the successor of a symbol is quarantined by every roll and sync, for the dead contract keeps the symbol in the map |

Met while modelling, kept in the model as the code has it, and not stated as a
property of their own:

*Provider.* Quotes of the API (`instrument_quote`, `index_constituents`,
`constituent_levels`) go by clients of their own, without the shared budget.

*Streaming.* A frame of the feed's ltpc mode carries no volume and counts as zero
(feed.py:41); the default mode is full. After midnight and before the first trade a
quote carries an older day's trade with a volume that has started anew.

*Market profile.* The prior value area's low may lie below the prior session's low, since
a bin's level is its lower edge: where a bin is three units of price wide or more, the two downward
levels can be out of order, and `AcceptancesNest` says nothing of them then. An acceptance beyond the range that first
develops after the one beyond the value has failed may still be confirmed: the failed
machine is done and does not start again, so the two end differently; `AcceptancesNest`
asks only that what had developed by then fails as well. The machines of the initial
balance are not nested in anything. With no period for the
initial balance the sidedness of a session is not defined; the configuration allows 1 to
12. A row that has the last bar is not rebuilt after the close (`ClosedProfileCompleted`);
with `Delay = 1` NoRepaint is refuted. `LATER_ACCEPTANCE`, `SUSTAINED_ACCEPTANCE`
and the narrative `REJECTION_` cannot occur; the parameter `tail` is read by
nothing (docs/14 14.5).

*Studies.* The distance to a gap is measured to its far edge (fvg.py:88; docs/07:207
has the near edge). A bar that spans a candle range on both sides ends its search.
Cycle clusters group from their first member only. Ties and dojis are given to one
side: an order block's opposing candle, rising bars of the volume study, the
cross, the half of the band, a spike without a move; `SidesMirror` and
`ScoresBalance` name each of them as an exclusion. An order block without active
blocks still has a factor row, with confidence 0, and a cross on a bar that is not
final keeps its full confidence (docs/06 3.1). `_ANALYSIS_KEYS` of the
configuration model lacks two analyses.

*Day views.* A set is called final on the next day, though a later backfill may
still revise its last bar; `ViewsStand` assumes revisions on the bar's own day, and looks
at the steps that store a bar, not at the hours between the close and the next one. The grid of
candle ranges loads forty M5 bars, which are seven to nine half hours against a
minimum of eight: its M30 column comes and goes with the time of day. A price
exactly at a level counts as rejected from above. Correlations pair returns by
position and not by date.

*Options.* The chain's spot is the last M5 bar even when an M1 bar is newer, the
pulse's is the newest. A contract's first sample stands for all earlier marks, so
totals, PCR and max pain of the trace may change when a silent contract begins to
trade; `TraceStands` holds for what either side added. Unpriced structures list
breakevens. A breakeven stated beyond a wing that is no farther than the premium is excused
in `PayoffsHold`. The ranking is cut at four in the instance; the default of eight never
cuts, for a view suggests five structures at most. Without an implied volatility at the
money or time left there are no odds. The screens of `ScreensAgree` are asked for one
expiry: one that a screen remembers past its day is not modelled. A minute's row may have a premium
and no interest (`quiet`). Ties of evidence go to the bullish view.

## 6. What is left out, and why

- Floating-point detail: Black-Scholes and implied volatility (a leg above its
  intrinsic value decays by its time value), the odds of a structure, bandwidth
  percentiles, the EMA variant of the golden cross and the EMA boxes, averages
  and summaries of the replayed studies, explanations and rationales.
- Astro: trigonometry over a table of precomputed days, without shared state.
- PostgreSQL: READ COMMITTED visibility, the unique index, session-level advisory
  locks, row locks and aborted transactions are modelled where a module needs them.
- The pool of connections: each flow of RunLifecycle finds one. A POST with a key
  needs two of a pool of fifteen.
- The idempotency window (`idempotency_window_seconds`) is taken as not yet over.
- SNAPSHOT scope, options results and analyses that never apply: neither carried
  nor linked in another way than what is modelled.
- Of the registry: a roll within a cycle. A cycle works on the list it read.
- Of the gate: the comparison with the docs' table, which only the command line makes.
- Of the half hours: the session's edges in the fold (one session); calendar
  periods are short; LIMITs of the loads are long enough.
- Formatting, logging, pagination, the OAuth exchange, the frontend, backup and
  migrations.

## 7. Files

Each component `X.tla` with actions has its instance in `MCX.tla` (constants and
symmetry only; `MCPrices` is that of PriceViews) and, where there are any, its
proofs in `XProofs.tla`. `tlc -config <cfg> MCX.tla` runs an instance, `tlapm
XProofs.tla` checks the proofs.

## 8. Plan

1. Cycle as the detail of RunLifecycle's `executing`: a refinement in which a cycle is
   one step from `executing` to `leaving` or `aborted`, proved over `Inv` of CycleProofs.
2. The bounded pool of connections in RunLifecycle, with the POST that needs two.
3. `PayoffsHold` for any strikes: a structure's profit is linear between the strikes of
   its legs, so its extremes are at them.
4. The lemmas about least elements and sequences that four proof modules repeat,
   taken from FoldFacts.
