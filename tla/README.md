# Mochi Position Manager in TLA+

TLA+ models of the trading middleware in `src/app`: webhook signals become exchange
orders, exchange fills become ledger rows; a funding-arb book trades pairs of legs beside them.
TLC checks the models on small instances, TLAPS proves the central properties for all of them.

    tlc -workers 2 -config MCFillLedger.cfg MCFillLedger.tla     # one run
    tlapm FillLedgerProofs.tla                                   # one module's proofs

Contents: [the system](#1-the-system), [modules](#2-modules), [runs](#3-runs-and-what-they-show),
[bounds](#4-bounds), [fairness](#5-fairness), [proofs](#6-proofs), [disagreements](#7-where-code-and-documentation-disagree),
[not modelled](#8-abstractions-and-what-is-not-modelled), [next](#9-what-could-come-next).

## 1. The system

One process. FastAPI handlers and background tasks run in a thread pool; the retry worker
(every 5 s), the limit worker (every 4 s) and the funding worker (hourly) each run their
blocking pass in a thread. All of them share one SQLite file (WAL, one writer at a time,
`busy_timeout` 20 s), the adapter registry, and `_LEDGER_LOCK`.

| Component | State it keeps | Operations | Interacts with | What makes it correct |
|---|---|---|---|---|
| Webhook (`routes/webhook.py`, `dedup.py`) | `alerts` rows, UNIQUE key | deliver, fan out, cancel-on-close | executor, portfolio, adapters, by background task | one signal acts once per venue; every accepted signal leaves a trace |
| Portfolio manager (`portfolio.py`, `risk.py`) | `RiskSettings` singleton | `decide` | ledger (reads), adapters (prices) | no pyramiding, close to flat, caps, kill-switch |
| Executor (`executor.py`) | `orders` rows | `execute_order`, outcomes, limit booking | adapters, ledgers | retries are finite, a fill is recorded and booked once |
| Ledgers (`executor.py`, `models.py`) | `positions`, `strategy_positions` | `_apply_fill_to_position` | every thread, under `_LEDGER_LOCK` and SQLite's write lock | the two agree, no lost update, PnL identities |
| Retry worker (`retry_worker.py`) | none of its own (`orders.next_retry_at`) | scan, replay, end of pass | executor, arb executor | every retrying order settles; settled rows stay |
| Limit worker (`limit_worker.py`) | none of its own (`orders.status = working`) | poll pass, boot reconcile | adapters, executor | fills are booked once, finished orders get settled |
| Adapters (`exchanges/`) | venue clients, spec caches | market, limit, cancel, status, funding, balances | venues | truthful outcomes |
| Registry (`exchanges/registry.py`, `config.py`) | adapter per (exchange, account) | `get` | everyone | arb orders never reach the directional account |
| Reconcile (`reconcile.py`) | none | audit, entry backfill, sync | ledgers, adapters | audit is red only for real drift; sync loses no fill |
| Funding arb (`arb_executor.py`, `routes/funding_arb.py`) | `arb_positions`, `arb_legs`, `arb_orders` | open, hedge, finalise, close, leg retry | adapters, retry worker | no naked leg is reported neutral; symbols are exclusive |
| Funding worker (`funding_worker.py`, `equity_backfill.py`) | `funding_events`, snapshots, markers | hourly polls | adapters | events counted once, none missed |
| Strategy store (`strategy_store.py`, `routing.py`, `routes/admin.py`) | `strategies.yaml`, its temporary file, the router | load, edit, save, reload | webhook (reads the router) | an edit is applied in whole or not at all, and served once answered |
| Dashboard, templates, notifier, OpenAPI script | caches | read-only views, messages | | nothing to model |

What is hard here:

- *Threads over one database.* A session keeps ORM objects it has read; a row written by another
  thread is not seen until a commit of its own expires the copy. `autoflush` is off, so a pending
  change is invisible to others until a commit, and to the session's own queries as well.
- *Commits inside helpers.* `_apply_fill_to_position` commits twice in the middle of its caller's
  transaction. Everything staged so far becomes durable at that point.
- *Two locks.* The write lock of SQLite is taken by the first flushed statement, `_LEDGER_LOCK` by a `with`.
- *Venues.* An answer can be lost after the order executed, part of the executions can be missing,
  a status can take two reads.
- *Crashes.* Tables and files survive, background tasks and open transactions do not.
- *Grids.* Sizes pass through two or three roundings, each to the grid of another venue, with prices read at different times.

## 2. Modules

| Module | Models | Checked by | Proved by |
|---|---|---|---|
| `LedgerBook` | what the ledgers promise: record a fill, then book it in both ledgers in one step | as `FillLedger!ImplementsBook` | |
| `FillLedger` | one fill's session from `decide` to the ledger commits, with both locks, stale copies, lock timeouts, another writer and crashes | `MCFillLedger` | `FillLedgerProofs` |
| `OrderLifecycle` | market orders: dedup, fan-out, decision, placement, outcomes, retry passes, kill-switch, crashes | `MCOrderLifecycle`, `MCOrderFanOut` | `OrderLifecycleProofs` |
| `LimitEntry` | resting limit entries: placement, poller, cancel-on-close, replays, the venue | `MCLimitEntry` | `LimitEntryProofs` |
| `PairBook` | what the arb book promises: a pair per key, a fill recorded once, open only with both legs filled | as `ArbPair!ImplementsPairs` | |
| `ArbPair` | funding-arb pairs: open, hedge, verdict, leg retries, close, and what the venue really holds | `MCArbPair`, `MCArbPairEnds` | `ArbPairProofs` |
| `PnlLedger` | the figures of a ledger row: average entry, realized PnL, the audit's replay | extended by `Reconcile` | |
| `Reconcile` | the row beside the venue's position: sync, entry backfill, audit, lost fills, a neighbour strategy | `MCFigures` | `FiguresProofs` |
| `Sizing` | the arithmetic that sizes orders and pairs to venue grids | `MCFigures` | `FiguresProofs` |
| `FundingPoll` | the hourly funding poll of the arb book and the attribution to pairs | `MCFundingPoll` | `FundingPollProofs` |
| `EquityHistory` | the equity curve: hourly snapshots, sweep, history backfill, markers | `MCEquityHistory` | `FiguresProofs` |
| `StrategyStore` | `strategies.yaml`: edits, the temporary file, reloads, crashes | `MCStrategyStore` | `StrategyStoreProofs` |

Two modules compose: `Reconcile` extends `PnlLedger` with a venue, syncs and a neighbour and leaves its
operations as they are, and `FillLedger` and `ArbPair` are each shown to implement their book. `OrderLifecycle` and `LimitEntry`
take the booking of a fill as one step, which is what `ImplementsBook` permits.

**FillLedger.** `pc[f]` is the position of the session of fill *f*: `idle` (before `decide`), `calling`
(the exchange call), `filled`, `locked` (in `with _LEDGER_LOCK`), `recorded` (first commit done),
`bumped` (UPSERT of `Position`), `applied` (`StrategyPosition` read and changed), `booked` (second
commit), then `done`, or `dropped` (rolled back) or `crashed`. A ledger row is the set of fills its
figures account for, so a lost update is a fill missing from a set. `cached[f]` is the session's copy
of its `StrategyPosition` row. SQLAlchemy's identity map holds it weakly, so a copy read in `decide` may or
may not still be there when the ledger is written; that is the nondeterminism of `Decide`. `riskRow`
is the singleton that `get_risk_settings` inserts and flushes on first use, which gives its session
the write lock before the exchange call.

**OrderLifecycle.** Actors are the background tasks of deliveries and the retry worker. A task commits
per venue; the worker has one session per pass, so what it has set is in `staged` until a success's first
commit, or the end of the pass, makes it durable, and an exception throws it away. Booking is the
single step `FillLedger` justifies, still separate from the commit of the row. The venue answers with
any captured quantity, with or without a price, or with a failure behind which the order may have executed. `SessionRaises` is an
exception wherever the code can meet one: at the first use of an adapter, and at every write, which may not get SQLite's write lock
in time. `dropped` is history: the orders whose session a restart or such an exception ended between their commit and the ledger's.

**LimitEntry.** `job[a]` is what the session of an actor is doing: the task of a signal, the poller, or
the retry worker. `job[a].seen` is the `qty_base_filled` the session loaded, `copies` are the rows the
poller's pass loaded at its start, `staged` the statuses it has set. `faults` counts restarts, exceptions that end a session
(`SessionRaises`), and ledger commits that do not get the write lock (`DropBooking`): the callers of `book_limit_fill_delta` catch
those, and the row keeps a quantity the ledger never took. `booked`, `raced`, `blind`, `misread` and `dropped`
are history: what the ledger took, orders two sessions handled at once, orders cancel-on-close
gave up without a terminal answer, orders whose terminal answer had fewer fills than the venue, and orders whose booking was lost
between its two commits. `AtomicStatus` chooses Bybit's single-row status or Hyperliquid's fills
read followed by a state read.

**ArbPair.** An arb is named by the open request that created it; its legs are `<<request, "spot">>` and
`<<request, "perp">>`. `arb`, `leg` and `order` are the committed rows of `arb_positions`, `arb_legs` and `arb_orders`.
`opener[r]` is where `_run_open` stands and the fill of leg 1 it remembers; `job[a]` is the `execute_leg` call an actor is
in. `execute_leg` flushes before it calls, so its session holds `writer`, SQLite's write lock, across the call. The retry
worker keeps what a pass did in `staged` until `EndPass`. `closer[c]` is a close request and its `_run_close`, which has a
session per leg and calls before it writes. `spot` and `short` are what the venue holds of an asset, whatever the rows say.
`disturbed` is history: the assets whose rows may be off the venue because an answer
was lost, a session was cut between a call and its commit, a close filled in part, or nothing, behind a success or could not read
the balance, a close was accepted while an open, a replay or another close of the arb was unresolved, or two arbs held the asset. `Pairs` is
`PairBook` with the committed status of an arb and the set of legs whose committed order is a success.

**PnlLedger** and **Reconcile.** `_fill_math` with exact fractions where the code has floats, quantities in units of
`_POSITION_EPS`. `cash` and `leg` are references that know nothing of averages: the cash the fills
moved and the prices at which the present position was entered. In `Reconcile` a fill changes `venue` first and is `unbooked`
until its session commits; `sync` is `sync_strategy_positions` between its read of the position, its load of the row and the
flush, whose UPDATE has the columns in `sets` only, because the ORM writes what it saw change. `trusted` is history: nothing
but booked fills has come between ledger and venue. `rebased` and `estimated` say that a sync set the row, or that its average
is not the ledger's own.

**Sizing.** `OpenQty`, `PaperQty`, `FireQty` and `PairQty` are `decide`, its paper mode, `fire_limit` and `size_pair`; quantities
are integers in the finest unit of any grid, so the code's Decimal division has an exact counterpart. `sized` holds the latest
sizing with its inputs; every action is one request that has something sized.

**FundingPoll.** `paidTo[h]` is who held the perp when hour *h* began, `events[h]` how often that settlement is in the table. A settlement
is paid at the instant its hour begins and everything else happens within an hour, so a poll of hour *p* has the window
`p - Lookback < h <= p`. `loop` is `poll_arb_once`: who is asked is decided when it begins, each event has a session of its own.
The pairs are `ArbPair`'s as far as their perp goes: `looked` are open requests between the look for the symbol and the insert,
`arb[a]` the row with its time stamps (by which `leg_funding` bounds its sum), its `_run_open` task, its perp order or leg, and whether
it `holds` the perp at the venue; `closer[c]` is a `_run_close`. An order can be replayed whatever became of its arb, a close can
overlap the open, and what order and close report need not be what they did. `polls` is history: the polls that stored all they
should; so is `muddled`: the hours at whose settlement two pairs were live.

**EquityHistory.** `live[h]` counts the live rows stamped with hour *h*, `history` is whose records the backfilled rows carry,
`task` is where `_startup_backfill` stands after a boot. Every session of it may fail.

**StrategyStore.** `file` and `tmp` are what is in the two files: contents, nothing, a file opened and not yet written, or two
writers' bytes. `editor[e].handle` is where the file a request has open is linked: a rename carries an open file along. `last` is
the latest edit that was alone: the contents before and after it, and how it went.

## 3. Runs and what they show

Passing runs:

- **MCFillLedger** (9,230 states). `LedgersAgree`: in every committed state the aggregate row of an
  instrument accounts for exactly the fills of its strategies' rows. `LedgerNeverForgets`: no thread's stale copy
  removes a fill from a row. `NoCircularWait`: the two locks never wait for each other, although a session may hold the
  write lock across its exchange call (only the one that creates the risk row can, and while it is uncommitted nobody else is
  past `decide`). `ImplementsBook`: the sessions implement `LedgerBook`. `FillSettles`: no thread waits for ever.
- **MCOrderLifecycle** (382,724 states). `OneDispatchPerSignal` (redelivery), `BookedOnce`, `AuditClean` (the ledger is what the
  priced success rows add up to, but for the orders in `dropped`), `OneOpenUnlessOverlapped` (the exact condition under which managed sizing does not
  pyramid), `TerminalIsFinal`, `AcceptedLeavesOrders`.
- **MCOrderFanOut** (621,330 states). `FilledOnce` and `SubmissionsBounded`, each with the exact allowance a restart or a
  rolled-back session costs, and `RetryingSettles`: a pass replays two orders, and an exception in the second rolls back what
  the first left staged.
- **MCLimitEntry** (481,440 states), with Hyperliquid's status in two reads. `NoOverbooking` outside the overlaps that `raced` names,
  `SettledIsBooked` outside those and the three ways in which the code loses a fill (`blind`, `misread`, `dropped`), so that these
  four are all there are; `WorkingSettles`: what the venue finished gets settled.
- **MCFigures** (1,227,440 states). `LedgerIsVenue`: the rows of an instrument add up to the venue's position while every fill is
  booked and nobody trades by hand, and a sync that nothing disturbs makes it so again whatever had gone wrong. `AuditIsClean`:
  the strategy check of the audit reports no row the program has kept by itself. `CostBasisKept`: realized PnL is cash plus the
  cost of the open position. `AvgIsOfLeg`: the average entry lies between the entry prices of the present leg. `OpenIsPlaceable`,
  `PairIsPlaceable`: what is sized fits the size, the cap, the minimum and both grids, and no later rounding changes it.
- **MCArbPair** (1,269,860 states). `OneArbPerKey`: a repeated open that races the first past the look for its key
  creates no second pair. `HedgeFollowsFill`: the hedge is ordered only after leg 1's fill is committed, for the nearest
  point of its grid. `ImplementsPairs`: tasks, sessions, retries, aborts and restarts implement `PairBook`; an arb is open only if
  both orders succeeded, and a recorded fill is never lost or recorded again. `BookMatchesVenue`: outside `disturbed` and between
  calls, the venue holds what the rows add up to. `ClosedIsFlatUnlessDisturbed`: and nothing once the arb is closed, also after a
  half-failed open or close and a second close.
- **MCArbPairEnds** (115,987 states). `ArbSettles`: under fairness an arb comes to rest as open, closed or error unless a restart
  or exception cut its task, and rightly so: nothing in the program picks such an arb up, and one left `closing` cannot even be
  closed again (409). `LegRetriesSettle`: leg orders stop retrying.
- **MCFundingPoll** (6.5 million states). `MissedOnlyWithoutPoll`: a settlement that is missing was in the window of no poll that
  succeeded, so failed polls, outages, crashes between two inserts and late reports lose nothing while a pair is there to be polled
  for within the lookback. `FundingIsOwn`: each settlement credited to a pair that was opened was paid to that pair alone, and is
  stored once; not so at hours at whose settlement two pairs were live (`muddled`), which takes a second open past the look,
  an order filled late, a close that reported flat what was not, or one still running.
- **MCEquityHistory** (13,695 states). `OnePointPerHour`, `PointsKept`, `MarkerIsEarned`: late polls and restarts never give an hour
  two points, neither sweep nor backfill takes a live point, and the backfill is only marked done when its rows are there.
- **MCStrategyStore** (197,385 states). `EditIsAtomic`: an edit that is alone is applied in whole or not at all, wherever it is cut,
  whatever earlier races left on disk. `AnsweredIsServed`: once it is answered, file and router have it.

Violation runs each show one documented sentence that the code does not keep; see section 7.

The type invariants carry what a type can: `FillLedger!TypeOK` that rows hold only fills of their own
strategy and instrument, `OrderLifecycle!TypeOK` and `ArbPair!TypeOK` that attempts stay within the limit.

## 4. Bounds

- `MCFillLedger`: two fills of one strategy (they share both rows) and one of another (it shares the aggregate
  row). A lost update needs two writers of a row and the ledgers' agreement a third fill beside them; the proofs
  cover every size.
- `MCOrderLifecycle`: a buy, then a second buy and a sell that carry the same key, so that either the repeat or
  the close counts and the other is the duplicate; 2 attempts, one restart and one
  exception; quantity 2 so that a partial capture exists. `MCOrderFanOut`: two venues so that a pass has two
  orders; 3 attempts so that there is an attempt before and after the lost one; quantity 2.
- `MCLimitEntry`: the entry and its opposite, quantity 2 so that a partial fill can be followed by another;
  the opposite signal may find the entry resting, partly filled, gone, or not yet placed, and may itself become an entry;
  one fault of any kind.
- `MCFigures`: three orders of one or two lots at two prices, created filled or filled later, and three events beside them in
  every order: open, increase, reduce and reverse fit, an order can fill after a later one, and a sync can be read, disturbed and
  written. Amounts, prices and steps are chosen around each other's multiples (0, just below, at and above a step or a minimum,
  nested and non-nested grids); every combination is sized. The proofs cover every number.
- `MCArbPair`: a request and its repeat, one asset, 2 close requests one after the other, 2 attempts, one fault (restart, exception
  or lost answer) at any point. In units of the grid: 12 is ordered, fills are 4 or 12, the fee is 1, the spot grid 2 and the
  perp grid 4, so that a net fill of 3 cannot be hedged, 11 rounds up where flooring would lose a step, and a partial
  fill leaves a grid-aligned rest. Two arbs that hold one asset do not occur in it: whatever shares an asset is
  `disturbed`, so these properties have nothing to say of it; the proofs cover any number of requests.
- `MCArbPairEnds`: one arb, full fills, the same faults.
- `MCFundingPoll`: two pairs of one symbol, one close at a time, one fault (restart, exception, leg that does not close, second open,
  or answer that is wrong), and a lookback of two hours in three, so that a settlement can be fetched by one poll or two, and the
  second pair can be opened before or after its predecessor's last settlement is stored. That the poll a full lookback after a
  settlement no longer has it (`p >= u + Lookback`) lies beyond the last hour: only the theorem, for any hours, covers it.
- `MCEquityHistory`: five hours, two venues with history. `MCStrategyStore`: two requests, two strategies with one switch each: one
  truncates, renames or overwrites what the other has open, and one strategy's edit can lose the other's.
- `MaxAttempts`, `MaxCrashes`, `MaxAborts`, `MaxOrders`, `MaxLots`, `MaxSteps`, `MaxCloses`, `MaxFaults`, `MaxHour`, `Fills`, `Prices`,
  `Amounts`, `UnitPrices` and `Steps` are the only bounds; they appear as guards or as the sets inputs are taken from.
- Symmetry is used for the two pairs of `FundingPoll` and the two requests of `StrategyStore`, which check no liveness.
- `CHECK_DEADLOCK FALSE` in the `LimitEntry`, `ArbPair`, `FundingPoll` and `MCFigures` runs: these systems come to rest when the signals are
  used up and nothing rests any more, when the requests are used up and nothing is retrying, in the last hour, or when the bounds on
  orders and events are reached.

## 5. Fairness

- A thread of the pool keeps running: weak fairness of a session's or task's steps once it has begun
  (`FillLedger`, `OrderLifecycle`, `LimitEntry`, and `RunOpen` and `RunClose` of `ArbPair`). A lock timeout counts as a step: the code's `busy_timeout` guarantees it.
- `retry_loop` and `limit_loop` catch every exception and sleep a bounded time, so their passes are weakly
  fair; a scan finds an order that is due because `next_retry_at` lies a bounded delay ahead (`ScanRetries`
  is weakly fair for each retrying order, of either kind).
- A venue that is asked again and again answers: strong fairness of the poller's successful `ReadState`. Without
  it nothing can be settled, and the code has no other way to learn the state. In `LimitEntry` each loop is one thread, so its
  fairness is that of its steps taken together.
- A call of an adapter returns, with whatever answer (`Call` of `ArbPair`): the SDKs have timeouts.
- `FundingPoll`, `EquityHistory`, `StrategyStore`, `Reconcile` and `Sizing` assume none: their properties are safety properties.
- No fairness for deliveries, requests, fills, cancels, the administrator, the other writer's beginning, or crashes.

## 6. Proofs

Each proof module extends the module it is about and proves its theorems for all values of the constants, under the
assumptions that module names. In each, the property is not inductive by itself and follows from a strengthened `IInv`; the
lemma that a step keeps it has a case per action and, under it, one step per conjunct the action can disturb.

| Module | Theorems (beside `Invariant`) | Assumes |
|---|---|---|
| `FillLedgerProofs` | `TypeCorrect`, `LedgersAlwaysAgree`, `RecordedBeforeBooked`, `NeverCircularWait`, `NoLostUpdate` (action property), `RefinesBook` (refinement of `LedgerBook`) | `FillConstants` |
| `ArbPairProofs` | `OnePairPerKey`, `HedgeIsDerived`, `RefinesPairs` (refinement of `PairBook`), `Types`, `MatchesVenue`, `FlatUnlessDisturbed` | `GridAssumption`, `QtyAssumption`, `WorkerAssumption`; the last three also `FeeAssumption`, `AttemptAssumption`, `RequestsFinite` |
| `SumTheorems` | lemmas on sums over finite sets, which `ArbPairProofs`, `OrderLifecycleProofs` and `FiguresProofs` cite | none |
| `OrderLifecycleProofs` | `TypeCorrect`, `OneDispatch`, `BookedAtMostOnce`, `FilledAtMostOnce`, `BoundedSubmissions`, `FinalRowsStay` (action property), `AuditFindsNoDrift`, `OneOpenAtMost` | `SizeAssumption`, `AttemptAssumption`, `WorkerAssumption`, `RouteAssumption` |
| `LimitEntryProofs` | `NeverOverbooked`, `SettledInFull` | `QtyAssumption`, `ActorAssumption` |
| `FundingPollProofs` | `MissedMeansNoPoll`, `FundingStaysOwn` | `PollAssumption` |
| `FiguresProofs`, of `Reconcile` | `LedgerStaysVenue`, `CostBasisStays`, `AverageIsOfLeg`, `AuditStaysClean` | `LotAboveEps`; the last three also `PricesPositive` |
| `FiguresProofs`, of `Sizing` | `EveryOpenIsPlaceable`, `EveryPairIsPlaceable` | `SizingAssumption` |
| `FiguresProofs`, of `EquityHistory` | `NoDoublePoint`, `MarkerStandsForRows`, `LivePointsKept` (action property) | `HistoryAssumption` |
| `StrategyStoreProofs` | `EditsAreAtomic`, `AnswersAreServed` | none |

**FillLedgerProofs.** `IInv` is `TypeOK`, `SessionInv` and `BookInv`:

- `LockInv`: a session inside the critical section holds `_LEDGER_LOCK`, and conversely.
- `WriterInv`: a session between its UPSERT and its second commit holds the write lock; any other holder is
  the session that is creating the risk row, or `Other`.
- `FreshInv`: between the read and the second commit the copy equals the committed row plus the session's own
  fill. This is what no-lost-update rests on; it holds because the first commit expired every copy and no other fill can commit
  while the lock is held.
- `ProgressInv`: a session past its first commit is recorded, and a fill is booked in both ledgers exactly when its session
  is past the second.
- `SeedInv`: while the risk row is uncommitted, nobody but the session that creates it is past `decide`. `NoCircularWait`
  needs it.
- `BookInv`: agreement of the two ledgers, and booked implies recorded.

The refinement maps every action to a `Record`, a `Book` or a stutter under `IInv`.

**ArbPairProofs.** What keeps the book right is that every actor still knows the truth when it writes:

- `OpenerInv`: the open's task goes through its legs in order, its call is for the leg it is at, the fill it remembers is the one
  committed, and once it is about to write "open" both orders are successes, however the rows have changed meanwhile.
- `WorkerInv`: what the worker scanned, is calling for, or has staged is still `retrying` in the committed rows, and its targets
  are the rows'. It holds because only the worker touches an order that is retrying; a close touches legs, not orders.
- `CloserInv`: a close only ever writes to an arb that exists, and never makes a leg a success.
- `RowInv`, `HedgeInv`: tasks and orders belong to arbs that exist, a leg that is a success has an order that is, and the hedge's target is
  that of the recorded fill of leg 1. `HedgeQtyNear` bounds the rounding of the hedge by half a step.

The refinement maps the commit of a leg, or of a whole pass, to `Fill`, a verdict or a close to `Set`, and everything else to a
stutter.

`Facts` and `Book`, inductive together (`BookKept`), say what book and venue have to do with each other. They speak of assets nothing
disturbed: no restart, no half-hedged pair, no lost answer, no balance that could not be read, no close that filled less than it was
sent for, no second open past the look.

- `CountInv`, `PassInv`, `FillInv`: numbers in their ranges, what a pass that is over leaves behind (nothing), and that an order that did
  not succeed has filled nothing. They hold of every asset.
- `TaskInv`: while an open's task runs the arb is opening, while a close runs it is closing and no order of it waits for a replay, at most
  one close runs, what is closed stays so, and the asset has one arb that is not closed. So the sums of `BookMatchesVenue` have one
  summand each, and everything else is said of one leg.
- `ProgressInv`: how far a close has come, and what its next commit writes. A leg whose close went wrong sets `errors`, so "closed" is only
  written when both legs are.
- `Holds`: for each leg, the venue has what its order filled, whether the row says so, an acknowledged call does, or a row the worker's
  session has staged; between a close's call and its commit it has what the close left. Fees count downwards, dust upwards.

The assumptions are those the code makes: a fee is part of its fill, `RETRY_MAX_ATTEMPTS` is positive, requests are finitely many.

**SumTheorems.** `MapThenSumSet` is defined by a recursive function on subsets. The library's induction theorems take an operator and
cannot be used; here a smallest counterexample under the library's well-founded order of finite subsets takes their place. It shows that the
recursion has one solution, that equal summands give equal sums, that a sum over a set with one nonzero summand is that summand, and what
adding an element does.

**FundingPollProofs.** `PollInv` is what makes a missed settlement the fault of no poll: one that is running has everything paid before it
and within its lookback (`Covers`) in hand or in the table. `PairInv`: which stamps and tasks a pair can have at which status. `OwnInv`:
outside `muddled`, a settlement that was paid and not to the pair alone came before its opening, or after a close that was over
(`Apart`), and `InWindow` leaves out both. It is inductive because whoever else is paid at an hour that is not muddled makes the pair
itself not live: closed, flat and with no close running that could still move its `closed_at`.

**OrderLifecycleProofs.** Who may write which row, and what every call is counted by:

- `GateInv`: of the deliveries of one key at most one was accepted, and only an accepted one has a task or rows.
- `TaskInv`: a fan-out has written no row of the venues it has yet to do; it needs `RouteAssumption`, that a route names a venue once.
- `WorkerInv`: an order of a pass is `retrying` and is exactly one of: still in the batch, in the worker's hands, staged. A staged row
  counts one attempt more than the committed one. No task has an order in hand that the worker has.
- `CountInv`: a call is accounted for by the attempts of the staged row, or of the committed one and the job that holds its
  answer. What a restart or a rollback loses is at most one of each, as each loses at most the row staged and the answer in hand.
  It is the reason why `FilledOnce` and `SubmissionsBounded` hold with `crashes + aborts` and not with a larger term.

And what the position has to do with the rows:

- `PositionInv`: the net per venue is the sum of the booked rows (`SumOf`). A row that was booked is final, so a summand never
  changes, and each booking adds one that is new. The priced successes are these rows, but for one whose booking is under way, and
  for those that a restart or an exception dropped between the two commits (`PricedInv`): all that `AuditClean` has to exclude.
- `OneInv`: where no decision overlapped another order, one order at most is unresolved, be it in an actor's hands, retrying
  or staged, and the position has room for whatever part of it fills (`Room`). `OneOpenAtMost` is stated for a strategy without
  alert-driven signals (`Sar = {}`), as those open whatever the position is.

`Quiet` covers the steps that neither book nor decide; `BookKeeps` and `DispatchKeeps` are the other two.

`Core`, all of `IInv` but the sets, is kept by each action in a lemma of its own, together with `FinalKept`, of which
`TerminalIsFinal` is the temporal form.

**LimitEntryProofs.** The bookings are deltas against a row read long before, so the invariant says what every session still knows:

- `Shape`: the types, the type invariant of this module.
- `Ctl`: a task that has not committed has no row, a replay's row is `retrying`, and whatever a session asks about, has in its
  pass or has staged is a row the venue accepted. Such a row is only settled from then on.
- `BookOf`: for an order that is not raced, at most one session has it in hand, what that session saw of `qty_base_filled` is
  what the row still says, what it will book is at most what the venue filled, and the ledger has at most what the row says.
- An order that is no accepted limit order has nothing booked.

`SettleInv` adds what a terminal answer is worth for an order not in `Off` (raced, misread or dropped): `InStep`, the ledger has what the row
says but between the two commits of a booking; `Knows`, a session that was told "filled" or "cancelled" has in hand, or has booked,
everything the venue filled; and whatever is staged or settled is `Complete`. Two reads can break `Knows`, in `ReadStateSettles`, and
put the order among the misread; a restart, an exception or a lock timeout between the two commits breaks `InStep`, and puts it
among the dropped. So it holds for either kind of status and any number of faults.

`MemoryStep` covers the steps of a session that goes on with the order in hand, `JobOnly` and `CommitStep` those that touch no
accepted row; the two commits of a booking, and the two steps with which the poller takes an order up, have lemmas of their own.

**FiguresProofs**, of `Reconcile`. `SumInv`: an unbooked fill is the only difference between the rows and a trusted venue. `SyncInv`: a sync nothing
disturbed has read the present position, owns the whole of it, and leaves the net out of its UPDATE only if the row has it already;
the last is where a partial UPDATE could have gone wrong.

Of the row's figures. A fraction is written with its smallest denominator, so that equal fractions are equal records
(`FracSame`) and an equation between figures is one between integers over a common denominator. `FillCases` splits
`_fill_math` into its five branches and shows that there is no sixth: the code tells a close from a reversal with a tolerance of
`_POSITION_EPS`, and as quantities are multiples of a larger step (`LotAboveEps`) no fill exceeds what it closes by just that. On
these rest `FillKeepsBasis` (the cost-basis identity) and `FillKeepsLeg` (a weighted average lies between its prices,
`Weighted`, which is why prices have to be positive). `FiguresInv` adds what the syncs need: `MarkInv`, a sync nothing disturbed
leaves the average out of its UPDATE only if it is the mark already; and `AuditInv`, a row no sync has set has
the sums of its orders' sizes and cash. The replay is a recursive function, and what it computes is shown by its
smallest counterexample (`ReplayFacts`): it has the same sums and the same identity as the row. When the row is flat these fix every figure,
whatever order the fills were booked in; when it is not, the averages agree only if that order was the one of creation,
and `ReplayOfFill` shows that booking the latest order is the replay's last step.

Of `Sizing`. Lemmas bound flooring, rounding up and the padded minimum, and show that a multiple of the step is a fixed point of
both adapters' rounding; each request's result is then shown to fit. Nested grids are needed only for the grid of a pair's finer
leg: the larger of two decimal steps is a multiple of the smaller, of arbitrary ones it need not be.

Of `EquityHistory`. Hours from the next wake-up on have no point, and the loop polls only once that hour has come; a point
the loop writes is therefore the first of its hour.

**StrategyStoreProofs.** While one request is alone, `Underway` says how far it is
and what its handle and both files hold then; a race is left only by the requests that took part ending.

Only model-checked: all liveness (`FillSettles`, `RetryingSettles`, `AcceptedLeavesOrders`, `WorkingSettles`,
`ArbSettles`, `LegRetriesSettle`), which needs fairness and `ENABLED`, out of the prover's reach. Every invariant and
action property of a passing run has its theorem. One of them assumes more than the model does: `OneOpenAtMost`, that no signal is
alert-driven, which is so in the run that checks it.

## 7. Where code and documentation disagree

Each is a run that TLC finds violated, with the sentence it checks quoted in `PROJECT.json`.

| Run | What happens |
|---|---|
| `MCLimitNoDoubleCount` | "no double-count": poller and cancel-on-close compute the new fill from rows loaded before the lock. |
| `MCArbClosedIsFlat` | "Legs are flat at close": an unreadable balance reads 0 and counts as flat, a partial sell counts as a close. |

Others were seen while modelling and have no run of their own:

- `src/app/executor.py:106-108` "Order success + ledger still land together": they are two commits. A crash or a lock timeout between
  them leaves a success order in no ledger, and nothing repairs it. The booking of limit fills has the same window.
  `dropped` is who met it: `AuditClean` and `SettledIsBooked` speak of all others.
- `src/app/executor.py:235-237` "re-finds the same resting order instead of orphaning it": a lost ack ends as a dead row, a failed
  cancel as a cancelled one, a crash as none, while the order rests.
- `src/app/routes/funding_arb.py:397-398` "already held by a non-closed arb (symbol exclusivity)": the look and the insert are two steps,
  and two opens can both look first.
- `src/README.md:280-281` "a same-direction signal is rejected (no pyramiding)" holds only against what is booked. The exact
  condition is `OneOpenUnlessOverlapped`.
- `src/README.md:289-290` "never becomes a wrong-way position": a failed cancel settles the row while the entry rests. It is what
  `blind` in `LimitEntry` records.
- `src/app/limit_worker.py:100` "any partial already booked above" fails with Hyperliquid's two reads, the fills first. `misread` in
  `LimitEntry` records it.
- `src/app/reconcile.py:174-175` "Only a fully-priced, non-truncated replay yields actionable drift": so does a resting order that filled
  after a later one. The exact condition is `AuditIsClean`. For the same reason `backfill_pnl_from_klines` can replace a correct
  average with a wrong one: the nets match, the order of the fills does not.
- A sync after a strategy was removed with a position left attributes the whole live position to the strategy that remains; one that a
  fill comes between can leave a net without an average. `LedgerIsVenue` and `CostBasisKept` name both exceptions.
- `src/app/strategy_store.py:56` "Atomically rewrite": not when two edits overlap. Both write one temporary file; the first rename can
  publish a truncated or mixed file, the second finds nothing to rename. One of two edits is lost in any case.
- `src/app/arb_funding.py:32-34` "`opened_at` is None only before the open finalizes (no funding yet)": an open that ends as error keeps
  it None and may hold the perp, and its sum then has no lower bound. `FundingIsOwn` speaks of opened pairs only. Two pairs of a symbol
  can also be live at once, and both are then credited with what one was paid (`muddled`).
- `src/app/exchanges/hyperliquid.py:430-433` and `src/app/arb_executor.py:659`: "whole-coin close flattens the full position" is what the
  caller takes a success for; the adapter answers it whenever the response is ok, also when the order in it was refused or filled in
  part. Leg and arb are then closed with the short intact; `ArbPair` sets the asset apart as `disturbed`.
- `src/app/funding_worker.py:220-224` "a partial/failed pull retries next boot": the adapters log a failed request and return what they
  have, so a pull with one venue missing counts as clean.
- `_finalize_open_status` says "both legs filled + balanced within one leg-2 step" (`src/app/arb_executor.py:483-484`) and looks at the
  statuses only: a hedge that fills in part leaves an open, skewed arb.

## 8. Abstractions, and what is not modelled

- Quantities are small integers, prices appear only in `PnlLedger`, `Reconcile` and `Sizing`. Differences below `_POSITION_EPS` are
  ignored, and so are the thresholds under which the audit stays silent (0.5 of PnL, 1e-4 of quantity): prices and quantities scale.
- In `OrderLifecycle` and `LimitEntry`, `decide`'s sizing is "the size, or refused"; when it is refused, and that what it returns can be
  placed, is `Sizing`. The fallback to market of a limit entry without a price is the market path of `OrderLifecycle`. `Sizing` covers grids
  and amounts, not the float noise of the minimum check (`_QTY_EPS`).
- `LimitEntry` replays one order per retry pass and fills closes in full: batches and partial captures are
  `OrderLifecycle`'s subject. A lock timeout is an exception at a write in both, and a rollback in `FillLedger`, which alone says
  who holds which lock.
- The venue refuses a client order id it already knows. This is an assumption about the exchanges.
- `ArbPair` has the default combo, long spot and short perp of one asset; `size_pair` is "the quantity, or refused" there, the kill-switch
  and the routes' other refusals are requests that leave no trace. PnL and alerts are left out: they only read. The session of a pass
  reads each leg when its turn comes, as the code does, and a leg's order never changes side or quantity but for the hedge.
- `Reconcile` has one strategy row, its neighbour on the same instrument and one sync at a time, over one instrument of the loop.
- `FundingPoll` is the poll of the arb book; `poll_once` for configured strategies is the same insert-or-ignore without the question who
  is still there to be polled for. A settlement may be unreported when the hour it is paid in is polled, and is reported by the next
  hour. A time stamp and the commit that writes it fall into one hour. A restart sleeps first, so at most one poll starts in an hour.
  The spot leg of a pair is there only as what can make a close fail.
- `EquityHistory` has the directional table; the arb one is written by the same loop in the same way, without a sweep or a backfill. A sleep does not end before the
  hour it was computed for.
- `LedgerNeverForgets` speaks of fill sessions; that a sync writes the same rows without their lock is `Reconcile`.
  The properties of `StrategyStore` speak of edits no other overlaps: overlapping edits lose each other (section 7).
- `StrategyStore` gives a strategy a set of switches; the content of an entry is looked at only for being one `_build_strategy`
  refuses. A dump is one write to the file it has open.
- Logging, notifications and the staleness ping change nothing any property looks at.
- Not modelled: the dashboard, its templates and the report routes of the arb book, which read and aggregate; the notifier; the
  parsing of venue payloads into results, fees and market data; the OpenAPI script; the column migration at boot, which runs before
  anything else. None of them keeps state that another part reads back.

## 9. What could come next

1. `LimitEntry`: an abstract resting order as refinement target.
2. `ArbPair`: the perp-perp and cross-exchange combos as instances.
