# Verification of the futures bot

TLA+ models of the parts of this repository in which order matters: paper
trading with its worker and operators, the market data it polls and the setups it
finds in them, the money of a paper run of one symbol or of several, the risk
engine that sizes entries, the research engine paper trading has to agree with,
the parameter search built on it, the live order saga, the runtime configuration
with those who save it and use it, and the backup and restore of the database. TLC checks them on small
instances; TLAPS proves the main results for every value of the constants.

Paths such as `paper.py:517` are under `src/futures_bot/` of the repository
(`execution/` where no directory is given).

## 1. Inventory

| Component | State | Operations | What is hard |
|---|---|---|---|
| Paper runs (`execution/paper.py`) | `paper_runs` rows (status, version, JSON state with cash, peak, pending setup, position), `paper_events`, `positions`, `trades`, `fills` | `create_paper_run`, `control_paper_run`, `fault_paper_run`, `process_paper_bar` | every operation is a read and a later versioned write; a bar touches five tables; funding, liquidation and exits of one bar have no known order |
| Paper worker (`execution/worker.py`) | locals of a poll: the run, its checkpoint, the clock, the candles | `poll_once`, `_poll_portfolio`, the loop and error handler of `serve` | network between read and write, restarts, a second worker, an error handler that looks at the database anew |
| Bar reading (`strategy/lifecycle.py`) | none | `evaluate_entry`, `evaluate_exit` | gaps, stop and target in one bar, the bar of the entry |
| Research engine (`backtesting/engine.py`) | locals of the bar loop | `run_backtest` | a second implementation of a bar, which paper trading claims to agree with |
| Portfolio runs (`execution/portfolio.py`) | several positions on one cash balance | `process_portfolio_bar` | liquidation of all positions, partial faults |
| Live saga (`execution/live.py`) | `orders` rows, the exchange behind a gateway | `prepare_entry`, `submit_prepared_entry`, `_status` | lost answers, crashes between exchange and database, two coordinators |
| Risk engine (`risk/engine.py`) | none | `size_position` | rounding against limits |
| Risk settings and account snapshots (`risk/configuration.py`, `risk/service.py`, `risk/accounts.py`) | one runtime configuration row, snapshot rows | load, save, evaluate | stale versions and stale snapshots |
| Configuration store (`persistence/repositories.py`, `strategy/configuration.py`) | versioned rows | save with an expected version, create snapshots | lost updates, settings read at two moments |
| Web API (`web/api.py`) | sessions, login attempts | routes that call the above | requests interleave |
| Exchange client (`exchange/binance_usdm.py`) | none that outlives a request | `server_time`, `klines`, `_get` with its retries | replies behind the exchange, bans, transient errors |
| Candle histories (`data/candles.py`) | locals of a fetch: cursor, rows, pages | `fetch_historical_klines`, `find_candle_gaps` | page boundaries while bars open and close |
| Strategy (`strategy/pullback.py`) | none | `evaluate_pullback`: trend, pullback, levels, stop, target, costs | which candles a decision may use, rounding against the ratio |
| Leverage schedules (`exchange/leverage.py`) | a cache of 60 s | verify a configuration | an old bracket |
| Validation (`backtesting/validation.py`) | locals of the search | `run_walk_forward_search` | a holdout that leaks, ties |
| Results, research (`backtesting/results.py`, `research.py`) | none | export, store | none |
| Backup and restore (`operations.py`) | database file, sidecars, staging file, directory | `backup_database`, `restore_database` | kill or power failure between any two steps, a service that was not stopped |
| Dashboard (`frontend/src/main.tsx`) | one component: tab, forms, their version, loads under way | load a tab, save a form | loads of several tabs overlap and share state |
| Deployment, migrations | - | - | not modelled |

How they interact. The web API and the worker are separate processes on one
SQLite database. Neither holds a lock between reading a row and writing it:
Python's `sqlite3` opens a transaction at the first write, so a read before it is
not protected, and `_save` (`paper.py:517`) makes up for it with
`UPDATE ... WHERE version = ?`. The worker learns of pauses, stops and new runs
only through the database. It calls the exchange's public API; `live.py` calls a
gateway that the repository does not implement, and no route calls `live.py`.

The hazards of this code, each at its line and with the properties that would
catch it, are listed in `PROJECT.json`.

## 2. Modules

| Module | Models | State |
|---|---|---|
| `PaperRow` | a `paper_runs` row and what the three writers make of it | none (operators) |
| `PaperLifecycle` | abstract: what paper trading promises | rows, events, ledger |
| `PaperWorker` | workers, operators, transactions, crashes, the clock | the same, `work[w]`, `desk[o]`, `clock` |
| `MCPaperWorker` | symmetry; the patient operator of the outage run | |
| `BarRules` | triggers, exits, fills and the arithmetic of a bar | none (operators) |
| `PaperAccount` | the money of one single-symbol run, a bar a step | `account`, `market`, `booked`, events, ledger |
| `ResearchEngine` | the bar loop of `_run_backtest` | `sim` |
| `PaperResearch` | both engines on the same bars, or a paper run alone | both |
| `MCPaperAccount`, `MCPaperResearch` | candles, setups and rates of their runs | |
| `CandleHistory` | history fetches, page by page, while bars close | `clock`, `fetch[f]` |
| `Pullback` | `evaluate_pullback`, from two histories to a setup | none (operators) |
| `MarketSignals` | the market side of the paper worker: polls, recoveries, decisions | the same, `chart`, `poll`, `decisions` |
| `WalkForward` | the parameter search with its holdout | `request`, `search` |
| `Backup` | the tool and the service on the files of the database | `files`, `dir`, `survives`, `wal`, `service`, `run[t]` |
| `MCOffline` | markets, plans and requests; one run for the three above | `part` |
| `RiskSizing` | `size_position`, limit by limit | none (operators) |
| `PortfolioAccount` | the money of a run of several symbols | `batch`, `account`, `loop` |
| `MCPortfolio` | the batches and offers of its run | |
| `LiveLifecycle` | abstract: what the status of a live order promises | status, exposure, entered |
| `LiveOrders` | coordinators, the `orders` table, the exchange | `row`, `exchange`, `work` |
| `ConfigRegister` | abstract: what the runtime configuration promises | `past`, `taken` |
| `ConfigStore` | saves and snapshots of the configuration, request by request | `runtime`, `records`, `active`, `desk[o]`, and the abstract ones |
| `MCConfigStore` | one process for both owners, or one each; symmetry | |
| `SettingsPage` | the dashboard's forms and loads, on a `ConfigRegister` | `past`, `page[o]` |
| `PaperWorkerProofs`, `PaperAccountProofs` (with `PaperResearch`), `PortfolioProofs` (with `RiskSizing`), `LiveOrdersProofs`, `ConfigStoreProofs`, `MarketSignalsProofs`, `OfflineProofs` (`Backup` and `WalkForward`) | theorems | |
| `SumTheorems` | lemmas about sums over finite sets, which `PortfolioProofs` and `OfflineProofs` need | |

### Paper runs: PaperRow, PaperLifecycle, PaperWorker

A row keeps its status, the number of the last bar processed, whether a setup is
pending, the bar its position was entered on (0: none) and whether a fault is
recorded. `PaperLifecycle` says what a run may do if every operation were one
indivisible step. `PaperWorker` says how it is done: `poll_once` reads the run
(`PollRow`), samples the clock and fetches (`PollMarket`), reads the row again
for each candle (`BarRead`) and commits (`BarSave`); what `serve` catches goes to
its handler (`PollFails`, `FaultSave`), and what it does not, a violated unique
constraint or a conflict inside the handler, ends the process (`Ends`) until the
service manager starts it again (`Restart`); an operator sees a version on
the dashboard (`View`) and sends it back (`ControlRun`); creating a run is a
check (`CreateCheck`) and an insert (`CreateInsert`). The version number itself
is left out: a snapshot carries a flag that the next save of its row clears,
which is what the comparison of versions tests, as each save increments it.

The commit of a bar has an order that matters to the loser of a race. The records
of an entry or exit are flushed first (`paper.py:586`, `601`, `627`, `657`), then
`_save` compares the version (`517`), and the event comes last (`498`). So a
worker whose row is out of date does not always see the conflict that `serve` logs
and retries: on an entry the winner also made it meets the unique index of open
positions or of signals, on an exit the unique order of that exit, and its process
ends with an `IntegrityError`. `RecordsRefused` and `SignalRaced` say when;
the second is a choice, because which signal an entry carries is left to
the candles and the `SELECT` for it may run before or after the winner's commit.
Reads hold no transaction open and the first `INSERT` or `UPDATE` takes the
write lock, so the writes of one commit are one step. `OnlyLosersEnd` is what the
code does promise: only a worker that would have been refused anyway can end so.

`Lifecycle` states that `PaperWorker` implements `PaperLifecycle`.

What the market does with a bar is an outcome chosen from `Possible`: entry or
not, setup pending or not, exit or liquidation. `PaperAccount` shows that these
are the outcomes the arithmetic has (its own `Lifecycle` property), so together
the two cover `process_paper_bar`.

Left out: audit events; the payload of a row that the control
part does not read. Positions of all runs share one symbol and side, the worst
case for the unique index on open positions (`models.py:252`).

### Money: BarRules, PaperAccount

Prices are integers (ticks), money is ticks / `Unit`, so that fees, slippage,
maintenance margin and reserve, all fractions of a value in the code, are exact
integers; only the adverse fill rounds, as in the code, to the worse tick.
`Bar(offer)` is `process_paper_bar` from its checks to its save: entry, funding,
stress test, exit, status, pending setup, event and ledger in one step. The
strategy, the risk engine and the clock are its inputs (`offer`): the setup
found, whether the market direction is against it, the quantity accepted, and
whether the bar is late. `booked` totals the `trades` and `fills` rows.

Funding is settled at most once a bar, at its open or strictly inside it, with a
rate from `Rates`.

### Paper against research: ResearchEngine, PaperResearch

`ResearchEngine` is written from `engine.py` alone: opening funding first and in
full, a peak that sees the marked opening, a halt when cash is gone. It shares
`BarRules` with `PaperAccount` because the code shares `evaluate_entry`,
`evaluate_exit` and `adverse_fill_price`; the steps around them are separate in
the code and separate here. `PaperResearch` feeds both the same bars, setups
and quantities, in a run that is resumed and never late; `sim = Alone` is a paper
run without the comparison, with all that `PaperAccount` lets happen to it. A bar on which only one
of the two can afford the entry ends the comparison (`SameEntry`): opening
credits that only research counts can leave it with the larger balance.

`NeverFlatters` compares the equities after a bar. It has one exception. Research
counts an uncertain opening credit that paper trading withholds, so later the
paper run may be the only one that does not survive its stress test, and then it is
liquidated at the worst price of the bar, where research leaves at its target. When
the bar opens so far beyond the target that even its worst price is beyond it, the
liquidation is the better exit and paper shows more: a long with target 50, on a bar
whose low is 53, leaves research at 50 (an exit at a target takes no gap) and the
paper run at 53. It takes a debit that nearly empties the balance; the candles of
the run do not have it, the attempt to prove the property for all of them found it.
The property says so (`Reaches`: the bar reaches back to the target of the setup).

Two differences are not in the properties, as the code states no agreement on
them: the peak of a paper run leaves out the marked opening equity
(`engine.py:266`, also `portfolio.py:97`), and a paper run of one symbol does not
halt on cash at or below zero.

### Portfolios: RiskSizing, PortfolioAccount

`RiskSizing` is `size_position`: the reasons to deny (`Eligible`, `Room`), one cap
per limit, and the least of them, rounded down to the step. Quantities count
steps, so a cap is a quotient of integers; the floor of the least quotient, which
the code takes at the end, is the least of the floors. The ages of the account
and market snapshots, connectivity and protections are one flag (`healthy`).

`PortfolioAccount` is `process_portfolio_bar` (`_process`) on a batch of one bar
per symbol. `StartBar` takes up the batch, `EnterSymbol` is an iteration of the
loop over the symbols in their order, `EndBar` is the rest: funding, stress test,
exits and the save. `loop` holds the locals in between; the row changes only in
`EndBar`, and `PaperWorker` shows what happens when somebody else writes it first,
so control and faults come between batches here. An entry is sized by
`RiskSizing` on the sums over the positions the loop holds by then; what the
strategy finds, its own tests of the fill, and lateness are inputs (`offer`).

Left out: the choice of a lower leverage when an exchange bracket binds
(`engine.py:588`; no bracket is given, the fixed-leverage mode without schedule),
a daily loss limit set as a fraction of the day's equity (`engine.py:555`), and
the `trades` and `fills` rows.

### Market data and setups: CandleHistory, Pullback, MarketSignals

A history fetch (`fetch_historical_klines`) asks for the server time and then for
pages, each from after the last candle of the page before (`cursor`), until a page
is not full, the range is covered or `MaxPages` is reached. `rows[b]` counts how
often bar `b` was appended. The exchange is external: a page is the first `Limit`
bars from the asked start on, or wrongly from before it, of a listing that is at
most `Lag` behind; `horizon` is how far the listing of the last page went, and is
kept because it is all a caller can know of what is missing. A request that
fails is sent again `MaxRetries` times (`RequestFails`, `_get`), then the call fails.

`Pullback` is `evaluate_pullback` on integers: the averages as exact fractions,
the confirmed levels, the stop a tick beyond one and the target a tick before
one, the slipped entry (`AdversePrice`) and both ratios. An exponential average
depends on where its history starts, so a decision is a function of the histories,
not of the bar alone. Of the two profiles it is `classic`, of the two kinds of
protection that by support and resistance.

`MarketSignals` puts them together the way `poll_once` does: `Poll` asks for both
histories from a start that depends on the first bar to process, `Gathered` and
`GatherFails` are `asyncio.gather` and the check for gaps, `Decide` is what the
transaction of a bar looks for, with the candles closed by its open
(`ClosedBy`), and `Recover` the owner's answer to a fault. `decisions[b].next` is
history: it tells hindsight from where the poll that decided had fetched.
`PaperWorker` has the same worker with its transactions and takes the market as
given; here the transactions are single steps.

### Parameter search: WalkForward

`run_walk_forward_search` with a backtest as the parameter `Backtest`: the
validators of plan and budget (`Accepted`), the two backtests of each fold with the
candles that have closed by the end of the window (`Until`), the reasons to
reject, the rank by worst and mean score, ties by checksum (a strategy is the rank
of its checksum), and the holdout of the baseline and of the selected one.
`Requests` are what a search may be asked, and `IsRequest` what the types of the
code's parameters say of one; plans that the validators refuse are among them.

### Database files: Backup

A file is an inode that holds one version; the directory names the database and
the backup. `survives` is every directory a power failure can leave: the ones it
was since the last sync. A staging file not synced may hold anything after a
power failure. `wal` is the write-ahead sidecar and the file it was written for.
`_copy_snapshot` is one step, being one read transaction of the source; then the
tool links or replaces (`Publish`), syncs the directory and reports.

A restore looks at the database when it begins and again when its snapshot is
complete (`LookAgain`): inode, size and times unchanged, no sidecar. So a service
that was not stopped, whatever `--service-stopped` asserted, is noticed. From that
second look to its end the code has only the assertion, and so has the model
(`Replacing`): no service starts, no other restore takes its second look.
Without that assumption a commit in between would be lost.

`asked` (what there was to restore over) and `reported` are history.

### Live orders: LiveLifecycle, LiveOrders

An order is its client identity. `prepare_entry` is a check (`PrepareCheck`) and
an insert (`PrepareInsert`); `submit_prepared_entry` reads (`SubmitRead`), claims
with `UPDATE ... WHERE status = 'prepared'` (`SubmitClaim`), and then calls the
gateway: each call is a request that is sent, arrives or is lost at a time of its
own (`Arrive`), and is answered truthfully or not at all. The exchange is
external. It does what `ReconciledGateway` and the exceptions say: a rejection is
definite, confirmed protections exist, a confirmed exit leaves nothing, and no
answer means nothing. `Crash` is the end of the process and also an exception no
handler names. `LiveLifecycle` says what the rest of the system may conclude from
the status of an order.

Left out: quantities beyond held or not held, the environment (one of the two),
the validity of the authorization (it only decides whether a call starts), audit
events, and two orders on one symbol, whose positions the exchange would net.
Noted while modelling: an intent not submitted within 15 seconds stays
`prepared`, is refused by `submit_prepared_entry` and makes `prepare_entry`
refuse everything else; releasing it is left to a tool outside the repository.

### Configuration: ConfigRegister, ConfigStore, SettingsPage

One row (`application_configuration`, key `runtime`) holds a version and a
document with the sections `risk` and `strategy` and possibly fields neither
knows (`other`). `ConfigRegister` says what it promises: versions that replace one
section each, and snapshots made of sections that were versions. `ConfigStore`
says how. A save is `OpenForm` (the version the dashboard loaded), `Submit`, for
risk sections the wait for the exchange (`Verified`), `SaveRead` (the row is read
and its version compared) and `SaveWrite` (`UPDATE ... WHERE version = ?`, or the
insert of version 1, with the strategy's immutable record in the same
transaction). A paper run or a study is `StartSnapshot` (the risk section is
read), `Verified`, `TakeRisk` (read and compared again), `TakeStrategy` and `Store`.
Every read is of the row of its own moment, for the reason given in section 1.

The routes are coroutines: what lies between two `await`s is not interleaved with
other requests of the same process. `Runs` says so, and `home` says which process
serves whom, one (as `__main__.py` starts it) or several. A torn snapshot, risk of
one version and strategy of the next, needs a second process: then `Lifecycle`
still holds, with the strategy of a later version, but
`SnapshotsAreOfOneVersion` would not. `past` and the versions of studies are
history, which no row keeps.

`SettingsPage` is the page in the browser. `attempt` sets `busy` when any piece of
work begins and clears it when any ends; a load asks for the two sections in two
requests, which are answered at moments of their own; `loadSettings` insists on
equal versions, `loadPaper` and the research tab do not keep them.

Left out: the content and validation of sections, audit events, a dashboard
without a leverage provider (tests only), requests repeated by the browser, and
of the page everything the settings form does not share, the audit tab included.

## 3. Runs

| Run | Expects | What it shows |
|---|---|---|
| `paper_workers` | pass | two workers and an operator, two bars: each bar once (`BarsExactlyOnce`), no process ends but the loser of a race (`OnlyLosersEnd`), refinement (`Lifecycle`), and in the end every closed bar (`CatchesUp`) |
| `paper_operators` | pass | two operators, two runs, one crash: one active run, ledger and rows agree, no pending setup outlives a pause, no unacknowledged fault, no control of an unseen row |
| `paper_late` | violation | a slow fetch lets the worker enter on a bar that closed over 90 seconds ago (`README.md:298`) |
| `paper_outage` | violation | after an outage beyond the recovery bound a stop can never drain the position (`README.md:292`) |
| `paper_account` | pass | every history of one run over three bars of six shapes, alone or beside the research engine: cash is explained twice over, stress before credit, stop before target, refinement; both engines hold the same book (`SameBook`), and paper equity never exceeds research equity but beyond a target (`NeverFlatters`) |
| `paper_opening` | violation | a certain credit at the open of a bar is withheld (`engine.py:487`, `README.md:301`) |
| `portfolio_account` | pass | three symbols on one balance: cash is explained, entries of one bar share the limits (`RiskIsLimited`) and the cash from before it (`EntriesNeverSpendExits`), open profits are no budget (`LossesAreBudgeted`), credits do not pass the stress test, and setups end with their entry |
| `live_orders` | pass | two coordinators, two orders, a crash, late requests: one entry each, exposure known, no reversal, true statuses, verdicts in the end |
| `live_race` | violation | two concurrent `prepare_entry` leave two unresolved orders (`live.py:128`) |
| `config_store` | pass | two owners, on one process or two: a save replaces what its owner was shown and keeps the other section (`Lifecycle`, `OwnersReplaceWhatTheySaw`), strategies and records agree, and on one process runs and studies are of one version |
| `settings_page` | violation | sections loaded for the research tab end up in the settings form under a newer version, and the save replaces what another owner saved (`main.tsx:223`) |
| `offline` | pass | market data: histories are whole however pages, retries and late listings cut them (`HistoryIsWhole`), a bar is decided as hindsight would (`DecisionsAreFinal`), and a setup pays after slippage from behind a level that holds (`SetupsPay`). Files: whole (`FilesAreWhole`), kept once reported (`ReportsAreDurable`), and a restore discards no commit nobody saw (`RestoresDiscardWhatTheySaw`). Search: the selection is the one of a market that ends where the holdout begins (`HoldoutIsUnseen`) |

`offline` checks three parts that share no state; a behaviour exercises one of them
(`part`), so the run is the sum of the three, not their product. The type
invariants of the modules with theorems are proved, not run.

Bounds. *Workers, operators, coordinators*: two of a kind is the least with a
race; a third would have to be affected by two others at once, but every step
touches one row and every conflict is between one writer and one snapshot (the
proofs, which have no bound, confirm it). *Bars*: two for the control (a bar
missed and the one after it), three for money, enough to enter, carry funding
and leave on separate bars, or to leave and enter again. *Recovery*:
`MaxRecovery = 1` stands for the 96 bars of the code, so that both the recovery
and the outage are reached; the outage run was also made with more, which only
makes the counterexample longer, until the bars run out at `MaxBar`. *Candles*:
six shapes (eight in `paper_opening`) chosen for the two setups (entry 44 with stop 20 and target 60 for
the long one, stop 50 and target 20 for the short one): each of trigger, gap,
stop, target, stop and target in one bar, time stop, expiry, invalidation,
liquidation with and without a stop, and a quiet bar is one of them or a
sequence of them. *Portfolio*: three
symbols, of which at most two may be open, so that the third is refused for
their number as well as for risk; five batches, in which the first symbol moves
into profit, to its target, through its stop and to a liquidation during which
the third earns a credit; eight offers, in which one or two symbols enter, on
either side, late or rejected. Leverages divide `Unit`, to keep margins whole.
*Configuration*: three versions, enough for a snapshot or a form to be
overtaken twice, and two values of each section; two owners, so that one can be
overtaken by another. *Page*: two loads under way.
*Histories*: ten bars and trend bars of two, pages of four, so that a range has up to
three pages and a short one at the end; a listing up to four bars behind, which
spans a page and a trend bar; one retry. The fourth page, `MaxPages`, ends no call
here; the proofs cover it. *Charts*: two with setups on two bars each, long and
short, with levels broken later and targets that pay only before slippage, and
one without volume. *Decisions*: three bars, so that a recovery decides several from
one poll; the recovery bound is not reached here, it belongs to `PaperWorker`.
*Search*: every market of eight bars that rise or fall, four plans (one and two
folds, a holdout too near, folds out of order), three strategies in several
orders and a budget that refuses the largest request. *Files*: four inodes (the
first, and three attempts), two commits, two tools, one power failure. *Crashes*: one, in runs that are
about crashes. *Rates*: one debit and one credit large enough to decide a
liquidation.

`CHECK_DEADLOCK FALSE` everywhere: a stopped run, a market without further bars
and settled orders are ends, not deadlocks.

Fairness. `FairSpec` of `PaperWorker`: a worker's next step happens (the loop of
`serve`, or the service manager that starts an ended process again:
`Restart=on-failure` in `deploy/systemd/futures-paper-worker.service.in`, five
seconds later and without a limit that this rate could reach); the exchange eventually serves
a candle that has closed (strong, polls may come too early again and again); a
worker's commit is not beaten to it by another writer for ever (strong: polls are
15 seconds apart and a commit takes milliseconds). Nothing is assumed of
operators or of the passage of time. `PatientSpec` of the outage run assumes in
addition an operator who recovers and stops the run again and again and market
data that never fails, and still finds the run stuck. `FairSpec` of `LiveOrders`:
a coordinator that was called goes on, since every call of the gateway returns
or raises; nobody has to call it, and no request has to arrive.

## 4. Proofs

What is proved holds for all constants that satisfy the named assumptions
(`MaxBarAssumption`, `WorkerAssumption`, `RulesAssumption`, `AccountAssumption`,
`LiveAssumption`, `StoreAssumption`, `BackupAssumption`, `HistoryAssumption`, `PullbackAssumption`,
`SignalsAssumption`, `PortfolioAssumption`, `SearchAssumption`): they give the
constants their types, for money only that fractions lie between 0 and 1 and, for
portfolios, that a leverage divides `Unit`, and for the market that the bars of an
interval do not overlap, in `SignalsAssumption` that the exchange lists each bar of
its grid, and that candles pass the check the code makes of them (`IsCandle`,
`Validated`: the range of a candle holds its open and its close; both engines refuse
others with `_validate_candles`). `PortfolioAssumption` also says that no symbol
comes twice in the order of the loop, which are the keys of a dictionary, and
`SearchAssumption` that the backtest of a fold has a return and a drawdown.

*PaperWorkerProofs*: `Invariance`, and from it `TypeOK`, `OneActiveRun`,
`BarsExactlyOnce`, `LedgerMatchesRuns`, `PendingOnlyWhileLooking`,
`FaultsAreAcknowledged`, `OnlyLosersEnd`, the action properties
`EntriesOnlyWhileRunning` and `OperatorsChangeWhatTheySaw`, and the refinement
`Lifecycle`. None of these is inductive alone. The strengthening says that a
snapshot whose version still matches *is* the row (`SnapshotsAreRows`), and what
each program counter knows of its locals (`LocalsMakeSense`): a commit then acts
on the row as it is, which reduces every step of a worker to a step of
`PaperLifecycle`. `OnlyLosersEnd` needs in addition that events and ledger end at
the checkpoint (`LedgerEndsAtCheckpoint`) and that open positions are those of the
rows: then a save on the current row meets no record but its own.

*PaperAccountProofs*: `TypeOK`, `CashIsExplained`, `LedgerExplainsCash`,
`CreditsNeverSave`, `NoCreditInDoubt`, `StopsComeFirst` and the refinement of
`PaperLifecycle`. The strengthening says what a position looks like
(`PositionShape`: its prices and quantity, entered at or before the checkpoint)
and what an account without history is (`Untraded`). The proofs about
liquidation need one fact of arithmetic: funding in doubt never adds to cash.

Its second part is about `PaperResearch`. `ComparedRunIsARun` says that the paper
run of a comparison is one of `PaperAccount`, so what is proved above holds of
it. `SameBooks` and `PaperNeverFlatters` rest on a joint invariant (`Joined`): until
the run is liquidated both engines wait for the same setup and hold the same
trade but for its funding, the run with no more cash and no more equity; and a
research engine that stopped with cash left was liquidated, and the run with it.
Neither property is inductive without the order of the two balances. Over one bar
(`BarJoined`): both enter or neither does (`SameThrough`), the run is paid no
more (`NoMorePaid`), so research is not liquidated alone; when neither or both are,
both leave at the same price (`SameEnd`); when only the run is, it leaves at the
worst price of the bar, which is no better than any exit the bar reaches
(`LiquidatedAlone`, from `WorseLeavesLess` and `WorseThanHeld`).

*LiveOrdersProofs*: `TypeOK`, `EnteredOnce`, `NothingForgotten`, `NeverReversed`
and the refinement of `LiveLifecycle`. The strengthening says what each status
implies of the exchange (`OrdersAgree`), that a claimed order has one
coordinator (`OneEach`) and what that coordinator may rely on at each call
(`CoordinatorsKnow`); requests on their way are part of it, which is why a
rejection written today is not overtaken by an acceptance tomorrow.

*SumTheorems*: what `SumFunction` of the community modules, a sum by a recursive
function that removes an arbitrary element, does: the choice does not matter
(`SumRemove`), sums of integers are integers, and they add, compare and change with
their terms (`TotalAdd`, `TotalMonotone`, `TotalUpdate`, `TotalOnPart`). The
library's induction on finite sets has an operator as a parameter; `FamilyInduction`
has a family of sets in its place, and follows from the subsets of a finite set
being well-founded (`WFMin`).

*PortfolioProofs*: all properties of `PortfolioAccount`, and `SizedWithinLimits` of the
risk engine. A quantity that is not 0 loses at its stop, slippage and both fees
included, no more than the risk budget and what the aggregate and the daily limit
leave, fits the limits on notional, exposure, margin after reserve, the exchange
and its bracket, and is the largest that does: `n <= a \div d` says `n * d <= a`, and
the loss of a unit is positive once the request is eligible.

The inductive invariant is about the loop of `process_portfolio_bar`. Between two
symbols the locals differ from the row only where the loop has been, and there only
by an entry of this bar (`Walked`); the cash is explained over the locals
(`ExplainedCash`); it is the cash before the bar less the fees of the entries,
and after an entry holds all margins (`FitsCash`); the limits hold of the locals
(`WithinRisk`); and after an entry the loss of the day at all stops is within its
limit (`Budgeted`). `EnterSymbolIInv` shows that one entry keeps all that: what
`size_position` was told of the locals adds up to the equity at all stops, because
the marks cancel out (`LossFromMark`), and each sum changes by the entry
(`TotalUpdate`). `EndBarIInv` needs that an exit takes no more than one
position out of each sum. `EntriesNeverSpendExits`, `CreditsNeverSave` and
`LossesAreBudgeted` are about the step from one saved row to the next: only `EndBar`
makes it (`ProcessedIsEndBar`), and the invariant says what the loop left it with.
The last one needs that, without a gap, no exit is worse than the stop
(`NoWorsePrice`).

*ConfigStoreProofs*: `TypeOK`, `StrategiesAreRecorded`, `SnapshotsAreOfOneVersion`,
`OwnersReplaceWhatTheySaw` and the refinement of `ConfigRegister`, for any number
of owners, processes and versions. The strengthening says that the row is the last
version of the history (`RowIsHistory`) and that what a request relies on is what
the version it expects held (`Informed`); a comparison of versions at the write
then says that nothing changed since. For one process a second strengthening
(`Undisturbed`) says that a request between its two reads is alone, so that the
strategy it takes is of the version it verified.

*MarketSignalsProofs*: `HistoriesAreWhole`, `DecisionsHold` and `SetupsHold`. Between two pages the
rows are exactly the closed bars before the cursor (`CallIsWhole`). A page keeps
that because the first `Limit` bars of a listing leave no hole before their last
(`PageHasNoHole`), and a page that is not full has all there were
(`ShortPageIsAll`); both are counting arguments on finite sets of bars with least
elements, and the next cursor skips nothing since bars do not overlap. For
decisions, `PollsAgree` says from where and until when the histories of a poll
were asked for. What `ClosedBy` keeps of a whole history without gaps is then
the grid of its range up to a bar, and equal to the whole chart's once its last
bar is shown to be the one before the decided bar (`EndOfHistory`, `BarsOfGrid`).
`Evaluate` itself is not opened for that: it holds of any strategy that is a
function of its histories. `SetupsHold` opens it: the signal gives a candle, and
`Protected` an entry, a stop and a target whose order follows from rounding by less
than a tick, from fills that are not better than their triggers, and from a ratio
that is positive on a positive distance (`LongSetup`, `ShortSetup`). The levels
are those of candles that really are candles (`WholeIsCandles`), which for a trend
candle needs the greatest of finitely many highs.

*OfflineProofs*: `FilesAreWhole`, `ReportsAreDurable` and `RestoresDiscardWhatTheySaw`, for
any number of tools, files, commits and power failures. The strengthening says that
every directory that may survive names whole files on disk
(`DirectoriesAreWhole`), that a staging file is its tool's own (`StagesAreOwn`) and
complete once copied (`CopiesAreWhole`), which file a sidecar fits
(`SidecarFits`), that inodes only grow in the name of the database
(`RestoresAreNewer`), that one restore replaces at a time (`OneReplaces`), and that
what is synced is in every directory that survives (`PublishedIsNamed`).

And `SelectionIsBlind` of `WalkForward`, for any markets, plans, strategies and
backtests. The invariant (`SearchIInv`) says that the strategies tried are the first
so many, each with its folds on the market asked for, and that the selection is
`Selected` of them all. The validators require each fold to end before the next
one is validated and the last before the holdout begins; that all do then
(`FoldsEndFirst`) needs an induction, here that the greatest of the folds which end
late would have a later one (`LastIsHighest`). So what a fold finds is what it finds
in the market known by then (`FoldsKnown`). That a best rank exists and that the
least checksum of the best is what the property asks for (`SelectedBest`) is shown
of any finite set with two marks (`BestExists`).

Only model-checked: the liveness properties `CatchesUp` and `Resolves` (liveness
under fairness and ENABLED are beyond the prover), and of course the violations.
Every other property of a passing run is a theorem, for all values of the
constants.

## 5. Plan

Done: paper trading (control, money, agreement with research) and the live saga;
`RiskSizing` and `PortfolioAccount`; `ConfigStore` and `SettingsPage`; market data and
setups (`CandleHistory`, `Pullback`, `MarketSignals`); `Backup`; `WalkForward`; the
proofs of section 4.

Left, in the order of what it would add:

1. The accounting close at the end of a research range.
2. The fetches of `_poll_portfolio` (those of `poll_once` for several symbols) and
   bracket-aware leverage.
3. Risk evaluation on account snapshots (`risk/service.py`, `risk/accounts.py`), if a
   caller for live orders is written.
4. Sessions and login throttling (`web/api.py`).

## 6. Not modelled

*Without a protocol of their own*: rendering of the dashboard and its remaining tabs,
deployment, migrations, password hashing, CSV export and application bootstrap.

*A state of their own that no other part reads*: sessions and the login throttle, the
leverage cache (one request, kept for 60 seconds), account snapshots, which only
`prepare_entry` reads and `LiveOrders` leaves open.

*Variants of what is modelled*: the protection of a setup by average true range, the
`hourly_market` profile with its market direction (`PaperAccount` takes the direction
as an input of a bar), the fetches of `_poll_portfolio`. A failing fetch of funding
rates or of contract rules is one more way for a gather to fail.

*Without a caller*: `cache_candles` and `load_cached_candles` (`data/repositories.py`).

*Below the models*: HTTP transport and parsing. What a poll can see of them is in
`PaperWorker` and `CandleHistory`: candles that are late, missing, repeated or
refused. `verify_database` and the path checks of the backup tool change nothing.
Decimals of 40 digits are exact here.
