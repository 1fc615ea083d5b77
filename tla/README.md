# Verification of the trading desk, its Shariah gates and its monitor

TLA+ models, TLC runs and machine-checked proofs for the parts of this repository that decide,
move and watch: what may be traded (the SC publications, the screening of SEC filings), what is
approved (the gates and limits of the desk), what is executed and booked (queue, adapters, ledger,
the Phase 3 book, the Telegram relay with its two taps), what is reported about a holding (the
monitor, its colours and its disposal clock), and what a conversation is told (the bridge and its
caches). Paths below are relative to `src/backend/`.

## 1. Inventory

### Components

| Component | State | Operations | What makes it correct |
|---|---|---|---|
| Approval queue (`approval_queue.py`, `approval_workflow.py`) | SQLite table `approval_queue`: verdicts, `broker_submission`, `execution_status`, a JSON payload | `record_approval`, `update_execution_status`, `record_broker_submission`, `record_broker_reconciliation` | a row's verdict is decided once, by the server; the broker's order id is never lost |
| Paper execution (`paper_execution.py`, `broker_routing.py`, `trading_modes.py`) | none of its own | `execute_paper_order` (gates, probe, sell gate, submit, record), `reconcile_submitted_paper_order` | at most one order per row, only for cleared rows |
| Broker adapters (`alpaca_paper_adapter.py`, `moomoo_paper_adapter.py`) | none; the broker's orders | submit, reconcile, status mapping | a retry is idempotent; a status is not better than the broker's |
| Local ledger (`portfolio_store.py`) | `paper_fills`, `paper_positions`, snapshots | `sync_filled_order`, snapshots | every fill once, in full, and the position follows |
| HTTP API (`local_api.py`) | audit events | `/paper/approval`, `/paper/execute`, `/paper/reconcile`, Phase 3 routes, read-only routes | verdicts are recomputed by the server, never taken from the client |
| Phase 3 book (`p3_portfolio_engine.py`, `p3_decision_engine.py`) | `p3_portfolios`, `p3_portfolio_orders`, `_positions`, `_fills` | create, propose, approve, execute | solvent, one fill per order, statuses only advance |
| Telegram relay (`bridge/relay.py`) | the getUpdates offset, in memory | propose, callbacks (approve, reject, execute), sweep, poll | two taps before anything is sent; sent once |
| Proposal store (`bridge/proposals.py`) | `proposals` | create, expire, mark queued / rejected / held, claim, record | one claim; a claimed proposal is never reopened |
| Desk (`local_api.py`, `risk_checks.py`, `sector_concentration.py`, `account_shariah_gate.py`) | none of its own; reads queue, ledger, snapshots, screens | `/paper/preview`, `/paper/approval` | limits, rulings and the account are read anew for every approval; a lost price or snapshot hides no risk |
| Bridge (`bridge/client.py`, `cache.py`, `ratelimit.py`, `schedules.py`) | a TTL cache, flights, token buckets, what a job has seen | `call` with retries and single flight, the standing jobs | an answer is no older than its caches allow, a job reports what happened, a call ends |
| SC publications (`sc_malaysia_store.py`, `sc_ingest_cli.py`, `sc_admin_cli.py`) | `sc_publications`, `sc_security_status` | ingest, approve, reject, activate, deactivate, check eligibility | at most one in place, vetted before; a rejected or withdrawn one never decides a verdict |
| Holdings monitor (`holdings_monitor.py`, `holdings_compliance.py`, `monitor_api.py`, `filing_review.py`) | `monitor_holdings`, `_lights`, `_alerts`, `_sales`, `_reviews`, `holdings_compliance_flags` | run, sweep, sell, import, edit, escalate, review | colours follow the authority, each is announced, a disposal clock starts once and ends with its cause, a pending sale is resolved |
| SEC screening (`sec_edgar_screen.py`, `sec_edgar_cache.py`) | a file cache | screen one symbol | COMPLIANT exactly if the criteria hold of the last audited balance sheet |
| Verdict and colour (`traffic_light.py`, `shariah_screen_store.py`, `agents/shariah_agent.py`) | `shariah_screens` | evaluate, log, classify | anything that cannot be read is not GREEN |
| Quant agent, scan and watchlist (`agents/quant_agent.py`, `opportunity_scanner.py`, `watchlist_store.py`) | the status of each symbol, events | evaluate, scan, save | a signal follows the trend, invented prices reach no gate, every alert is told once |
| Options (`option_strategy.py`, `option_structure_gate.py`, `option_permissibility.py`) | none | propose, rank, size, check | what is written is backed; nothing is while the determination forbids it |
| Parsing, committee, backtests, presentation, operations | none that orders depend on | sequential | see section 8 |

### How they interact

```
 owner --tap--> Telegram --callback--> relay --HTTP--> local_api --> approval_queue
                                        |                 |             |
                                   proposals.db      gates, verdicts    | payload, status
                                                          |             v
                                                     adapter ------> broker
                                                          |             |
                                       /paper/reconcile <-+-------------+
                                                          v
                                               paper_fills, paper_positions
```

The handlers of `local_api` are synchronous functions, which FastAPI runs in a thread pool;
`execute_paper_order.py` is a second process on the same database file. Every request opens a
connection of its own. Python's `sqlite3` begins a transaction at the first INSERT or UPDATE
and not at a SELECT, so what a request has *read* is not protected from what another request
*writes* before it acts on it. That is the source of most of the behaviour studied here.

In front of the queue, the desk derives each verdict of an approval with a read of its own, and
records the row on another connection when it has them all. Behind the ledger, the monitor
screens what is held: its own table of self-reported holdings in a *run*, and the paper positions
in a *sweep* that `/portfolio/compliance` makes on every call. Both write one table of flags. The
bridge is a process on another machine: its threads call the deployed server through one client,
and one of them runs the standing jobs, among them the sweep.

The publication store is apart from this: administrators write it through two command line
programs, each a process of its own, and every screening request reads it through
`shariah_gate.check_symbol`. Its verdict is an input of the order path.

### Hard behaviour

* overlapping requests that each read, call out, and then write (approval queue, ledger,
  Phase 3 book);
* a broker or HTTP answer that is lost after the request took effect, followed by a retry;
* callbacks that Telegram delivers again after a relay died, or to a second relay;
* a broker status that is overtaken by a newer one before it is recorded;
* a crash between two commits of one operation (ingestion, Phase 3 execution, reconciliation);
* administrators whose commands overlap, each acting on a publication it read earlier;
* limits that are counted on one connection and recorded on another, across midnight and outages;
* runs of the monitor that screen over the network for minutes while the owner sells, imports or
  escalates, and that may stop between any two holdings;
* an authority that cannot be reached, so that a verdict is missing and not negative;
* answers that come from a cache in front of a cache, or from an expired entry of either;
* followers that wait for the leader of a flight, with a bucket that is empty;
* `ensure_*_tables` helpers that call `commit()` in the middle of a caller's transaction.

`PROJECT.json` lists each of these at its line with the properties that watch it.

## 2. Modules

| Module | Models |
|---|---|
| `OrderPromise` | abstract: what the path promises about one approved order |
| `TapPromise` | abstract: what the relay and its store promise about one proposal |
| `PaperOrders` | approval queue, execution, adapters, reconciliation, ledger |
| `P3Book` | the Phase 3 book |
| `TwoTap` | relay, proposal store, and the backend as the relay sees it |
| `ScPublications` | the SC publication store, its commands, and the screening requests that read it |
| `RiskGate` | pure: limits, exposures, sectors, losses of a period, average cost |
| `Desk` | preview and approval, with the gates, the ledger and the market around them |
| `QuantAgent` | pure: indicators, strategies, providers' fallbacks, the scan and what it stores |
| `OptionStrategy` | pure: the option chain, ranking, sizing, the structure gate |
| `TrafficLight` | pure: the colour of a holding |
| `Monitor` | monitor runs, sweeps, the disposal clock, sales, imports, reviews |
| `SecScreen` | pure: which facts of a filing count, ratios, activity, verdict |
| `Bridge` | client, cache, flights, tokens, jobs, the server's document cache |
| `MC...` | constants for TLC, and the assumptions it evaluates of the pure modules |
| `PaperOrdersProofs`, `P3BookProofs`, `TwoTapProofs`, `ScPublicationsProofs`, `MonitorProofs`, `DeskProofs`, `BridgeProofs` | theorems |
| `FiniteSums` | lemmas on sums over finite sets, which four of them use |

`Desk` extends `RiskGate` and `Monitor` extends `TrafficLight`. `MCDesk` instantiates `QuantAgent`
and `OptionStrategy`, `MCMonitor` instantiates `SecScreen`: what the desk's quant agent finds is
computed from histories of prices, and the monitor's verdicts from filings.

Every concurrent actor (a request handler, a worker, a relay, an operator's command, a monitor
run, a thread of the bridge) has a program counter `pc` and a record of what it has read. One
action is one database statement or transaction, one broker or HTTP call, or one message;
computation on what was read is part of the action that reads or writes. In the order path,
`Goto` and `Return` move an actor; `faults` counts the lost answers, failed queries and deaths so
far, up to `FaultBudget`. A crash forgets what was read and keeps the tables. In `Desk` and
`Monitor`, `events` counts what the owner, the market and the authority do, up to `EventBudget`.

### PaperOrders

| State | Code |
|---|---|
| `verdict` | columns `approval_status`, `approved_by_user`, and the verified verdicts written by `record_approval` |
| `broker_submission`, `execution_status` | the columns of the same name |
| `payload` | the broker's part of the JSON payload: the recorded order id and the last reconciliation |
| `order_row`, `order_state`, `order_filled` | the broker's orders (external) |
| `fills`, `position` | `paper_fills`, `paper_positions`, for one symbol of one account |

`RecordApproval` is the whole of `/paper/approval` once its verdicts are known.
`ExecutePasses` and `ExecuteFails` read the row and apply `Gates`, the eight checks of
`execute_paper_order` in their order; the first that fails names the refusal that `Refuse`
later writes. `Probe` is the broker probe and the sell gate. `SendAccepted`, `SendUnparsed`,
`SendLost` and `SendRefused` are the outcomes of the submission: accepted, accepted with an
unreadable id, accepted with the answer lost (reported as BROKER_REJECTED), and refused.
`KeepRead`/`KeepWrite` and `NoteRead`/`NoteWrite` are the two halves of the payload rewrites.
`SyncLoad`, `SyncCheck` and `SyncBook` are the row re-read by `/paper/reconcile`, the checks
before the transaction, and the transaction. `ClientOrderId` is where the adapters differ:
Alpaca gets a key made from the row id, moomoo gets none.

### P3Book

Orders, cash, position and the list of prices at which an order was filled, in one portfolio
and one ticker. `Maximum` is what revalidation allows at a price. `ExecuteFund` reads the cash;
`ExecuteBook` is the first transaction of `execute_order` (cash, fill, position), which
`ensure_p3_tables` commits; `ExecuteClose` is the second, the compare-and-set of
`update_order_status`. Splitting them is not a choice of the model: `update_order_status`
calls `ensure_p3_tables` before its UPDATE, and that function ends in `commit()`.

### TwoTap

`status`, `queue_id`, `attempted` and `due` are the proposal's columns (`due` abstracts the
deadline to "has passed"); `card` is what the message shows and so which buttons can be pressed;
`updates` are the presses Telegram has not seen confirmed; `row`, `ready`, `sends` and
`submitted` are the backend. A callback runs `Poll`, `Expire`, `Load`, then the branch of its
action, then `Show` and `Confirm`. A press stays in `updates` until `Confirm`, so a crash or a
second relay handles it again. `keyed` are the relays that hold the operator key: any of them, as
their environments say when they start (`Relay.can_execute`, `build_relay`); another one claims a
proposal and records `DRY_RUN`.

### ScPublications

| State | Code |
|---|---|
| `sc_publications` | `human_review_status`, whether the recorded counts agree and the source is recorded (`counts_reconcile`), the number of rows they announce (`expected_rows`), and which of the four times are set |
| `sc_security_status` | the stored rows of a publication: what they say of each ticker, or nothing |
| `pc`, `job` | a command: its next statement, the publication it named, and what it parsed |
| `answer` | a screening request: the publication it selected, then its verdict |

A publication is its date, which the table keeps unique; ids are made from dates. `NoPublication`
stands for "no row". `IngestCheck`, `IngestPublication` and `IngestRows` are the check and the two
commits of an ingestion. Approve, reject and deactivate are a read (`...Load`) and an
unconditional update (`...Write`); activate also reads the rows in between (`ActivateCheck`).
`Permitted` is the role table of `auth.py`. `Select` and `Lookup` are the two queries of
`check_eligibility`; `SelectNothing` is every way to end in the legacy file, which only answers
UNKNOWN.

### Desk and RiskGate

| State | Code |
|---|---|
| `ruling`, `account`, `market`, `unquoted` | what the authority, the broker and the price lookup answer now (external) |
| `screened` | symbols with a classified row in `shariah_screens`, from which `sectors_for_symbols` takes the sector |
| `positions`, `realised` | `paper_positions`, and the sum of its `realized_pnl` |
| `snapshot`, `day_baseline`, `week_baseline` | the latest row of `portfolio_value_snapshots`, and the latest before today and before Monday |
| `request` | an approval in flight with what it has read, and then the row it left |
| `history` | what the properties remember: whether an overlap happened, and what was true when |

`Evaluate` and `Preview` are `/paper/preview`. `Post` is the request to `/paper/approval`: nothing ties
it to a preview that was answered, so it may carry one again, or one edited by hand, with any order and
called ready or not. `Fixtures` are the symbols whose paper test fixture is open, which is AAPL under
moomoo's paper mode (its only one) with approval trading and execution enabled, or none: their verdict
is PASS without the authority (`Verdict`), and a preview that asks for the fixture takes the quant agent's
answer from it too (`Evaluate`). `Alpaca` says which kind of adapter is set: another one's account is taken for cash,
and for unknown if the order says it is an option (`AccountType`). `Ask`, `Derive`, `Count` and `Assess`
are the four reads of `/paper/approval` (the account, the ruling, today's rows and the losses, the
positions at their prices), `Record` its one write. Each reads what is true at that moment, and
everything may change between them. `Book` is the path of `PaperOrders` in one step. Money is in
hundredths of the account's equity, so that an amount is its own percentage.

### Monitor and TrafficLight

`authority` is the latest annual report of a security and the verdict it gets; `outage` the
securities whose verdict cannot be fetched. `check` holds the runs and sweeps in flight: `Start`
lists positions, `Screen` fetches one verdict, `Clock` is the one transaction of
`apply_disposal_clock`. Then the run colours its findings in order. The statement that reads the
present colour is preceded by a script, and Python commits before a script: so a transaction holds
the alert and the colour of one holding and the resolved sales of the *next* one (`ColourNext`), and
that is what a crash can tear. `SaleLoad` and `SaleBook` are the read and the write of
`record_sale`; `ImportClear` and `ImportRow` the commits of an import.

### Bridge

`entries` and `flight` are the two dictionaries of `ResponseCache`, `tokens` the bucket, `disk` the
age of the filing in the server's file cache, `mapped` whether the server's process keeps the ticker map
(`_TICKER_MAP_CACHE`, until `RestartServer`), `listed` the fingerprints that the server lists, none at
first, `seen` what the watch has seen, `call` the call that each thread is in. Time passes
in ticks, of which one is a request's timeout; ages are relative, so a behaviour has no horizon.
`Handle` is the server: it may reach SEC for either document or for none, and answer and the answer
be lost (`Lose`, `Expire`) or turned into a retry (`Refuse`). `ReportClock` and `ReportWatch` end the two
jobs. `ReportWatch` sends a message only if something was seen before; a message that is lost returns
like one that arrives, and one that raises leaves `seen` as it was. `excused` is not in the code: it
collects the fingerprints that a message was sent about, and those that were out at a moment when the
watch had seen none.

### Pure modules

`SecScreen`, `QuantAgent` and `OptionStrategy` have no state. Each is compared with a definition
written in another way, or with a statement about every input, by an assumption of the MC module:

* `ScreenFollowsTheCriteria`: COMPLIANT exactly if nothing is missing, the activity is permitted,
  and at the last audited balance sheet debt and cash are under their share of the whole, for every
  filing of at most four facts out of nine (two years, a quarter, an amendment, an unreadable value)
  and both methodologies.
* `SignalsFollowTheTrend`: for every history of at most six closes, BUY needs an uptrend over the
  whole window, no two strategies buy at once, and their order changes no permission.
* `InventedPricesAreBlocked`: whatever a provider fails to send, prices that were invented would
  signal BUY, and exactly the synthetic-data blocker stands against them.
* `ScansAreTrue`: READY has no blocker, and the alert of a near breakout is given exactly within its
  threshold, which the code computes from a rounded percentage.
* `AlertsAreTold`: along every sequence of five statuses, a symbol in ALERT or READY has an event
  that says so as its last, and no event repeats the one before.
* `ChoicesAreBacked`: for every listing of at most three contracts, every account and quote, a
  contract that is chosen passes the gate that checks its backing again, none that could be backed is
  nearer to the target, and none is chosen only if none could be.

## 3. Runs

| Run | Asks | Result |
|---|---|---|
| `paper_orders` | safety and refinement of the order path under interleaving and faults | holds |
| `paper_orders_live` | is a filled, recorded order booked in the end? | holds |
| `paper_oversold` | can the ledger sell more than it held? | yes (finding) |
| `p3_book` | solvency, order statuses, position under interleaving and a death | holds |
| `p3_atomic` | is an order filled once, with its cash accounted for? | no (finding) |
| `two_tap` | two taps, one send, nothing after a stop, with two relays and faults; does it implement `TapPromise`? | holds |
| `two_tap_reports` | are the card and the stored outcome true? | not always (finding) |
| `sc_publications` | one vetted publication in place, final withdrawal, verdicts from it alone, under overlapping commands | holds |
| `sc_rejected` | is a rejection final? | no (finding) |
| `desk` | do the limits and gates hold when approvals of any preview, outages, reclassifications, sales and midnight interleave? and the assumptions on quant agent, scan and options | holds, but for the overlaps and the fixture that the properties name |
| `monitor` | do colours, alerts, clocks and pending sales agree with the authority and each other? and the assumption on the SEC screen | holds |
| `bridge` | how old is the filing under an answer, is a job's report true, does every call end? | holds |

Some properties say how far a guarantee reaches and not that it is absolute. `OrdersWithinCap` and
`ExposureWithinLimit` of `desk` exempt exactly the approvals that another one overtook between a
read and its row, purchases that are assessed while an earlier one is approved and not booked, and
(for exposures) a price that rose or a symbol held or being bought that was classified.
`docs/TRADING_MANDATE.md` calls the limits "enforced server-side at approval time": they are, one
approval at a time. `ApprovedWasPermitted` asks the ruling of every symbol but a fixture's, the account
of Alpaca's adapters only, and says of options that no *contract* is approved: an order that calls itself
an option and names none meets no check of options (section 5). `AnswersStayFresh` is about the filing
read for an answer and not about the ticker map; `JobsCanBeBelieved` says that a message was sent, not
that it arrived.

### Bounds, and why they are enough

* `paper_orders`: a purchase of 2 and a sale of 1, so partial fills and the sell gate happen;
  two handlers, because every hazard in the path needs two overlapping requests, or one request
  and a later retry; two broker orders, one more than a single row should ever get; reviews that
  pass, lack the owner, or fail the audit; settings that toggle; two faults, so a lost answer can
  be followed by a failed query or a crash.
* `paper_oversold`: two sales of 1 against an opening position of 1, no fault.
* `paper_orders_live`: one purchase; two reconciliations that overlap; two faults.
* `p3_*`: two orders, so they compete for cash and shares; prices 1 and 2, so the price moves
  between proposal and execution; cash 3 and one share; one death, which is what a crash between
  the two commits takes. `AtomicInPart` fails only when an order is filled twice and cash
  is lost too, so one trace shows both.
* `two_tap`: one proposal, because two meet only in `expire_due`, which treats each by itself;
  two queue rows, so a lost answer followed by a second tap gets a second row; two relays, which
  hold the operator key in every combination; two faults. Enough for a crash after a lost answer.
  The two findings need one relay and no fault.
* `sc_*`: two publications, because an activation concerns one publication and those it takes out
  of place, which it treats alike; two operators, because every race here is between one read and
  one write; both may activate; one ticker, as rows of different tickers never meet except in their
  number; one ticker listed twice, which makes the announced and the stored rows differ; one
  interrupted command; one request.

* `desk`: two requests, since every race is between the reads of one and the row of another; two
  symbols of one sector, one held; prices 12 and 24 against limits 36 (position) and 48 (sector,
  total), so one purchase fits beside the holding and two do not; one order a day allowed; a week of
  two days, so midnight ends a day and a week; two events, which is a price or outage after a
  reclassification, or a loss before midnight. The orders are a purchase of either symbol, a sale of
  the holding, and two that involve options in the two ways a request can: one of class option that
  names no contract, one of class equity that names one. Each may be previewed, with the test fixture
  asked for or not, or posted as a preview that was never given. The fixture is open for the symbol
  that is not held, and Alpaca's is the adapter (the settings are independent of each other); the
  invariants hold too with `Fixtures = {}`, with both symbols in it, and with `Alpaca = FALSE`.
* `monitor`: two securities, because a run's transactions span two holdings; one run, one sweep, one
  sale in flight, so each pair of them overlaps, but not two runs (with `Runs = {r1, r2}` and no
  sweep, the invariants and action properties hold of two securities, 12.5 million states, and all
  seven properties of one; the first takes too long to be one of the runs);
  verdicts that turn out GREEN, RED and YELLOW; two reports, so a security changes its colour or
  is recently cleared; two events out of edits, sales, imports, escalations, flags, reports,
  outages, midnight and crashes, beside an outage's end and the next run, which are free.
* `bridge`: one thread with questions and the scheduler, so a flight has a leader and a follower; two
  routes, of which one rests on SEC; room for one answer, one token, two attempts; lifetimes and
  timeouts of one tick, so that each boundary is met within and beyond it; two fingerprints that come
  out after an empty list, so that the first is known without a word and the second has a message.

Handlers, workers, relays, operators, queue rows, orders and approvals are interchangeable where no
property names one: those sets are declared symmetric in the safety runs, and in no run that checks
a temporal formula with fairness. Deadlock is not checked: each of these systems may come to rest,
with every row executed, every order closed, or every card without buttons. `sc_publications`
assumes no fairness: an administrator need not do anything, so the store promises safety only. Nor
does `desk`: nobody need approve anything. In `bridge` a deadlock would be one of the program, and
is checked.

### Fairness

`FairSpec` of `PaperOrders` assumes two things. A handler that has started takes its next
step (`WF`): requests run on threads of their own and each call in them has a timeout, so none
waits for another. And an order whose submission is recorded is reconciled again and again
(`SF` on `ReconcileLoad`): nothing in the repository schedules reconciliation, the owner asks
for it, so this is an assumption about the owner and the property says no more than "if the
owner keeps asking". The broker is not assumed to do anything.

`Monitor` assumes that runs and sweeps are asked for again and again and that a request in flight
takes its next step (`WF` on each step of a check, on a sale and on an import): the code's own
schedule is `bridge/schedules.py` and a dashboard that polls, and every fetch has a timeout. It
assumes nothing of the authority, the owner, or of an outage's end; the liveness properties speak of
a colour or a holding that stays. `Bridge` assumes that threads run and time passes (`WF` on the
steps of the program and on `Tick`); the network is not assumed to answer, nor the bucket to have
tokens for us.

## 4. Proofs

The proofs hold for every set of rows, handlers, orders, workers, proposals, relays, publications,
tickers, operators, securities, runs, sweeps, symbols, requests, threads and routes, every quantity,
price, limit, lifetime and timeout, and every fault budget. They rest on the assumptions named in the
modules (`ConstantsAssumption`, `BookAssumption`, `TwoTapAssumption`, `ScAssumption`,
`MonitorAssumption`, `NoneIsNoRecord`, `DeskAssumption`, `BridgeAssumption`), which say what the
constants are and which TLC evaluates in the runs. Where something is counted or summed (rows, orders,
symbols, requests, routes) they say that the set is finite. A few theorems have a hypothesis of their
own. `OpensWithinLimits` (Desk) is evaluated by `MCDesk` of the run's opening book. `Numeric`
(the screen) says that the facts of a filing, and the sums taken of them, are numbers: that a sum of
numbers is one would take induction over a sequence, and every filing of `MCMonitor` satisfies it.
`OneRequestAtATime` (PaperOrders, P3Book) and `OneCommandAtATime` (ScPublications) say that there is
one actor, not that the code makes it so: these theorems are about the findings. Each of the four
names a promise that a run of section 5 refutes, and shows what it takes to break it.

Every invariant named here was first checked by TLC on the instance of its run.

**PaperOrders.** `Typed` (the type invariant, with the types of `job`) is inductive by itself.
`OneOrder` needs only the broker's rule about `client_order_id`, and that is why it is stated
for Alpaca. `OnlyCleared` needs `Clearance`: a handler past the gates holds a row whose stored
verdicts passed, which no later step can change, because a row's verdict is written once. For
`BookedOnlyFilled`, `Provenance` says that every order id and every BROKER_FILLED that is held
or stored for a row comes from an order of that row that is filled, with its full quantity; a
filled order stays filled, so a stale reading stays true. `NeverForgotten` needs `Custody`: until
the one handler whose order was accepted has recorded it, nobody reconciles the row, and from
then on every handler that rewrites the payload has read the recorded id. `KeepsPromise` is the
refinement: each action of `PaperOrders` is an action of `OrderPromise` or a stutter under the
mapping `StageOf`. `PositionFollows` is inductive on top of `Typed`: the one step that books a fill
finds none booked for its row (`InsertAllowed`), so it adds its quantity to one of the two sums, and
the position moves by as much, or by less where a sale is clamped. `CoveredAlone`: with one request
at a time the clamp never acts, so the position is exactly what the bookings leave (`LedgerExact`)
and every sale is covered, wherever a request dies and however late the broker answers.

**P3Book.** `Inv` adds to the type invariant and the two state properties what a request has
established before each of its steps (`JobsOK`): the order it holds exists; from the
revalidation of an execution on it is APPROVED or EXECUTED, statuses it cannot leave for REJECTED;
the cash it is about to write is not negative; and when it is about to mark the order, the
fill is there. Solvency holds in spite of the lost updates because a stale result is never
negative. `PositionFollows` says that the position, unlike the cash, loses no update; it needs
`JobsSized`, that the quantity a request holds is its order's. With one request at a time
`CashAlone` shows the cash exact too, because the cash that a request holds is the one stored
(`CashHeld`), and a death between the two commits does not change that; `OneFillAlone` shows that no
order is filled twice if, besides, no request dies, because an order with a fill is EXECUTED or about
to be marked by the request that filled it (`MidExecution`).

**TwoTap.** `Inv` has five parts beside the types: a relay acts on presses that were made; a
proposal's recorded row was approved for it; whatever was sent is the recorded row of a claimed
proposal; what each relay knows at each step (`Knows`); and that only one relay has claimed a
proposal and not yet recorded its outcome (`OneSender`). `DryOK` adds that a proposal claimed for a
dry run is sent by nobody. The invariants of the run follow, and with them the refinement
(`KeepsPromise`): under the mapping `StageOf` each step is a step of `TapPromise` or none. The sweep,
an expiry, a cancellation and a refusal are a `Stop` of what they find unclaimed and a stutter
otherwise; `mark_queued` is a `Queue`, because a row recorded for one proposal was created for it and so
is no other's; an execute request is a `Send` of a row sent never before (`OneSender`). `ClaimIsFinal`
says the same of the columns: a claimed proposal is never open to a tap again. Because the number of
relays and of faults is arbitrary, the theorems cover restarts and second relays without bound.

**ScPublications.** All six properties of the run are theorems. `OneActive` is inductive by itself:
an activation is one transaction that takes every other publication out of place. The rest needs
`Lifecycle` (what is stored about a publication justifies what follows it: approved before
activated, activated before deactivated, rows that reconcile) and `JobsOK`, what each command has
established and nobody can undo: an approval is never taken back even by a later rejection, so an
activation that read it stays justified, and rows that reconcile can no longer change. That last
part needs `OneFiller`: only the command that inserted a publication inserts its rows, and until
then there are none. So a command that acts on a stale reading does no harm to these properties;
only `RejectedIsFinal` speaks of a status that a stale command overwrites. `RejectedAlone` shows that
staleness is all there is to it: with one command at a time, interrupted wherever it may be, the
review a command has read still stands when it writes (`ReviewStands`).

**Monitor.** `Inv` adds three parts to the types and to `EveryColourAnnounced`: a sale in flight read
at least what it sells (`SalesOK`), which is why two sales at once lose an update but never leave a
negative holding; a check that colours has found what it colours, and the pending sales it listed are
still recorded (`Colouring`); and the previous colour it read was told of (`PreviousTold`). The last is
what makes overlapping runs safe: a run that sees no change and writes no alert compares with a colour
that somebody announced, whatever the row holds by then, and alerts are never deleted. The two
action properties follow from `ClockOfFlag`, what one clock does to one flag, and from `FlagsStep`,
that nothing else writes the flags. The three liveness properties stay with TLC.

**SecScreen and TrafficLight** (in `MonitorProofs`, which uses both). The code compares percentages
that it has rounded to four decimals, so that a rounded value could stand on the right side of a limit
whose amount is on the wrong one. `PassesBelowTheLimit`: it cannot; a filing that passes has its
debt and its cash, before any rounding, strictly under 33% of assets, or 30% of market
capitalisation, and was registered, answered in full and of no excluded activity. `GreenIsWellBelow`
follows a colour through the whole path from the facts: GREEN means a debt line, amounts under nine
tenths of the limit, and no prior report, flag or escalation against it; no missing figure makes a
holding GREEN. Both rest on `RoundedBelow`, that rounding to the nearest keeps the order with a
number that is itself a multiple of the unit, and on `RatiosRead`, what a COMPLIANT screen has
gone through.

**FiniteSums.** What `SumFunctionOnSet` of the community modules is: the sum over the empty set, what
changing one value or adding one element does, that sums are monotone and split over parts. The
operator is a fold, defined by a recursive function on subsets, and induction over it is out of the
provers' reach here; the lemmas are proved instead by the smallest set that would be a
counterexample (`SmallestSubset`, from the finiteness of its cardinality), and `Least` and `Largest`
in the same way.

**Desk.** All five invariants of the run are theorems.

* `RequestsOK` is what one request has established before each of its steps: a ruling or an account it
  read as favourable was so during the approval, or came from the fixture or from an adapter whose
  account is not read (`Witnessed`); the loss it read is at least what the snapshots tell (`LossRead`). With it
  `ApprovedIsPermitted` and `LossesStop` follow for any number of requests.
* `CapHolds` needs `CountsHold`: a count that no row and no midnight has overtaken is still the number
  of the day's approved rows. So the row of an approval that is not marked as overtaken finds fewer
  than the cap, and the rows marked are the exception the property names.
* `ExposureHolds` needs three more. `Cheap`: as long as no price has risen, the book is worth at most
  what it cost, so that the cost which stands in for a missing price never understates. `RoomsHold`:
  the room an assessment found beside a book with nothing outstanding is there until the row of its
  request, because prices only fall, a purchase on its way marks it as raced, and no sector gains a
  symbol that is held or being bought (`Unseen`). `Limits` is the property with a limit of a sector
  stated for every symbol, screened or not: the property itself is not inductive, since a first screen
  of a symbol without a position brings it into `screened`. A booked purchase moves its price from what is waiting to what is held, at its
  limit or better.

The theorem on exposure supposes `OpensWithinLimits`: a book that already opens over a limit stays
there, since the desk refuses purchases and never sells by itself.

**QuantAgent and OptionStrategy** (at the end of `DeskProofs`). `AlertsTold` is one step of an induction
that a reader can complete: from whatever the watchlist store may hold of a symbol (`Told`), and
that includes a symbol never scanned and an alert stored before events were, a scan leaves the same,
with the last event telling the alert and none repeating the one before. What makes it work is that
the events follow the status whenever either is a tracked one, so the moves that are not told are
between untracked statuses only. `ChoiceIsBacked`: `_select` divides and `check_structure` multiplies,
and they agree exactly; the size chosen is the largest that the gate lets through for the same
account, so a refusal for backing means that the account changed in between. It supposes a strike
above zero, which `Eligible` demands of every row; that the row chosen is an eligible one would take
induction over the chain.

**Bridge.** All three invariants of the run are theorems. `AnswersFresh` needs `EntryOK`: of a cached
answer, its age and what it has *left* to live are together under the document cache's lifetime, one
request and the route's lifetime, which is what a Tick preserves; and `AgeOK`, that the answer in a
request is older than the document cache allows by at most the time the request has waited, so by at
most one timeout when it is stored. `JobsBelieved` needs that the scheduler is never inside the cache
with the route that advances the clock (`ClockOK`), and `Watched`: every list under way or in the cache
names fingerprints that have come out, and as long as the watch has seen none, all that have come out
are excused, so that an old list given to it names none that slips through. The type invariant says that the leader a flight
names is fetching its route; for that, every step of a call is shown to keep the flight it leads
(`Moves`), and `Land` to end it before anyone else begins one. That the entry put out when the cache is
full is always there to be put out needs `Least`.

Only model-checked: the liveness properties (`FillsAreBooked`, `PendingSalesResolve`,
`LightsFollowTheAuthority`, `DutiesFollowTheHoldings`, `EveryCallEnds`), because liveness under
fairness is out of the provers' reach; and what the pure modules compute, which the MC modules compare
with its reference definitions over bounded inputs (the four theorems on the screen, the watchlist and
the options apart). Every invariant and action property of a passing run is a theorem.

## 5. Findings

1. **Double fill** (`p3_atomic`). `execute_order` is documented as one transaction, but
   `ensure_p3_tables` commits the cash, fill and position before the order is marked EXECUTED,
   and the status is not checked again inside the first transaction. It takes two requests that
   overlap, or one that dies between the commits (`OneFillAlone`).
2. **Lost cash** (`p3_atomic`). The cash is read outside the transaction that writes it.
   The position is not lost in the same way: it is read inside. It takes two requests that overlap; a
   death alone loses nothing (`CashAlone`).
3. **Oversold** (`paper_oversold`). `sync_filled_order` compares a sale with the position before
   its transaction begins and clamps the result at zero. It takes two reconciliations that overlap
   (`CoveredAlone`).
4. **A cancelled card that is not true** (`two_tap_reports`). The relay says "Nothing was
   submitted." without looking at what `hold_proposal` did.
5. **Refusals recorded as executions** (`two_tap_reports`). Every answer but a timeout becomes
   EXECUTED.
6. **A rejection that is overwritten** (`sc_rejected`). An approval that read the publication as
   pending before a rejection was committed updates the row by its id alone; the publication reads
   approved, and can be activated. It takes two commands that overlap (`RejectedAlone`).

Seen while modelling and not the subject of a run: the moomoo adapter sends no idempotency key;
after a lost approval answer the card says "Nothing was queued." although a row was created; the
sweep edits no card of a proposal that a callback expired first; a partial fill that is then
cancelled is never booked. In the publication store, an activation that read its publication before
it was superseded takes the current one out of place without coming into place itself, so that
every ticker is UNKNOWN, which is safe, and the recorded time of the older activation is
rewritten; and because a date is stored once, "re-ingest a corrected publication" is not possible
for the date of one that was rejected, needs reconciliation, or lost its rows to an interruption.

On the desk: a sale of a holding that was rejected is itself refused, since the ruling gates both
sides, while the disposal clock asks for that sale; a loss limit that is passed stops sales too; the
cost that stands in for a missing price is too low after a rise; a day whose last snapshot is old
hides a loss; and one preview can be posted any number of times. AAPL passes without the authority while
the fixture is open, and a symbol bought without a screen is in no sector until one is made. A preview
edited by hand to be of class option, without a contract, is approved: `/paper/preview` refuses it
(`agent_coordinator.py:95`), but `/paper/approval` asks only an `option_contract` that is there, and skips
the limits on exposure for the class (`local_api.py:451`). No adapter can execute such a row.

In the monitor: an outage turns RED into YELLOW and restarts the clock when it ends, although
`monitor_api.py:102` says a RED clears only with a newer report; a security bought again is sold by the
colour of its former holding; two sales that overlap lose one of the reductions; an import that stops
half way has dropped the other holdings, whose clocks the next run clears; an escalation of a holding
without a dated report matches no later verdict.

In the bridge: a follower that missed just before the leader's put leads a second fetch; a screen that
failed at SEC is answered 200 UNKNOWN and cached, although the cache is "never" to hold a failure; the
marker of an answer from an expired cache entry is dropped by the screen; the watch's memory is lost in
a restart, and a failed daily job waits for the next day. The watch is to "alert when a new SC
publication appears" (`bridge/schedules.py:152`), but after an empty list the first publication counts as
a first look, and a message that Telegram does not take is a message sent: `Relay.send` does not raise
and nobody reads its result. SEC's ticker map is kept as long as the server runs, so that "ticker not
found" can rest on a document of any age, fetched, moreover, as an expired one.

In the pure modules: the price caches have no lifetime, although the coordinator's comment
(`agent_coordinator.py:140`) calls a cached price one "inside its TTL"; the invented prices would signal
BUY and only one blocker stands against them; two overlapping scans read the previous status before
either writes it, and tell an alert twice.

## 6. What is abstracted

In the order path: prices, costs, profit, messages, the wording of cards and audit events; a verdict
is PASS or REJECT. In the order path the broker is external: it may fill, part-fill, cancel, reject
or expire an order at any time. Quantities are whole numbers (the code rounds to 4 decimals). Option
orders follow the same path as equities up to the ledger, where they are booked without a position;
the model has equities only. Of a publication's sources, counts and boards the model keeps whether
they reconcile; `mark_needs_reconciliation` and the query for a past date are called only by tests
and left out; times of review and activation are set or not set.

In `Desk`, amounts are whole hundredths of the account, prices jump between two values, the account's
equity is a constant, a booked order is filled at its limit or better in one step, the spelling of an
order's class and side is normalised, and what blocks a preview is one flag. In `Monitor`, a
sale's money is the colour that decides what is owed of it; there is one broker and one paper
account; the methodology is not changed between runs. In `Bridge`, an answer is the age of the filing
it rests on and the fingerprints it lists; the two documents of a filing (submissions and facts) are one;
the age of the ticker map is not counted, only whether it is kept; the jobs run at any interval; the two zones of the limiter are alike, and one is modelled.
In `SecScreen`, values are small whole numbers; in `QuantAgent`, averages are compared as sums; in
`OptionStrategy`, dates are days from today. Rounded percentages are kept where a limit is compared
with one.

## 7. Plan

| Order | Module | Contents | State |
|---|---|---|---|
| 1 | `PaperOrders`, `OrderPromise` | the order path | checked, proved |
| 2 | `P3Book` | the Phase 3 book | checked, proved |
| 3 | `TwoTap`, `TapPromise` | relay and proposals | checked, proved |
| 4 | `ScPublications` | the publication store | checked, proved |
| 5 | `Monitor`, `TrafficLight`, `SecScreen` | holdings, colours, clocks, the screen of a filing | checked, proved |
| 6 | `Desk`, `RiskGate` | the gates of an approval | checked, proved |
| 7 | `Bridge` | caches, flights, tokens, jobs | checked, proved |
| 8 | `QuantAgent`, `OptionStrategy` | pure algorithms of the desk | checked, proved in part |

Left: a composition of `TwoTap` with `PaperOrders`, in which the relay's sends are the execute
requests of the queue, and of `Desk` with `PaperOrders`, in which `Book` is the whole path.

## 8. What is not modelled, and why

* `sc_pdf_parser.py`: text extraction from the layout of a PDF, sequential, whose result two people
  review before anything uses it (what is parsed is an input of `ScPublications`).
* Backtesting (`p4_*.py`): a sequential simulation over historical data, apart from the running
  system.
* Bridge presentation, explanations, traces, the committee's and the copilot's prose, dashboards:
  wording over verdicts that are modelled.
* Operations: scripts that an operator runs by hand (backup, restore, cutover), configuration, request
  authentication.
* Of components that are modelled in part, `PROJECT.json` says what is left out: option fills and
  statistics of the ledger, the watchlist's settings and the throttle of its scan, the amounts of the
  purification ledger, the throttle of requests to SEC, the framing of the MCP transport, news.
