--------------------------------- MODULE Desk ---------------------------------
(***************************************************************************)
(* From a preview to a row of the approval queue: /paper/preview and       *)
(* /paper/approval of local_api.py, with the gates they ask.               *)
(*                                                                         *)
(* The approval derives every verdict anew, one read after the other, and  *)
(* records the row on another connection when all of them are in: rulings, *)
(* prices, the account, the ledger and the queue change meanwhile, and     *)
(* other approvals are under way.  Nothing ties the preview that is posted *)
(* to one that was answered.  What happens to an approved row is           *)
(* PaperOrders; here it is booked or not.                                  *)
(***************************************************************************)
EXTENDS RiskGate

CONSTANTS
    Symbols, Requests,
    Fixtures,       \* symbols whose paper test fixture is open (AAPL, or none)
    Alpaca,         \* the paper adapter is one of Alpaca's, whose account can be read
    Sector,         \* the sector that a screen finds for a symbol
    Prices, Quantities,
    Orders,         \* the orders that may be asked for
    Quants,         \* what the quant agent may find: a signal and how fresh its prices are
    OpeningBook, OpeningPrices,     \* the local ledger and the market at the start,
    OpeningScreens,                 \* and the symbols that were classified before
    MaxDay, DaysPerWeek,
    EventBudget,    \* bound on rulings, prices, outages, account changes and days
    Unclassified

Order == [symbol : Symbols, side : {"BUY", "SELL"}, quantity : Quantities, price : Prices,
          asset_class : {"equity", "option"}, option_contract : BOOLEAN]

ASSUME DeskAssumption ==
    /\ IsFiniteSet(Symbols) /\ IsFiniteSet(Requests)
    /\ Fixtures \subseteq Symbols /\ Alpaca \in BOOLEAN
    /\ Prices \subseteq Nat \ {0} /\ Quantities \subseteq Nat \ {0}
    /\ OpeningBook \in [Symbols -> [quantity : Nat, cost : Nat]]
    /\ OpeningPrices \in [Symbols -> Prices] /\ OpeningScreens \subseteq Symbols
    /\ Orders \subseteq Order /\ Orders # {}
    /\ Quants \subseteq [signal : {"BUY", "NO_SIGNAL"},
                       data_freshness : {"live", "cached", "fixture", "unknown"}]
    /\ MaxDay \in Nat /\ DaysPerWeek \in Nat \ {0} /\ EventBudget \in Nat
    /\ MaxPosition \in Nat /\ MaxTotalExposure \in Nat /\ MaxSectorExposure \in Int
    /\ {MaxLossPerTrade, MaxDailyLoss, MaxWeeklyLoss} \subseteq Int
    /\ MaxOrdersPerDay \in Nat
    /\ Unknown \notin Int

VARIABLES
    ruling,         \* what the authority holds of a symbol now
    account,        \* the broker account's type, UNKNOWN while it cannot be read
    market,         \* the price a symbol trades at
    unquoted,       \* symbols that the price lookup has no finite price for
    screened,       \* symbols with a classified screen in shariah_screens
    positions, realised,    \* paper_positions, and the sum of its realized_pnl
    snapshot, day_baseline, week_baseline,
                    \* the realised profit in the latest portfolio_value_snapshots row,
                    \* and in the latest one before the day and the week began
    request,        \* the owner's requests and the rows they leave in approval_queue
    day, events,
    history         \* what the properties remember of the past

world == <<ruling, account, market, unquoted>>
ledger == <<positions, realised>>
marks == <<snapshot, day_baseline, week_baseline>>
bounds == <<day, events>>
vars == <<world, screened, ledger, marks, request, bounds, history>>

-----------------------------------------------------------------------------
Rulings == {"PASS", "REJECT", "UNKNOWN"}
Accounts == {"CASH", "MARGIN", "UNKNOWN"}
Money == Int \cup {Unknown}
Loss == Nat \cup {Unknown}
Steps == {"new", "evaluated", "previewed", "asked", "ruled", "counted", "assessed", "recorded",
          "booked"}
RowStatuses == {"NONE", "REJECT", "PENDING_APPROVAL", "APPROVED_PAPER_READY"}

Request == [pc : Steps, order : Orders, blocked : BOOLEAN, ready : BOOLEAN,
            account_type : Accounts, shariah : Rulings, orders_today : Nat,
            daily_loss : Loss, weekly_loss : Loss, risk : BOOLEAN,
            status : RowStatuses, created_at : 0..MaxDay]

(* cleared and cash: the ruling was PASS, the account was CASH at some     *)
(* moment of the approval.  outran and raced: another approval, or         *)
(* midnight, came between a read of this one and its row.  loss: the loss  *)
(* of the day when it was read, as far as the snapshots can tell it.       *)
Past == [cleared : BOOLEAN, cash : BOOLEAN, outran : BOOLEAN, raced : BOOLEAN,
         loss : Nat]

TypeOK ==
    /\ ruling \in [Symbols -> Rulings]
    /\ account \in Accounts
    /\ market \in [Symbols -> Prices]
    /\ unquoted \subseteq Symbols /\ screened \subseteq Symbols
    /\ positions \in [Symbols -> [quantity : Nat, cost : Nat]]
    /\ realised \in Int
    /\ {snapshot, day_baseline, week_baseline} \subseteq Money
    /\ request \in [Requests -> Request]
    /\ day \in 0..MaxDay /\ events \in 0..EventBudget
    /\ history \in [of : [Requests -> Past], calm : BOOLEAN, opened : Int]

NoRequest == [pc |-> "new", order |-> CHOOSE o \in Orders : TRUE, blocked |-> FALSE, ready |-> FALSE,
              account_type |-> "UNKNOWN", shariah |-> "UNKNOWN", orders_today |-> 0,
              daily_loss |-> 0, weekly_loss |-> 0, risk |-> FALSE,
              status |-> "NONE", created_at |-> 0]
NoPast == [cleared |-> FALSE, cash |-> FALSE, outran |-> FALSE, raced |-> FALSE, loss |-> 0]

(* A price outage that hides a gain would understate the exposure. *)
AtCostOrBelow(book, prices) ==
    \A s \in Symbols : book[s].quantity * prices[s] <= book[s].cost

Init ==
    /\ ruling = [s \in Symbols |-> "PASS"]
    /\ account = "CASH"
    /\ market = OpeningPrices
    /\ unquoted = {} /\ screened = OpeningScreens
    /\ positions = OpeningBook /\ realised = 0
    /\ snapshot \in {0, Unknown}
    /\ day_baseline = snapshot /\ week_baseline = snapshot
    /\ request = [r \in Requests |-> NoRequest]
    /\ day = 0 /\ events = 0
    /\ history = [of |-> [r \in Requests |-> NoPast],
                  calm |-> AtCostOrBelow(OpeningBook, market), opened |-> 0]

Event == events < EventBudget /\ events' = events + 1

Approved(r) == request[r].status = "APPROVED_PAPER_READY"
(* Options are sized by no limit, and their fills are no positions here.   *)
Purchase(order) == order.side = "BUY" /\ order.asset_class = "equity"
Outstanding(r) == Approved(r) /\ request[r].pc = "recorded" /\ Purchase(request[r].order)
ApprovalSteps == {"asked", "ruled", "counted", "assessed"}

Quote == [s \in Symbols |-> IF s \in unquoted THEN Unknown ELSE market[s]]
SectorOf == [s \in Symbols |-> IF s \in screened THEN Sector[s] ELSE Unclassified]

(* A screen that reaches the authority leaves the symbol's industry code.  *)
(* A symbol that is held, or being bought, takes its exposure to another   *)
(* sector.                                                                 *)
Screened(s) == IF ruling[s] = "UNKNOWN" THEN screened ELSE screened \cup {s}
AtStake(s) ==
    \/ positions[s].quantity > 0
    \/ \E r \in Requests :
         request[r].order.symbol = s /\ (request[r].pc = "assessed" \/ Outstanding(r))
CalmAfter(s) == history.calm /\ (Screened(s) = screened \/ ~AtStake(s))

-----------------------------------------------------------------------------
(* The determination in force: no option contract is permitted. *)
PermissibleOption(order) == order.asset_class # "option"

(* authoritative_shariah_verdict: the fixture passes without a screen.     *)
Verdict(s) == IF s \in Fixtures THEN "PASS" ELSE ruling[s]

(* A screen was asked for, or the fixture stood in for it.                 *)
Consulted(s, screen) ==
    IF screen THEN screened' = Screened(s) /\ history' = [history EXCEPT !.calm = CalmAfter(s)]
    ELSE UNCHANGED <<screened, history>>

(* What the fixture has the quant agent say: no freshness is given.        *)
FixtureQuant == [signal |-> "BUY", data_freshness |-> "not given"]

(* evaluate_candidate, on the figures that the client sends.  What it has  *)
(* against a sale of shares for being no purchase is withdrawn with the    *)
(* overlay (apply_portfolio_risk_overlay).                                 *)
Blocked(order, shariah, quant, risk_ok) ==
    \/ ~PermissibleOption(order)
    \/ shariah # "PASS"
    \/ Purchase(order) /\ quant.signal # "BUY"
    \/ quant.data_freshness \in {"fixture", "unknown"}
    \/ ~risk_ok

(* The client asks for the fixture in the request; the server has to agree *)
(* (paper_test_overrides).                                                 *)
Evaluate(r, order, test_fixture) ==
    LET overridden == test_fixture /\ order.symbol \in Fixtures
        shariah == IF overridden THEN "PASS" ELSE ruling[order.symbol]
    IN
    /\ request[r].pc = "new"
    /\ \E quant \in (IF overridden THEN {FixtureQuant} ELSE Quants), risk_ok \in BOOLEAN :
         request' = [request EXCEPT ![r].pc = "evaluated", ![r].order = order,
                                    ![r].blocked = Blocked(order, shariah, quant, risk_ok)]
    /\ Consulted(order.symbol, ~overridden)
    /\ UNCHANGED <<world, ledger, marks, bounds>>

Answered(r) ==
    LET order == request[r].order IN
    /\ ~request[r].blocked
    /\ order.asset_class = "option" \/ Overlay(positions, Quote, SectorOf, order) = {}

Preview(r) ==
    /\ request[r].pc = "evaluated"
    /\ request' = [request EXCEPT ![r].pc = "previewed", ![r].blocked = FALSE,
                                  ![r].ready = Answered(r)]
    /\ UNCHANGED <<world, screened, ledger, marks, bounds, history>>

-----------------------------------------------------------------------------
(* /paper/approval. *)

(* The client posts a preview: the one it was given, that one again, or    *)
(* one edited by hand, with any order in it and called ready or not.       *)
Post(r, order, ready) ==
    /\ request[r].pc = "new"
    /\ request' = [request EXCEPT ![r] =
           [NoRequest EXCEPT !.pc = "previewed", !.order = order, !.ready = ready]]
    /\ UNCHANGED <<world, screened, ledger, marks, bounds, history>>

(* broker_account_context: what an adapter other than Alpaca's is taken    *)
(* for depends on the order alone.                                         *)
AccountType(order) ==
    IF Alpaca THEN account ELSE IF order.asset_class = "option" THEN "UNKNOWN" ELSE "CASH"

Ask(r) ==
    /\ request[r].pc = "previewed"
    /\ request' = [request EXCEPT ![r].pc = "asked",
                                  ![r].account_type = AccountType(request[r].order)]
    /\ history' = [history EXCEPT !.of[r].cleared = ruling[request[r].order.symbol] = "PASS",
                                  !.of[r].cash = account = "CASH"]
    /\ UNCHANGED <<world, screened, ledger, marks, bounds>>

Derive(r) ==
    LET s == request[r].order.symbol IN
    /\ request[r].pc = "asked"
    /\ request' = [request EXCEPT ![r].pc = "ruled", ![r].shariah = Verdict(s)]
    /\ Consulted(s, s \notin Fixtures)
    /\ UNCHANGED <<world, ledger, marks, bounds>>

OrdersToday ==
    Cardinality({q \in Requests : Approved(q) /\ request[q].created_at = day})

(* A loss since midnight that the last snapshot before midnight can tell. *)
LossIsTold == day_baseline = history.opened /\ realised # 0 /\ realised < history.opened

Counted(r, daily, weekly) ==
    /\ request[r].pc = "ruled"
    /\ request' = [request EXCEPT ![r].pc = "counted", ![r].orders_today = OrdersToday,
                                  ![r].daily_loss = daily, ![r].weekly_loss = weekly]
    /\ history' = [history EXCEPT !.of[r].outran = FALSE,
                                  !.of[r].loss = IF LossIsTold THEN history.opened - realised ELSE 0]
    /\ UNCHANGED <<world, screened, ledger, marks, bounds>>

CountFromLatest(r) ==
    Counted(r, PeriodLoss(realised, snapshot), PeriodLoss(realised, snapshot))

(* authoritative_risk_verdict, first half: today's approvals and losses. *)
Count(r) ==
    Counted(r, PeriodLoss(realised, day_baseline), PeriodLoss(realised, week_baseline))

(* Second half: the positions, priced one by one. *)
Assess(r) ==
    LET q == request[r] IN
    /\ q.pc = "counted"
    /\ request' = [request EXCEPT ![r].pc = "assessed", ![r].risk =
           RiskPasses(positions, Quote, SectorOf, q.order, q.daily_loss, q.weekly_loss, q.orders_today)]
    /\ history' = [history EXCEPT !.of[r].raced = \E p \in Requests : Outstanding(p)]
    /\ UNCHANGED <<world, screened, ledger, marks, bounds>>

PreviewIsTrusted(q) == ~q.ready \/ ~q.risk \/ q.account_type # "CASH" \/ q.order.option_contract

(* approve_paper_order and approve_candidate: any one gate refuses. *)
Refused(q) ==
    \/ ~q.ready
    \/ ~q.risk
    \/ q.shariah # "PASS"
    \/ q.account_type # "CASH"
    \/ q.order.option_contract    \* check_structure, under the determination in force

RowInLocalTime(r, status) ==
    [NoRequest EXCEPT !.pc = "recorded", !.order = request[r].order,
                      !.status = status, !.created_at = day + 1]

Row(r, status) ==
    [NoRequest EXCEPT !.pc = "recorded", !.order = request[r].order,
                      !.status = status, !.created_at = day]

(* The row that r leaves overtakes the counts and the assessments of others. *)
Overtake(r) ==
    [q \in Requests |-> IF q = r THEN history.of[r] ELSE [history.of[q] EXCEPT
        !.outran = @ \/ request[q].pc \in {"counted", "assessed"},
        !.raced  = @ \/ (request[q].pc = "assessed" /\ Purchase(request[r].order))]]

(* record_approval: the row, approved if the owner has ticked the box. *)
Record(r) ==
    /\ request[r].pc = "assessed"
    /\ IF Refused(request[r])
       THEN /\ request' = [request EXCEPT ![r] = Row(r, "REJECT")]
            /\ history' = [history EXCEPT !.of[r] = NoPast]
       ELSE \/ /\ request' = [request EXCEPT ![r] = Row(r, "PENDING_APPROVAL")]
               /\ history' = [history EXCEPT !.of[r] = NoPast]
            \/ /\ request' = [request EXCEPT ![r] = Row(r, "APPROVED_PAPER_READY")]
               /\ history' = [history EXCEPT !.of = Overtake(r)]
    /\ UNCHANGED <<world, screened, ledger, marks, bounds>>

-----------------------------------------------------------------------------
(* Around the requests. *)

(* The order is executed, filled at its limit or better, and booked.  An   *)
(* option that names no contract cannot be sent, and its fill would not be *)
(* booked here.                                                            *)
Book(r) ==
    LET order == request[r].order
        s == order.symbol
        held == positions[s].quantity
    IN
    /\ request[r].pc = "recorded" /\ Approved(r) /\ order.asset_class = "equity"
    /\ IF order.side = "BUY" THEN market[s] <= order.price
       ELSE market[s] >= order.price /\ order.quantity <= held
    /\ positions' = [positions EXCEPT ![s] = Filled(@, order.side, order.quantity, market[s])]
    /\ realised' = realised + Profit(positions[s], order.side, order.quantity, market[s])
    /\ request' = [request EXCEPT ![r].pc = "booked"]
    /\ UNCHANGED <<world, screened, marks, bounds, history>>

(* record_portfolio_snapshot, when a page shows the portfolio. *)
Snapshot ==
    /\ snapshot # realised
    /\ snapshot' = realised
    /\ UNCHANGED <<world, screened, ledger, day_baseline, week_baseline, request, bounds, history>>

(* What the requests under way have seen of a ruling, an account, midnight. *)
Ruled(s, verdict) ==
    [r \in Requests |-> [history.of[r] EXCEPT
        !.cleared = @ \/ (/\ request[r].pc \in ApprovalSteps /\ request[r].order.symbol = s
                         /\ verdict = "PASS")]]
Accounted(type) ==
    [r \in Requests |-> [history.of[r] EXCEPT
        !.cash = @ \/ (request[r].pc \in ApprovalSteps /\ type = "CASH")]]
Overnight ==
    [r \in Requests |-> [history.of[r] EXCEPT
        !.outran = @ \/ request[r].pc \in {"counted", "assessed"}]]

Rule(s, verdict) ==
    /\ Event /\ verdict # ruling[s]
    /\ ruling' = [ruling EXCEPT ![s] = verdict]
    /\ history' = [history EXCEPT !.of = Ruled(s, verdict)]
    /\ UNCHANGED <<account, market, unquoted, screened, ledger, marks, request, day>>

Reprice(s, price) ==
    /\ Event /\ price # market[s]
    /\ market' = [market EXCEPT ![s] = price]
    /\ history' = [history EXCEPT !.calm = @ /\ price <= market[s]]
    /\ UNCHANGED <<ruling, account, unquoted, screened, ledger, marks, request, day>>

Outage(s) ==
    /\ Event /\ s \notin unquoted
    /\ unquoted' = unquoted \cup {s}
    /\ UNCHANGED <<ruling, account, market, screened, ledger, marks, request, day, history>>

Requote(s) ==
    /\ s \in unquoted
    /\ unquoted' = unquoted \ {s}
    /\ UNCHANGED <<ruling, account, market, screened, ledger, marks, request, bounds, history>>

ChangeAccount(type) ==
    /\ Event /\ type # account
    /\ account' = type
    /\ history' = [history EXCEPT !.of = Accounted(type)]
    /\ UNCHANGED <<ruling, market, unquoted, screened, ledger, marks, request, day>>

(* Midnight: the baselines of the new day, and on Monday of the new week,  *)
(* are the latest snapshot before it.                                      *)
NextDay ==
    /\ Event
    /\ day < MaxDay
    /\ day' = day + 1
    /\ day_baseline' = snapshot
    /\ week_baseline' = IF day' % DaysPerWeek = 0 THEN snapshot ELSE week_baseline
    /\ history' = [history EXCEPT !.opened = realised, !.of = Overnight]
    /\ UNCHANGED <<world, screened, ledger, snapshot, request>>

-----------------------------------------------------------------------------
Serve(r) ==
    \/ \E order \in Orders, flag \in BOOLEAN : Evaluate(r, order, flag) \/ Post(r, order, flag)
    \/ Preview(r) \/ Ask(r) \/ Derive(r) \/ Count(r) \/ Assess(r) \/ Record(r) \/ Book(r)

Environment ==
    \/ \E s \in Symbols :
         \/ \E verdict \in Rulings : Rule(s, verdict)
         \/ \E price \in Prices : Reprice(s, price)
         \/ Outage(s) \/ Requote(s)
    \/ \E type \in Accounts : ChangeAccount(type)
    \/ Snapshot \/ NextDay

Next == (\E r \in Requests : Serve(r)) \/ Environment

Spec == Init /\ [][Next]_vars

-----------------------------------------------------------------------------
(* Properties. *)

(* The order cap of a day is a count that other approvals may overtake:    *)
(* no day has more approved orders than the cap and those that were        *)
(* recorded while another was between its count and its row.               *)
OrdersWithinCap ==
    \A d \in 0..MaxDay :
      Cardinality({r \in Requests : /\ Approved(r) /\ request[r].created_at = d
                                    /\ ~history.of[r].outran}) <= MaxOrdersPerDay

Notional == [r \in Requests |-> request[r].order.quantity * request[r].order.price]
Worth == [s \in Symbols |-> positions[s].quantity * market[s]]
Waiting(symbols) == {r \in Requests : Outstanding(r) /\ request[r].order.symbol \in symbols}
Raced(symbols) ==
    {r \in Requests : /\ Approved(r) /\ history.of[r].raced
                      /\ Purchase(request[r].order) /\ request[r].order.symbol \in symbols}

(* What the positions among symbols are worth, with the approved purchases *)
(* that are not booked yet, and what the limits could not see of it.       *)
Committed(symbols) ==
    SumFunctionOnSet(Worth, symbols) + SumFunctionOnSet(Notional, Waiting(symbols))
Excess(symbols) == SumFunctionOnSet(Notional, Raced(symbols))

Peers(s) == {t \in screened : Sector[t] = Sector[s]}

(* What the limits suppose of the start: that they hold of the opening     *)
(* book, at the opening prices.                                            *)
Opening == [s \in Symbols |-> OpeningBook[s].quantity * OpeningPrices[s]]
OpensWithinLimits ==
    AtCostOrBelow(OpeningBook, OpeningPrices) =>
      /\ \A s \in Symbols : Opening[s] <= MaxPosition
      /\ SumFunctionOnSet(Opening, Symbols) <= MaxTotalExposure
      /\ MaxSectorExposure > 0 => \A s \in Symbols :
           SumFunctionOnSet(Opening, {t \in Symbols : Sector[t] = Sector[s]}) <= MaxSectorExposure

(* Whatever outages, rulings and sales come in between, approved purchases *)
(* keep every position, every sector and the book within its limit, but    *)
(* for purchases assessed while another was approved and not yet booked,   *)
(* and until a price rises, or a symbol that is held or being bought is    *)
(* classified, which the fixture does not wait for.  A limit of a sector   *)
(* that is not positive is switched off.                                   *)
ExposureWithinLimit ==
    history.calm =>
      /\ \A s \in Symbols : Committed({s}) <= MaxPosition + Excess({s})
      /\ Committed(Symbols) <= MaxTotalExposure + Excess(Symbols)
      /\ MaxSectorExposure > 0 => \A s \in screened :
           Committed(Peers(s)) <= MaxSectorExposure + Excess(Peers(s))

(* Whatever preview is posted: the ruling allowed an approved order at     *)
(* some moment of the approval itself, but for the fixture, and so did the *)
(* account; an account that cannot be read approves no option, and no      *)
(* option contract is approved at all.                                     *)
ApprovedWasPermitted ==
    \A r \in Requests : Approved(r) =>
      /\ request[r].order.symbol \in Fixtures \/ history.of[r].cleared
      /\ IF Alpaca THEN history.of[r].cash ELSE request[r].order.asset_class = "equity"
      /\ ~request[r].order.option_contract

(* Nothing is approved on a day whose losses had passed the limit when     *)
(* they were read, as long as the last snapshot before the day had seen    *)
(* every earlier sale and the profit of all time is not exactly zero.      *)
LossesStopTrading ==
    \A r \in Requests : Approved(r) => history.of[r].loss <= MaxDailyLoss

=============================================================================
