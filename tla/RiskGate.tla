------------------------------- MODULE RiskGate -------------------------------
(***************************************************************************)
(* The limits an order is held to, as pure functions: risk_checks.py,      *)
(* sector_concentration.py and the portfolio overlay of local_api.py.      *)
(*                                                                         *)
(* Money is in hundredths of the account's equity, so that an amount is    *)
(* its own percentage of the account.  A position that cannot be priced    *)
(* counts at what it cost; a loss that cannot be computed is Unknown, and  *)
(* is within no limit.                                                     *)
(***************************************************************************)
EXTENDS Integers, FiniteSets, Functions

CONSTANTS
    MaxPosition, MaxTotalExposure, MaxSectorExposure, MaxLossPerTrade,
    MaxDailyLoss, MaxWeeklyLoss, MaxOrdersPerDay,
    Unknown

Larger(a, b) == IF a >= b THEN a ELSE b

Within(value, limit) == value # Unknown /\ value <= limit

OrdersWithin(orders_today) == orders_today <= MaxOrdersPerDay

OrdersBelow(orders_today) == orders_today < MaxOrdersPerDay

(* check_order; the weekly loss is left out by callers that do not compute it. *)
CheckOrder(position, total, trade, daily, weekly, orders_today) ==
    /\ Within(position, MaxPosition)
    /\ Within(total, MaxTotalExposure)
    /\ Within(trade, MaxLossPerTrade)
    /\ Within(daily, MaxDailyLoss)
    /\ Within(weekly, MaxWeeklyLoss)
    /\ OrdersBelow(orders_today)

(* The loss since a baseline of the realised profit.  An account that      *)
(* never realised anything needs no baseline.                              *)
PeriodLoss(realised, baseline) ==
    IF realised = 0 THEN 0
    ELSE IF baseline = Unknown THEN Unknown
    ELSE Larger(0, baseline - realised)

-----------------------------------------------------------------------------
(* A book maps a security to [quantity, cost], quote to a price or Unknown. *)

NothingIfUnpriced(position, price) ==
    IF price = Unknown THEN 0 ELSE position.quantity * price

ExposureValue(position, price) ==
    IF price = Unknown THEN position.cost ELSE position.quantity * price

Exposure(book, quote, symbols) ==
    SumFunctionOnSet([s \in symbols |-> ExposureValue(book[s], quote[s])], symbols)

(* What the overlay projects of an order. *)
Projected(book, quote, order) ==
    LET held     == book[order.symbol].quantity
        now      == ExposureValue(book[order.symbol], quote[order.symbol])
        left     == Larger(0, held - order.quantity)
        notional == order.quantity * order.price
        after    == IF order.side = "BUY" THEN now + notional
                    ELSE IF held = 0 THEN 0 ELSE (now * left) \div held
    IN  [position |-> after,
         total    |-> Larger(0, Exposure(book, quote, DOMAIN book) - now + after)]

(* A security that was never classified shares a bucket with the others. *)
SectorTotal(book, quote, sector, order) ==
    Exposure(book, quote, {s \in DOMAIN book : sector[s] = sector[order.symbol]})
    + (IF order.side = "BUY" THEN order.quantity * order.price ELSE 0)

(* portfolio_risk_overlay: what stands against the order. *)
Overlay(book, quote, sector, order) ==
    LET held  == book[order.symbol].quantity
        p     == Projected(book, quote, order)
        buy   == order.side = "BUY"
        found == [portfolio_position_limit |-> p.position > MaxPosition,
                  portfolio_total_exposure_limit |-> p.total > MaxTotalExposure,
                  portfolio_existing_position |->
                      buy /\ ExposureValue(book[order.symbol], quote[order.symbol]) > 0,
                  portfolio_sell_without_position |-> ~buy /\ held = 0,
                  portfolio_sector_concentration_limit |->
                      /\ buy /\ MaxSectorExposure > 0
                      /\ SectorTotal(book, quote, sector, order) > MaxSectorExposure,
                  portfolio_sell_exceeds_position |-> ~buy /\ held > 0 /\ order.quantity > held]
    IN  {b \in DOMAIN found : found[b]}

(* authoritative_risk_verdict: options are not sized as shares. *)
RiskPasses(book, quote, sector, order, daily, weekly, orders_today) ==
    IF order.asset_class = "option"
    THEN CheckOrder(0, 0, 0, daily, weekly, orders_today)
    ELSE LET p == Projected(book, quote, order) IN
         /\ CheckOrder(p.position, p.total,
                       IF order.side = "BUY" THEN order.quantity * order.price ELSE 0,
                       daily, weekly, orders_today)
         /\ Overlay(book, quote, sector, order) = {}

-----------------------------------------------------------------------------
(* apply_fill_to_position: the position and the profit a fill leaves. *)
AverageCost(position) == IF position.quantity = 0 THEN 0 ELSE position.cost \div position.quantity

Filled(position, side, quantity, price) ==
    IF side = "BUY"
    THEN [quantity |-> position.quantity + quantity, cost |-> position.cost + quantity * price]
    ELSE LET left == Larger(0, position.quantity - quantity)
         IN  [quantity |-> left, cost |-> left * AverageCost(position)]

Profit(position, side, quantity, price) ==
    IF side = "BUY" THEN 0
    ELSE (price - AverageCost(position))
         * (IF quantity <= position.quantity THEN quantity ELSE position.quantity)
=============================================================================
