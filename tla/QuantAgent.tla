------------------------------ MODULE QuantAgent ------------------------------
(***************************************************************************)
(* The entry signal of a symbol (agents/quant_agent.py) and what the       *)
(* opportunity scan makes of it (opportunity_scanner.py, watchlist_store.  *)
(* py), as pure functions of the daily closes, the source they came from,  *)
(* the blockers of the evaluation and what the store holds.                *)
(*                                                                         *)
(* Averages are compared as sums: the windows are constants.  A gap to the *)
(* breakout level is a percentage, rounded to the fourth decimal and       *)
(* counted in those.                                                       *)
(***************************************************************************)
EXTENDS Integers, SequencesExt

CONSTANTS
    ShortWindow, LongWindow, BreakoutWindow,    \* 50, 200 and 55 sessions
    None

MinBars == LongWindow
Signals == {"BUY", "NO_SIGNAL"}
Freshness == {"live", "cached", "fixture", "unknown"}
WatchStatuses == {"READY", "BLOCKED", "NEAR_BREAKOUT", "NOT_READY", "DATA_ERROR"}
EventStatuses == WatchStatuses \cup {"ALERT"}

-----------------------------------------------------------------------------
LastOf(closes, n) == SubSeq(closes, Len(closes) - n + 1, Len(closes))
SumOf(values) == FoldLeft(LAMBDA sum, value : sum + value, 0, values)
Highest(values) == FoldLeft(LAMBDA high, value : IF value > high THEN value ELSE high, 0, values)

(* _indicators: None when there is not enough history. *)
Indicators(closes) ==
    LET latest == closes[Len(closes)]
        level == Highest(Front(LastOf(closes, BreakoutWindow + 1)))
        short == SumOf(LastOf(closes, ShortWindow))
    IN  IF Len(closes) < MinBars THEN None
        ELSE [trend_ok |-> short * LongWindow > SumOf(LastOf(closes, LongWindow)) * ShortWindow,
              breakout_ok |-> latest >= level,
              breakout_level |-> level,
              breakout_gap_pct |-> (1000000 * (latest - level) + level \div 2) \div level,
              above_support |-> latest * ShortWindow >= short,
              turning_up |-> latest > closes[Len(closes) - 1]]

Strategy(name, core, conditions) ==
    [strategy_id |-> name, core |-> core,
     signal |-> IF core # None /\ conditions THEN "BUY" ELSE "NO_SIGNAL"]

(* An uptrend that breaks out, and a dip in an uptrend that has turned. *)
S001(closes) ==
    LET core == Indicators(closes) IN
    Strategy("S001", core, core.trend_ok /\ core.breakout_ok)

S002(closes) ==
    LET core == Indicators(closes) IN
    Strategy("S002", core, /\ core.trend_ok /\ ~core.breakout_ok
                           /\ core.above_support /\ core.turning_up)

(* Unknown names are skipped, and no known name means S001. *)
EvaluateStrategies(closes, names) ==
    LET known == SelectSeq(names, LAMBDA name : name \in {"S001", "S002"})
        run == IF known = <<>> THEN <<"S001">> ELSE known
    IN  [i \in DOMAIN run |-> IF run[i] = "S001" THEN S001(closes) ELSE S002(closes)]

SelectSignal(results) ==
    LET buys == SelectSeq(results, LAMBDA result : result.signal = "BUY")
    IN  IF buys = <<>> THEN results[1] ELSE buys[1]

(* The closes a provider has sent, or, if it failed, those that the last   *)
(* success left in its cache, or invented ones; None where neither may be  *)
(* used.  What is invented is an uptrend that breaks out.                  *)
Bars(closes, source) == [closes |-> closes, source |-> source]
Instead(cached, stale, fallback) ==
    IF stale /\ cached # <<>> THEN Bars(cached, "cache")
    ELSE IF fallback THEN Bars([day \in 1..(MinBars + 6) |-> 1000 + day], "fixture")
    ELSE None

(* An account without the consolidated feed is served by one exchange. *)
FetchAlpaca(reply, cached, stale, fallback) ==
    IF reply.sip # None THEN Bars(reply.sip, "alpaca")
    ELSE IF reply.subscription_error /\ reply.iex # None THEN Bars(reply.iex, "alpaca_iex")
    ELSE Instead(cached, stale, fallback)

FetchTiingo(reply, cached, stale, fallback) ==
    IF reply # None THEN Bars(reply, "tiingo") ELSE Instead(cached, stale, fallback)

FetchYahoo(reply, cached, stale, fallback) ==
    IF reply \notin {None, <<>>} THEN Bars(reply, "yahoo") ELSE Instead(cached, stale, fallback)

DataFreshness(source) ==
    CASE source \in {"alpaca", "alpaca_iex", "tiingo", "yahoo"} -> "live"
      [] source = "cache" -> "cached"
      [] source = "fixture" -> "fixture"
      [] OTHER -> "unknown"

EvaluateQuant(bars, names) ==
    LET strategy == SelectSignal(EvaluateStrategies(bars.closes, names))
    IN  [signal |-> strategy.signal, core |-> strategy.core, priced |-> bars.closes # <<>>,
         data_freshness |-> DataFreshness(bars.source)]

-----------------------------------------------------------------------------
(* The scan of one symbol.  A symbol without prices has no core. *)

AlertStatus(core, threshold) ==
    CASE core = None -> "NONE"
      [] core # None /\ core.breakout_ok -> "TRIGGERED"
      [] OTHER -> IF core.trend_ok /\ core.breakout_gap_pct >= -threshold THEN "ALERT" ELSE "NONE"

WatchStatus(blockers, core) ==
    IF blockers = {} THEN "READY"
    ELSE IF blockers \cap {"shariah_rejected", "risk_rejected"} # {} THEN "BLOCKED"
    ELSE IF core # None /\ core.trend_ok /\ ~core.breakout_ok THEN "NEAR_BREAKOUT"
    ELSE "NOT_READY"

(* The evaluation of a purchase of one share, at the latest close. *)
Blockers(quant, shariah_ok, risk_ok) ==
    LET found == [shariah_rejected |-> ~shariah_ok,
                  quant_no_buy_signal |-> quant.signal # "BUY",
                  synthetic_market_data |-> quant.data_freshness \in {"fixture", "unknown"},
                  risk_rejected |-> ~risk_ok,
                  valid_price_required |-> ~quant.priced]
    IN  {b \in DOMAIN found : found[b]}

ScanItem(bars, names, shariah_ok, risk_ok, threshold) ==
    LET quant == EvaluateQuant(bars, names)
        blockers == Blockers(quant, shariah_ok, risk_ok)
    IN  IF bars = None
        THEN [ready_for_approval |-> FALSE, alert_status |-> "DATA_ERROR",
              watch_status |-> "DATA_ERROR"]
        ELSE [ready_for_approval |-> blockers = {},
              alert_status |-> AlertStatus(quant.core, threshold),
              watch_status |-> WatchStatus(blockers, quant.core)]

EventStatus(item) ==
    IF item.ready_for_approval THEN "READY"
    ELSE IF item.alert_status = "ALERT" THEN "ALERT" ELSE item.watch_status

-----------------------------------------------------------------------------
(* What a scan leaves of one symbol in the store: its status, and the      *)
(* events told of it.                                                      *)

Tracked == {"NOT_READY", "NEAR_BREAKOUT", "ALERT", "READY"}
InitialAlerts == {"ALERT", "READY"}

Transition(previous, new) ==
    IF previous = None THEN new \in InitialAlerts
    ELSE previous # new /\ (previous \in Tracked \/ new \in Tracked)

(* An alert of which nothing was ever told is told late. *)
Backfilled(stored, new) ==
    /\ stored.status = new /\ new \in InitialAlerts
    /\ \A i \in DOMAIN stored.events : stored.events[i].new # new

Saved(stored, new) ==
    LET event == IF Transition(stored.status, new) THEN <<[previous |-> stored.status, new |-> new]>>
                 ELSE IF Backfilled(stored, new) THEN <<[previous |-> None, new |-> new]>>
                 ELSE <<>>
    IN  [status |-> new, events |-> stored.events \o event]
=============================================================================
