-------------------------------- MODULE MCDesk --------------------------------
(***************************************************************************)
(* Two symbols of one sector, one of them held; a price is 12 or 24.  What *)
(* the quant agent finds is computed from short price histories.  The      *)
(* agent, the opportunity scan and the choice of an option contract are    *)
(* compared with what is promised of them over every short input.          *)
(***************************************************************************)
EXTENDS Desk, SequencesExt, TLC

CONSTANT None

OneHeld == [s \in Symbols |-> IF s = CHOOSE t \in Symbols : TRUE THEN [quantity |-> 1, cost |-> 24]
                              ELSE [quantity |-> 0, cost |-> 0]]
AtCost == [s \in Symbols |-> 24]
Equity(s, side, n, p) == [symbol |-> s, side |-> side, quantity |-> n, price |-> p,
                          asset_class |-> "equity", option_contract |-> FALSE]
Held == CHOOSE s \in Symbols : OneHeld[s].quantity > 0
Trades == {Equity(s, "BUY", 1, 24) : s \in Symbols} \cup {Equity(Held, "SELL", 1, 12)}
Options == {[Equity(Held, "BUY", 1, 24) EXCEPT !.asset_class = "option"],
            [Equity(Held, "SELL", 1, 12) EXCEPT !.option_contract = TRUE]}
AllOrders == Trades \cup Options
Symmetric == Permutations(Requests)
OneSector == [s \in Symbols |-> "Technology"]

(* The theorem on exposure supposes of the opening book what is so here. *)
ASSUME BookOpensWithinLimits == AtCostOrBelow(OpeningBook, OpeningPrices) /\ OpensWithinLimits

-----------------------------------------------------------------------------
(* The quant agent: windows of 2, 4 and 3 sessions.                        *)
Quant == INSTANCE QuantAgent WITH ShortWindow <- 2, LongWindow <- 4, BreakoutWindow <- 3

Configured == <<"S001", "S002">>
Histories == UNION {[1..n -> 1..3] : n \in 0..6}
Fetches ==
    {Quant!FetchAlpaca([sip |-> sip, subscription_error |-> FALSE, iex |-> None], <<>>, FALSE, TRUE) :
        sip \in {<<1, 1, 2, 2>>, <<2, 2, 1, 1>>, None}}
Found(bars) == LET q == Quant!EvaluateQuant(bars, Configured)
               IN  [signal |-> q.signal, data_freshness |-> q.data_freshness]
QuantsOfTheDay == {Found(bars) : bars \in Fetches}

(* Priority is for reporting, not for permission; a signal to buy is given *)
(* only in an uptrend, by one strategy, and never on too few sessions.     *)
ASSUME SignalsFollowTheTrend ==
    \A closes \in Histories :
        LET signal(names) == Quant!SelectSignal(Quant!EvaluateStrategies(closes, names)).signal
            n == Len(closes)
        IN  /\ signal(<<"S001", "S002">>) = signal(<<"S002", "S001">>)
            /\ signal(<<"S009">>) = signal(<<"S001">>)
            /\ ~(signal(<<"S001">>) = "BUY" /\ signal(<<"S002">>) = "BUY")
            /\ signal(Configured) = "BUY" =>
                 /\ n >= 4
                 /\ closes[n] + closes[n - 1] > closes[n - 2] + closes[n - 3]
                 /\ \/ closes[n] >= closes[n - 1] /\ closes[n] >= closes[n - 2]
                    \/ closes[n] > closes[n - 1]

(* Whatever the providers fail to send, invented prices reach no gate, and *)
(* a scan uses none.                                                       *)
Replies == {None, <<>>, <<1, 1, 2, 2>>, <<2, 2, 1, 1>>}
ASSUME InventedPricesAreBlocked ==
    \A reply \in Replies, cached \in Replies \ {None}, stale, fallback \in BOOLEAN :
        LET us == Quant!FetchTiingo(reply, cached, stale, fallback)
            my == Quant!FetchYahoo(reply, cached, stale, fallback)
        IN  \A bars \in {us, my} \ {None} :
                /\ bars.source = "fixture" =>
                     /\ fallback
                     /\ Quant!EvaluateQuant(bars, Configured).signal = "BUY"
                     /\ "synthetic_market_data" \in
                          Quant!Blockers(Quant!EvaluateQuant(bars, Configured), TRUE, TRUE)
                /\ bars.source # "fixture" => bars.closes \in {reply, cached}

(* A scan that says READY has no blocker, and the alert of a near breakout *)
(* is given exactly within the threshold.                                  *)
ASSUME ScansAreTrue ==
    \A closes \in Histories, shariah_ok, risk_ok \in BOOLEAN :
        LET bars == Quant!Bars(closes, "alpaca")
            item == Quant!ScanItem(bars, Configured, shariah_ok, risk_ok, 500000)
            n == Len(closes)
            level == CHOOSE p \in {closes[i] : i \in (n - 3)..(n - 1)} :
                        \A i \in (n - 3)..(n - 1) : closes[i] <= p
            uptrend == closes[n] + closes[n - 1] > closes[n - 2] + closes[n - 3]
        IN  /\ item.ready_for_approval => shariah_ok /\ risk_ok /\ n >= 4 /\ uptrend
            /\ item.alert_status = "ALERT"
                 <=> n >= 4 /\ uptrend /\ closes[n] < level /\ 2 * closes[n] >= level

(* However the status of a symbol goes, the last event told of it tells    *)
(* the alert it is in, and no event repeats the one before: also after an  *)
(* upgrade, when an alert is stored of which nothing was told.             *)
Stores == {[status |-> None, events |-> <<>>], [status |-> "ALERT", events |-> <<>>]}
ASSUME AlertsAreTold ==
    \A n \in 1..5 : \A statuses \in [1..n -> Quant!EventStatuses], store \in Stores :
        LET after == FoldLeft(LAMBDA stored, new : Quant!Saved(stored, new), store, statuses)
            told == after.events
        IN  /\ after.status \in {"ALERT", "READY"} =>
                 told # <<>> /\ told[Len(told)].new = after.status
            /\ \A i \in 1..(Len(told) - 1) : told[i].new # told[i + 1].new

-----------------------------------------------------------------------------
(* Options: contracts of ten shares at a spot of 50, a band of 10% to 40%. *)
Bands == [min_dte |-> 1, max_dte |-> 7, min_otm |-> 100000, target_otm |-> 200000,
          max_otm |-> 400000, min_premium |-> 2, max_spread |-> 500000]
Option == INSTANCE OptionStrategy WITH SharesPerContract <- 10, Policy <- Bands
Contract(symbol, type, strike, dte, tradable) ==
    [symbol |-> symbol, option_type |-> type, strike |-> strike, dte |-> dte,
     tradable |-> tradable, multiplier |-> 10]
Contracts == {Contract(1, "CALL", 60, 7, TRUE), Contract(2, "CALL", 60, 3, TRUE),
              Contract(3, "CALL", 55, 7, TRUE), Contract(4, "CALL", 60, 8, TRUE),
              Contract(5, "CALL", 60, 7, FALSE), Contract(6, "PUT", 40, 7, TRUE),
              Contract(7, "PUT", 35, 7, TRUE), Contract(8, "PUT", 45, 7, TRUE)}
Quotes == {[bid |-> 10, ask |-> 12], [bid |-> 10, ask |-> 20], [bid |-> None, ask |-> 12],
           [bid |-> 10, ask |-> None]}
Listings == UNION {{list \in [1..n -> Contracts] : IsInjective(list)} : n \in 0..3}
OptionAccounts == [shares : {9, 25}, cash : {0, 350, 800}, uses_margin : {FALSE}]

(* The contract that is chosen is out of the money and backed, as the      *)
(* structure gate will find again, and no other that could be backed is    *)
(* nearer to the target; none is chosen only if none could be backed.      *)
ASSUME ChoicesAreBacked ==
    \A list \in Listings, strategy \in Option!Structures, backing \in OptionAccounts :
    \A quote \in Quotes :
        LET snapshots == [symbol \in {list[i].symbol : i \in DOMAIN list} \ {2} |-> quote]
            chain  == Option!FetchChain(list, snapshots, Option!OptionType(strategy))
            choice == Option!Select(strategy, chain, 50, backing, 2)
            usable(row) == /\ row.tradable /\ row.dte <= 7 /\ row.bid # None /\ row.ask # 20
                           /\ Option!CheckStructure(strategy, row, 1, backing, TRUE)
            miss(row) == IF row.strike \in {40, 60} THEN 0 ELSE 1
        IN  /\ choice.status = "SELECTED" =>
                 /\ choice.contracts \in 1..2
                 /\ choice.row.strike \in (IF strategy = "COVERED_CALL" THEN 55..70 ELSE 30..45)
                 /\ Option!CheckStructure(strategy, choice.row, choice.contracts, backing, TRUE)
                 /\ usable(choice.row)
                 /\ \A i \in DOMAIN chain : usable(chain[i]) => miss(choice.row) <= miss(chain[i])
            /\ choice.status # "SELECTED" => \A i \in DOMAIN chain : ~usable(chain[i])
            /\ Option!Propose(None, chain, 50, backing, FALSE).status = "REJECT"
=============================================================================
