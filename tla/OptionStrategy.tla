----------------------------- MODULE OptionStrategy -----------------------------
(***************************************************************************)
(* The choice of one option contract to write (option_strategy.py,         *)
(* option_strategy_api.py) and the gate that checks its backing again      *)
(* (option_structure_gate.py).                                             *)
(*                                                                         *)
(* A number that cannot be read is None, dates are days from today, and a  *)
(* percentage is rounded to its fourth decimal and counted in those.  How  *)
(* many rows were rejected for which reason is left out.                   *)
(***************************************************************************)
EXTENDS Integers, SequencesExt

CONSTANTS
    SharesPerContract,
    Policy,     \* DEFAULT_POLICY with its overrides
    None

Structures == {"COVERED_CALL", "CASH_SECURED_PUT"}
OptionType(strategy) == IF strategy = "COVERED_CALL" THEN "CALL" ELSE "PUT"

-----------------------------------------------------------------------------
(* fetch_option_chain: every contract listed for the underlying, with the  *)
(* quote that the snapshots have of it.  Prices are even, so that the      *)
(* middle of two is one.                                                   *)
NoQuote == [bid |-> None, ask |-> None]
Row(contract, quote) ==
    [symbol |-> contract.symbol, option_type |-> contract.option_type,
     tradable |-> contract.tradable, multiplier |-> contract.multiplier,
     strike |-> contract.strike, dte |-> contract.dte, bid |-> quote.bid, ask |-> quote.ask,
     mid |-> IF quote.bid = None \/ quote.ask = None THEN None
             ELSE (quote.bid + quote.ask) \div 2]
FetchChain(contracts, snapshots, option_type) ==
    LET listed == SelectSeq(contracts, LAMBDA c : c.option_type = option_type)
    IN  [i \in DOMAIN listed |->
            Row(listed[i], IF listed[i].symbol \in DOMAIN snapshots
                           THEN snapshots[listed[i].symbol] ELSE NoQuote)]

-----------------------------------------------------------------------------
(* rank_candidates *)

PercentOf(part, whole) == (1000000 * part + whole \div 2) \div whole
Missing(value) == value = None \/ value <= 0

OtmPct(strategy, row, spot) ==
    PercentOf(IF strategy = "COVERED_CALL" THEN row.strike - spot ELSE spot - row.strike, spot)

Premium(row) == IF Missing(row.mid) THEN row.bid ELSE row.mid

(* A quote without an ask has no spread to be too wide. *)
TightQuote(row) ==
    Missing(row.ask) \/ /\ row.ask >= row.bid
                        /\ PercentOf(row.ask - row.bid, Premium(row)) <= Policy.max_spread

Eligible(strategy, row, spot) ==
    /\ row.option_type = OptionType(strategy)
    /\ row.tradable
    /\ row.multiplier = SharesPerContract
    /\ row.dte # None /\ row.dte \in Policy.min_dte..Policy.max_dte
    /\ ~Missing(row.strike)
    /\ OtmPct(strategy, row, spot) \in Policy.min_otm..Policy.max_otm
    /\ ~Missing(row.bid)
    /\ Premium(row) >= Policy.min_premium
    /\ TightQuote(row)

(* Nearest to the target, then the later, the dearer and the first by name. *)
Better(strategy, spot, a, b) ==
    LET miss(row) == LET gap == OtmPct(strategy, row, spot) - Policy.target_otm
                     IN  IF gap < 0 THEN -gap ELSE gap
    IN  \/ miss(a) < miss(b)
        \/ /\ miss(a) = miss(b)
           /\ \/ a.dte > b.dte
              \/ a.dte = b.dte /\ Premium(a) > Premium(b)
              \/ a.dte = b.dte /\ Premium(a) = Premium(b) /\ a.symbol < b.symbol

Ranked(strategy, chain, spot) ==
    LET eligible == SelectSeq(chain, LAMBDA row : Eligible(strategy, row, spot))
    IN  SetToSortSeq(ToSet(eligible), LAMBDA a, b : Better(strategy, spot, a, b))

-----------------------------------------------------------------------------
(* Sizing: from shares owned or cash settled, and never above a ceiling. *)

Capacity(strategy, account, strike) ==
    IF strategy = "COVERED_CALL" THEN account.shares \div SharesPerContract
    ELSE account.cash \div (strike * SharesPerContract)

Capped(contracts, ceiling) == IF ceiling = None \/ contracts <= ceiling THEN contracts ELSE ceiling

(* _select: down the ranking to the first contract that can be backed. *)
Refusal(status) == [status |-> status, row |-> None, contracts |-> 0]
Select(strategy, chain, spot, account, ceiling) ==
    LET short  == IF strategy = "COVERED_CALL" THEN "INSUFFICIENT_SHARES" ELSE "INSUFFICIENT_CASH"
        ranked == Ranked(strategy, chain, spot)
        size(row) == Capped(Capacity(strategy, account, row.strike), ceiling)
        backed == SelectSeq(ranked, LAMBDA row : size(row) >= 1)
    IN  CASE strategy = "COVERED_CALL" /\ account.shares < SharesPerContract -> Refusal(short)
          [] strategy = "CASH_SECURED_PUT" /\ account.cash <= 0 -> Refusal(short)
          [] OTHER ->
             IF Missing(spot) THEN Refusal("INVALID_INPUT")
             ELSE IF chain = None THEN Refusal("CHAIN_UNAVAILABLE")
             ELSE IF ranked = <<>> THEN Refusal("NO_CANDIDATE")
             ELSE IF backed = <<>> THEN Refusal(short)
             ELSE [status |-> "SELECTED", row |-> backed[1], contracts |-> size(backed[1])]

(* resolve_strategy: asked for, or a call if there are shares to cover it. *)
ResolveStrategy(requested, account) ==
    IF requested # None THEN requested
    ELSE IF account.shares >= SharesPerContract THEN "COVERED_CALL" ELSE "CASH_SECURED_PUT"

(* propose_option_strategy: nothing is chosen unless options are permitted. *)
Propose(requested, chain, spot, account, permitted) ==
    IF ~permitted \/ Missing(spot) THEN Refusal("REJECT")
    ELSE Select(ResolveStrategy(requested, account), chain, spot, account, None)

-----------------------------------------------------------------------------
(* check_structure, for the structures that are written. *)
CheckStructure(strategy, row, contracts, account, permitted) ==
    /\ permitted
    /\ ~account.uses_margin
    /\ IF strategy = "COVERED_CALL" THEN account.shares >= contracts * SharesPerContract
       ELSE /\ ~Missing(row.strike)
            /\ account.cash >= contracts * SharesPerContract * row.strike
=============================================================================
