------------------------------- MODULE SecScreen -------------------------------
(***************************************************************************)
(* The screen of a US security from its SEC filings                        *)
(* (sec_edgar_screen.py): the industry code first, then debt and cash of   *)
(* the latest annual balance sheet over total assets, or over market       *)
(* capitalisation in the AAOIFI view.                                      *)
(*                                                                         *)
(* A filing is the facts in the order SEC lists them.  A value that is not *)
(* a finite number is None.  A ratio is rounded to the fourth decimal of a *)
(* percentage and counted in those: 33% is 330000.                         *)
(***************************************************************************)
EXTENDS TrafficLight, SequencesExt

CONSTANTS
    AssetConcepts, DebtGroups, CashGroups,  \* concepts, and groups of alternatives, in order
    ExcludedActivity,   \* the exclusion category of a SIC code, None for the rest
    MixedCategories,    \* categories whose SIC block mixes operators
    AnnualForms, ReportingForms

Percent == 10000
ScLimit == 33 * Percent
AaoifiLimit == 30 * Percent

(* The first of the rows than which no other is later.                     *)
Latest(rows, Later(_, _)) ==
    FoldLeft(LAMBDA best, row : IF best = None THEN row
                                ELSE IF Later(row, best) THEN row ELSE best, None, rows)

(* usd_rows: a fact counts if it is of a form that is read, dated and      *)
(* finite.                                                                 *)
UsdRows(gaap, concept) ==
    SelectSeq(gaap, LAMBDA row : /\ row.concept = concept /\ row.form \in ReportingForms
                                 /\ row.end # None /\ row.value # None)

LatestAnnualFact(gaap) ==
    LET rows == FlattenSeq([i \in DOMAIN AssetConcepts |-> UsdRows(gaap, AssetConcepts[i])])
        annual == SelectSeq(rows, LAMBDA row : row.form \in AnnualForms)
    IN  Latest(annual, LAMBDA row, best : \/ row.end > best.end
                                          \/ row.end = best.end /\ row.filed > best.filed)

FactAtPeriod(gaap, concept, period_end) ==
    Latest(SelectSeq(UsdRows(gaap, concept), LAMBDA row : row.end = period_end),
           LAMBDA row, best : row.filed > best.filed)

(* sum_components: the first alternative of each group that reports.       *)
Reported(gaap, group, period_end) ==
    SelectSeq([i \in DOMAIN group |-> FactAtPeriod(gaap, group[i], period_end)],
              LAMBDA fact : fact # None)
SumComponents(gaap, groups, period_end) ==
    LET used == SelectSeq([i \in DOMAIN groups |-> Reported(gaap, groups[i], period_end)],
                          LAMBDA facts : facts # <<>>)
    IN  [total |-> FoldLeft(LAMBDA sum, facts : sum + facts[1].value, 0, used),
         found |-> used # <<>>]

Ratio(part, whole) == (100 * Percent * part + whole \div 2) \div whole

(* compute_ratios: None where a reason is given instead.                   *)
ComputeRatios(gaap) ==
    LET anchor == LatestAnnualFact(gaap)
        debt == SumComponents(gaap, DebtGroups, anchor.end)
        cash == SumComponents(gaap, CashGroups, anchor.end)
    IN  IF anchor = None \/ anchor.value <= 0 \/ ~cash.found THEN None
        ELSE [report_date |-> anchor.end, debt |-> debt.total, cash |-> cash.total,
              debt_ratio |-> Ratio(debt.total, anchor.value),
              cash_ratio |-> Ratio(cash.total, anchor.value),
              limit |-> ScLimit, debt_line |-> debt.found]

(* The cover page: every class of shares of the latest filing, summed.     *)
LatestSharesOutstanding(dei) ==
    LET rows == SelectSeq(dei, LAMBDA row : row.end # None /\ row.value # None)
        last == Latest(rows, LAMBDA row, best : \/ row.end > best.end
                                                \/ row.end = best.end /\ row.filed > best.filed)
        classes == SelectSeq(rows, LAMBDA row : row.end = last.end /\ row.filed = last.filed)
        total == FoldLeft(LAMBDA sum, row : sum + row.value, 0, classes)
    IN  IF rows = <<>> \/ total <= 0 THEN None ELSE total

AaoifiRatios(ratios, dei, price) ==
    LET shares == LatestSharesOutstanding(dei) IN
    IF shares = None \/ price = None \/ price <= 0 THEN None
    ELSE [ratios EXCEPT !.debt_ratio = Ratio(ratios.debt, shares * price),
                        !.cash_ratio = Ratio(ratios.cash, shares * price),
                        !.limit = AaoifiLimit]

(* _screen_us_symbol.  What SEC does not answer is an ERROR, what it does  *)
(* not tell is UNKNOWN; an excluded activity is rejected without a ratio.  *)
Undated(status) == [status |-> status, category |-> None, ratios |-> None]
ByActivity(filing) ==
    [Undated("NON_COMPLIANT") EXCEPT !.category = ExcludedActivity[filing.sic]]
ByRatios(ratios) ==
    [status |-> IF ratios.debt_ratio >= ratios.limit \/ ratios.cash_ratio >= ratios.limit
                THEN "NON_COMPLIANT" ELSE "COMPLIANT",
     category |-> None, ratios |-> ratios]
ScreenUsSymbol(filing, methodology) ==
    LET sc == ComputeRatios(filing.gaap)
        ratios == IF methodology = "AAOIFI" /\ sc # None
                  THEN AaoifiRatios(sc, filing.dei, filing.price) ELSE sc
    IN  IF "tickers" \in filing.unanswered THEN Undated("ERROR")
        ELSE IF ~filing.registered THEN Undated("UNKNOWN")
        ELSE IF "submissions" \in filing.unanswered THEN Undated("ERROR")
        ELSE IF ExcludedActivity[filing.sic] # None THEN ByActivity(filing)
        ELSE IF "facts" \in filing.unanswered THEN Undated("ERROR")
        ELSE IF ratios = None THEN Undated("UNKNOWN")
        ELSE ByRatios(ratios)

(* evaluate_shariah of a US security: what the traffic light reads.        *)
EvaluateUs(filing, methodology) ==
    LET screen == ScreenUsSymbol(filing, methodology)
        r == screen.ratios
    IN  [market |-> "US",
         status |-> CASE screen.status = "COMPLIANT" -> "PASS"
                      [] screen.status = "NON_COMPLIANT" -> "REJECT"
                      [] OTHER -> "UNKNOWN",
         mixed |-> screen.category \in MixedCategories,
         dated |-> r # None,
         debt_ratio |-> IF r = None THEN None ELSE r.debt_ratio,
         cash_ratio |-> IF r = None THEN None ELSE r.cash_ratio,
         limit |-> IF r = None THEN None ELSE r.limit,
         debt_line |-> r # None /\ r.debt_line]
=============================================================================
