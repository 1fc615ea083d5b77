------------------------------- MODULE MCMonitor -------------------------------
(***************************************************************************)
(* The verdicts of the run are the screens of three filings: one that      *)
(* passes, one whose debt is over the limit and a hotel.  The screen       *)
(* itself is compared with the criteria over every short filing.           *)
(***************************************************************************)
EXTENDS Monitor, TLC

(* Alternatives of one concept are a group; 7011 is hotels, 6020 banks.    *)
ActivityOf == 6020 :> "conventional_banking" @@ 7011 :> "hospitality_mixed_activity" @@ 3571 :> None
Sec == INSTANCE SecScreen WITH
    AssetConcepts <- <<"Assets">>,
    DebtGroups <- <<<<"LongTermDebtNoncurrent", "LongTermDebt">>, <<"NotesPayableCurrent">>>>,
    CashGroups <- <<<<"Cash">>>>,
    ExcludedActivity <- ActivityOf,
    MixedCategories <- {"hospitality_mixed_activity"},
    AnnualForms <- {"10-K"},
    ReportingForms <- {"10-K", "10-Q"}

Fact(concept, end, value, filed, form) ==
    [concept |-> concept, end |-> end, value |-> value, filed |-> filed, form |-> form]
Filing(sic, gaap) ==
    [registered |-> TRUE, unanswered |-> {}, sic |-> sic, gaap |-> gaap,
     dei |-> <<[end |-> 2, filed |-> 3, value |-> 40], [end |-> 2, filed |-> 3, value |-> 10]>>,
     price |-> 2]
Sheet(debt) == <<Fact("Assets", 2, 100, 3, "10-K"), Fact("Cash", 2, 5, 3, "10-K"),
                 Fact("LongTermDebt", 2, debt, 3, "10-K")>>

Screened(status, debt) ==
    [market |-> "US", status |-> status, mixed |-> FALSE, dated |-> TRUE,
     debt_ratio |-> debt * 10000, cash_ratio |-> 50000, limit |-> 330000, debt_line |-> TRUE]
Hotel == [market |-> "US", status |-> "REJECT", mixed |-> TRUE, dated |-> FALSE,
          debt_ratio |-> None, cash_ratio |-> None, limit |-> None, debt_line |-> FALSE]
Verdicts == {Screened("PASS", 10), Screened("REJECT", 40), Hotel}

ASSUME VerdictsAreScreens ==
    LET outcome(sic, debt) == Sec!EvaluateUs(Filing(sic, Sheet(debt)), "SC_MY_SAC")
    IN  Verdicts = {outcome(3571, 10), outcome(3571, 40), outcome(7011, 10)}

-----------------------------------------------------------------------------
(* A filing of two years, an amended quarter and an unreadable value.      *)
Facts == {Fact("Assets", 1, 100, 2, "10-K"), Fact("Assets", 2, 200, 3, "10-K"),
          Fact("Assets", 3, 100, 4, "10-Q"),
          Fact("Cash", 2, 10, 3, "10-K"), Fact("Cash", 1, 40, 2, "10-K"),
          Fact("LongTermDebt", 2, 65, 3, "10-K"), Fact("LongTermDebt", 2, 66, 4, "10-Q"),
          Fact("LongTermDebtNoncurrent", 2, 10, 3, "10-K"), Fact("NotesPayableCurrent", 2, None, 3, "10-K")}
Gaaps == UNION {[1..n -> Facts] : n \in 0..4}
Filings == {Filing(3571, g) : g \in Gaaps}
           \cup {[Filing(sic, Sheet(debt)) EXCEPT !.unanswered = missing, !.registered = r] :
                    sic \in DOMAIN ActivityOf, debt \in {29, 30, 33}, r \in BOOLEAN,
                    missing \in SUBSET {"tickers", "submissions", "facts"}}

(* The value of a concept at a date: of the readable facts the one filed   *)
(* last.                                                                   *)
Value(filing, concept, end) ==
    LET told == {filing.gaap[i] : i \in {j \in DOMAIN filing.gaap :
                    LET f == filing.gaap[j] IN
                    f.concept = concept /\ f.end = end /\ f.value # None}}
    IN  IF told = {} THEN None
        ELSE (CHOOSE f \in told : \A g \in told : g.filed <= f.filed).value
OrNothing(value) == IF value = None THEN 0 ELSE value

(* screening-criteria-breakdown.md as the code reads it: nothing missing,  *)
(* no excluded activity, and at the date of the last audited balance sheet *)
(* debt and cash both under a third of the whole.                          *)
MeetsTheCriteria(filing, methodology) ==
    LET annual == {filing.gaap[i].end : i \in {j \in DOMAIN filing.gaap :
                      filing.gaap[j].concept = "Assets" /\ filing.gaap[j].form = "10-K"}}
        at(concept) == Value(filing, concept, CHOOSE e \in annual : \A d \in annual : d <= e)
        long_term == IF at("LongTermDebtNoncurrent") # None THEN at("LongTermDebtNoncurrent")
                     ELSE OrNothing(at("LongTermDebt"))
        debt == long_term + OrNothing(at("NotesPayableCurrent"))
        whole == IF methodology = "AAOIFI" THEN 50 * filing.price ELSE at("Assets")
        limit == IF methodology = "AAOIFI" THEN 30 ELSE 33
    IN  /\ filing.registered /\ filing.unanswered = {} /\ ActivityOf[filing.sic] = None
        /\ annual # {} /\ at("Cash") # None
        /\ 100 * debt < limit * whole /\ 100 * at("Cash") < limit * whole

ASSUME ScreenFollowsTheCriteria ==
    \A filing \in Filings, methodology \in {"SC_MY_SAC", "AAOIFI"} :
        Sec!ScreenUsSymbol(filing, methodology).status = "COMPLIANT"
            <=> MeetsTheCriteria(filing, methodology)
=============================================================================
