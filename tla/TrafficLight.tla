----------------------------- MODULE TrafficLight -----------------------------
(***************************************************************************)
(* The colour of a holding (traffic_light.py): a pure function of one      *)
(* screening verdict, the status of the previous annual report, the flags  *)
(* raised against the report and the owner's escalations.                  *)
(*                                                                         *)
(* A ratio is a percentage or None where it is not a finite number.  The   *)
(* wording of the reasons is left out; which reasons there are is kept.    *)
(***************************************************************************)
EXTENDS Integers

CONSTANT None

Lights == {"GREEN", "YELLOW", "RED"}
Statuses == {"PASS", "REJECT", "UNKNOWN"}
ScreenStatuses == {"COMPLIANT", "NON_COMPLIANT", "UNKNOWN", "ERROR"}

(* What evaluate_shariah returns of a security: mixed is a rejection by an *)
(* industry code that mixes compliant and non-compliant operators, dated   *)
(* says whether the verdict names the annual report it was read from.      *)
Verdict == [market : {"MY", "US"}, status : Statuses, mixed : BOOLEAN, dated : BOOLEAN,
            debt_ratio : Nat \cup {None}, cash_ratio : Nat \cup {None},
            limit : Nat \cup {None}, debt_line : BOOLEAN]

(* Within a tenth of the limit.  Ratios that cannot be read are a reason. *)
NearLimitReasons(v) ==
    IF v.limit = None \/ v.limit = 0 THEN {"data_unavailable"}
    ELSE UNION {IF ratio = None THEN {"data_unavailable"}
                ELSE IF 10 * ratio >= 9 * v.limit THEN {"near_limit"} ELSE {} :
                ratio \in {v.debt_ratio, v.cash_ratio}}

(* Malaysia: the list itself decides.  United States: the ratios, a filing *)
(* without a debt line, and a previous report that did not pass.           *)
PassReasons(v, prior) ==
    IF v.market = "MY" THEN {}
    ELSE NearLimitReasons(v)
         \cup (IF v.debt_line THEN {} ELSE {"no_debt_line_in_filing"})
         \cup (IF prior \in {None, "COMPLIANT"} THEN {} ELSE {"recently_cleared"})

MixedActivity(v) == v.market = "US" /\ v.status = "REJECT" /\ v.mixed

ScreenLight(v, prior, flagged) ==
    CASE v.status = "REJECT" -> IF MixedActivity(v) THEN "YELLOW" ELSE "RED"
      [] v.status = "PASS"   -> IF PassReasons(v, prior) = {} /\ ~flagged THEN "GREEN" ELSE "YELLOW"
      [] OTHER               -> "YELLOW"

Classify(v, prior, flagged, escalated) ==
    IF escalated THEN "RED" ELSE ScreenLight(v, prior, flagged)

(* The last status logged for the latest earlier report; a verdict that    *)
(* names no report has no earlier one.                                     *)
PriorReportStatus(log, report) ==
    IF report = None THEN None
    ELSE LET earlier == {d \in DOMAIN log : d < report /\ log[d] # None}
         IN  IF earlier = {} THEN None
             ELSE log[CHOOSE d \in earlier : \A e \in earlier : e <= d]
=============================================================================
