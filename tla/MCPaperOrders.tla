---------------------------- MODULE MCPaperOrders ----------------------------
(***************************************************************************)
(* Instances of PaperOrders: a purchase that can fill in two parts and a   *)
(* sale, or two sales, with two handlers and the verdicts and settings     *)
(* that matter.                                                            *)
(***************************************************************************)
EXTENDS PaperOrders, TLC

CONSTANTS b1, s1, s2

TwoRows == {b1, s1}
OnePurchase == {b1}
TwoSales == {s1, s2}
SideOf == [r \in Rows |-> IF r = b1 THEN "BUY" ELSE "SELL"]
QtyOf == [r \in Rows |-> IF r = b1 THEN 2 ELSE 1]

Cleared == [owner |-> TRUE, ready |-> TRUE, audit |-> "PASS", shariah |-> "PASS", risk |-> "PASS"]
Unanswered == [Cleared EXCEPT !.owner = FALSE]
AuditFails == [Cleared EXCEPT !.audit = "REJECT"]
ShariahFails == [Cleared EXCEPT !.shariah = "REJECT"]

ClearedOnly == {Cleared}
MainReviews == {Cleared, Unanswered, AuditFails}

Enabled == [mode |-> TRUE, enabled |-> TRUE, routed |-> TRUE]
Locked == [Enabled EXCEPT !.enabled = FALSE]

AlwaysEnabled == {Enabled}
Toggled == {Enabled, Locked}

Symmetric == Permutations(Handlers) \cup Permutations(Orders)
=============================================================================
