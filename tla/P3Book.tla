-------------------------------- MODULE P3Book --------------------------------
(***************************************************************************)
(* The Phase 3 paper book of p3_decision_engine.py and                     *)
(* p3_portfolio_engine.py: orders that are proposed, approved and executed *)
(* against the book's own cash and position, by requests that run in       *)
(* parallel on connections of their own.                                   *)
(*                                                                         *)
(* execute_order is written as one transaction, but update_order_status    *)
(* calls ensure_p3_tables, whose commit() ends it: the cash, the fill and  *)
(* the position are committed before the order is marked EXECUTED.  The    *)
(* steps below are the commits and the reads the code really makes.        *)
(*                                                                         *)
(* One portfolio and one ticker; quantities are in board lots.             *)
(***************************************************************************)
EXTENDS Integers, Sequences, SequencesExt

CONSTANTS
    Orders,         \* ids of p3_portfolio_orders
    Workers,        \* requests that may be active at once
    Prices,         \* closes the market data may return
    OpeningCash,    \* the portfolio's initial_cash
    OpeningShares,  \* the position at the start
    FaultBudget,    \* bound on requests that die
    None

ASSUME BookAssumption ==
    /\ IsFiniteSet(Orders)
    /\ Prices \subseteq Nat \ {0}
    /\ OpeningCash \in Nat /\ OpeningShares \in Nat /\ FaultBudget \in Nat
    /\ None \notin Orders

VARIABLES
    orders,         \* p3_portfolio_orders: status, side and quantity
    current_cash,   \* p3_portfolios
    quantity,       \* p3_portfolio_positions
    fills,          \* p3_portfolio_fills: the prices at which an order was filled
    pc, job,        \* requests: the next step and what the request has read
    faults          \* requests that died

tables == <<orders, current_cash, quantity, fills>>
vars == <<tables, pc, job, faults>>

Sides == {"BUY", "SELL"}
Statuses == {"NONE", "PROPOSED", "APPROVED", "REJECTED", "EXECUTED"}
Steps == {"idle", "insert", "review", "promote", "demote", "appraise", "fund", "book", "close"}

NoOrder == [status |-> "NONE", side |-> "BUY", size |-> 0]
NoJob == [order |-> None, side |-> "BUY", size |-> 0, price |-> 0, new_cash |-> 0]

TypeOK ==
    /\ orders \in [Orders -> [status : Statuses, side : Sides, size : Nat]]
    /\ current_cash \in Int
    /\ quantity \in Int
    /\ fills \in [Orders -> Seq(Prices)]
    /\ pc \in [Workers -> Steps]
    /\ job \in [Workers -> [order : Orders \cup {None}, side : Sides, size : Nat,
                            price : Prices \cup {0}, new_cash : Int]]
    /\ faults \in 0..FaultBudget

Init ==
    /\ orders = [o \in Orders |-> NoOrder]
    /\ current_cash = OpeningCash
    /\ quantity = OpeningShares
    /\ fills = [o \in Orders |-> <<>>]
    /\ pc = [w \in Workers |-> "idle"]
    /\ job = [w \in Workers |-> NoJob]
    /\ faults = 0

Goto(w, s, j) ==
    /\ pc' = [pc EXCEPT ![w] = s]
    /\ job' = [job EXCEPT ![w] = j]
    /\ UNCHANGED faults

Return(w) == Goto(w, "idle", NoJob)

-----------------------------------------------------------------------------
(* authoritative_revalidation: the most an order may trade at price p now. *)
(* A purchase may be held to less than the cash by the percentage caps.    *)
Maximum(side, p) == IF side = "SELL" THEN quantity ELSE current_cash \div p

(* The size propose_order computes: a sale closes the whole position. *)
ProposedSizes(side, p) ==
    IF side = "SELL" THEN {quantity} \ {0} ELSE 1..Maximum(side, p)

ProposeReview(w, side) ==
    /\ pc[w] = "idle"
    /\ \E p \in Prices : \E n \in ProposedSizes(side, p) :
         Goto(w, "insert", [NoJob EXCEPT !.side = side, !.size = n])
    /\ UNCHANGED tables

ProposeInsert(w, o) ==
    /\ pc[w] = "insert"
    /\ orders[o].status = "NONE"
    /\ orders' = [orders EXCEPT ![o] =
           [status |-> "PROPOSED", side |-> job[w].side, size |-> job[w].size]]
    /\ Return(w)
    /\ UNCHANGED <<current_cash, quantity, fills>>

(* approve_order: the status is read, then the order is revalidated. *)
ApproveLoad(w, o) ==
    /\ pc[w] = "idle"
    /\ orders[o].status = "PROPOSED"
    /\ Goto(w, "review", [NoJob EXCEPT !.order = o])
    /\ UNCHANGED tables

ApprovePasses(w) ==
    /\ pc[w] = "review"
    /\ LET order == orders[job[w].order] IN
         \E p \in Prices : order.size <= Maximum(order.side, p)
    /\ Goto(w, "promote", job[w])
    /\ UNCHANGED tables

(* Any gate may refuse: the screen, the market data or a risk limit. *)
ApproveBlocked(w) ==
    /\ pc[w] = "review"
    /\ Goto(w, "demote", job[w])
    /\ UNCHANGED tables

MoveUnchecked(o, from, to) == orders' = [orders EXCEPT ![o].status = to]

(* update_order_status: a compare-and-set, committed by get_order. *)
Move(o, from, to) ==
    IF orders[o].status = from THEN orders' = [orders EXCEPT ![o].status = to]
                               ELSE UNCHANGED orders

Promote(w) ==
    /\ pc[w] = "promote"
    /\ Move(job[w].order, "PROPOSED", "APPROVED")
    /\ Return(w)
    /\ UNCHANGED <<current_cash, quantity, fills>>

MarkedBlocked(w) ==
    /\ pc[w] = "demote"
    /\ Move(job[w].order, "PROPOSED", "BLOCKED")
    /\ Return(w)
    /\ UNCHANGED <<current_cash, quantity, fills>>

Demote(w) ==
    /\ pc[w] = "demote"
    /\ Move(job[w].order, "PROPOSED", "REJECTED")
    /\ Return(w)
    /\ UNCHANGED <<current_cash, quantity, fills>>

-----------------------------------------------------------------------------
(* execute_order. *)

ExecuteLoad(w, o) ==
    /\ pc[w] = "idle"
    /\ orders[o].status = "APPROVED"
    /\ Goto(w, "appraise", [NoJob EXCEPT !.order = o])
    /\ UNCHANGED tables

ExecuteReview(w) ==
    /\ pc[w] = "appraise"
    /\ LET order == orders[job[w].order] IN
         \E p \in {q \in Prices : order.size <= Maximum(order.side, q)} :
           Goto(w, "fund", [job[w] EXCEPT !.side = order.side, !.size = order.size, !.price = p])
    /\ UNCHANGED tables

ExecuteBlocked(w) ==
    /\ pc[w] = "appraise"
    /\ Return(w)
    /\ UNCHANGED tables

CashAfter(j, cash) == IF j.side = "BUY" THEN cash - j.size * j.price ELSE cash + j.size * j.price

Overdrawn(cash) == FALSE

Unaffordable(cash) == cash < 0

(* The cash is read before the transaction that writes it begins. *)
ExecuteFund(w) ==
    LET new_cash == CashAfter(job[w], current_cash) IN
    /\ pc[w] = "fund"
    /\ IF Unaffordable(new_cash) THEN Return(w)
       ELSE Goto(w, "book", [job[w] EXCEPT !.new_cash = new_cash])
    /\ UNCHANGED tables

SalesForgotten(j, held) == IF j.side = "BUY" THEN held + j.size ELSE held

QuantityAfter(j, held) == IF j.side = "BUY" THEN held + j.size ELSE held - j.size

ShortSaleIgnored(w) ==
    LET j == job[w] IN
    /\ pc[w] = "book"
    /\ IF j.side = "SELL" /\ quantity < j.size
       THEN /\ Goto(w, "close", j)
            /\ UNCHANGED tables
       ELSE /\ current_cash' = j.new_cash
            /\ fills' = [fills EXCEPT ![j.order] = Append(@, j.price)]
            /\ quantity' = QuantityAfter(j, quantity)
            /\ Goto(w, "close", j)
            /\ UNCHANGED orders

(* The first transaction: cash, fill and position.  A sale that finds too  *)
(* few shares rolls it back.                                               *)
ExecuteBook(w) ==
    LET j == job[w] IN
    /\ pc[w] = "book"
    /\ IF j.side = "SELL" /\ quantity < j.size
       THEN /\ Return(w)
            /\ UNCHANGED tables
       ELSE /\ current_cash' = j.new_cash
            /\ fills' = [fills EXCEPT ![j.order] = Append(@, j.price)]
            /\ quantity' = QuantityAfter(j, quantity)
            /\ Goto(w, "close", j)
            /\ UNCHANGED orders

(* The second transaction: the order is marked, if it is still APPROVED. *)
ExecuteClose(w) ==
    /\ pc[w] = "close"
    /\ Move(job[w].order, "APPROVED", "EXECUTED")
    /\ Return(w)
    /\ UNCHANGED <<current_cash, quantity, fills>>

(* The request dies, or finds the database locked, between two commits. *)
Die(w) ==
    /\ pc[w] # "idle"
    /\ faults < FaultBudget
    /\ faults' = faults + 1
    /\ pc' = [pc EXCEPT ![w] = "idle"]
    /\ job' = [job EXCEPT ![w] = NoJob]
    /\ UNCHANGED tables

-----------------------------------------------------------------------------
Work(w) ==
    \/ \E side \in Sides : ProposeReview(w, side)
    \/ \E o \in Orders : ProposeInsert(w, o) \/ ApproveLoad(w, o) \/ ExecuteLoad(w, o)
    \/ ApprovePasses(w) \/ ApproveBlocked(w) \/ Promote(w) \/ Demote(w)
    \/ ExecuteReview(w) \/ ExecuteBlocked(w) \/ ExecuteFund(w)
    \/ ExecuteBook(w) \/ ExecuteClose(w)

Next == \E w \in Workers : Work(w) \/ Die(w)

Spec == Init /\ [][Next]_vars

-----------------------------------------------------------------------------
(* Properties. *)

(* Overlapping purchases never overdraw the stored cash and overlapping    *)
(* sales never leave a short position, although each was sized on a        *)
(* reading of the book that another request may have overtaken.            *)
SolventBook == current_cash >= 0 /\ quantity >= 0

(* The book is only ever traded for an order that the owner approved, and  *)
(* an order that was filled is never turned into a rejected one.           *)
FilledWasApproved ==
    \A o \in Orders : fills[o] # <<>> => orders[o].status \in {"APPROVED", "EXECUTED"}

(* An order is marked EXECUTED only once its fill is in the book. *)
ExecutedIsFilled ==
    \A o \in Orders : orders[o].status = "EXECUTED" => fills[o] # <<>>

(* The status of an order and its fills agree between the two transactions *)
(* of an execution, whichever request makes them and wherever it dies.     *)
FilledAsOrdered == FilledWasApproved /\ ExecutedIsFilled

Successors == [NONE |-> {"PROPOSED"}, PROPOSED |-> {"APPROVED", "REJECTED"},
               APPROVED |-> {"EXECUTED"}, REJECTED |-> {}, EXECUTED |-> {}]

(* Approvals, rejections and executions that race never undo one another:  *)
(* a status only moves along the documented state machine.                 *)
StatusOnlyAdvances ==
    [][\A o \in Orders : orders'[o].status # orders[o].status =>
          orders'[o].status \in Successors[orders[o].status]]_vars

(* What the fills of the book add up to, in shares and in cash. *)
Signed(o, n) == IF orders[o].side = "BUY" THEN n ELSE -n
SharesFilled == [o \in Orders |-> Signed(o, orders[o].size * Len(fills[o]))]
CashFilled ==
    [o \in Orders |-> Signed(o, orders[o].size * SumFunctionOnSet(fills[o], DOMAIN fills[o]))]

(* The position is always what the fills add up to, even when an order is  *)
(* filled twice: it is read inside the transaction that writes it.         *)
PositionMatchesFills == quantity = OpeningShares + SumFunctionOnSet(SharesFilled, Orders)

(* One fill per order: "Double execution (DB transactions prevent it)." *)
OneFillPerOrder == \A o \in Orders : Len(fills[o]) <= 1

(* The cash is what the fills leave of it. *)
CashMatchesFills == current_cash = OpeningCash - SumFunctionOnSet(CashFilled, Orders)

(* "Execution is fully atomic": no overlap of executions, and no crash in  *)
(* one, both fills an order twice and loses the cash of a fill.  It is     *)
(* stated so that its counterexample breaks both promises at once.         *)
AtomicInPart == OneFillPerOrder \/ CashMatchesFills

=============================================================================
