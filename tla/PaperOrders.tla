----------------------------- MODULE PaperOrders -----------------------------
(***************************************************************************)
(* The path of a paper order from the approval queue through the broker to *)
(* the local ledger: approval_queue.py, paper_execution.py, the submitting *)
(* and reconciling halves of the broker adapters, and the booking half of  *)
(* portfolio_store.py.                                                     *)
(*                                                                         *)
(* Requests run concurrently (FastAPI runs its synchronous handlers in a   *)
(* thread pool, and execute_paper_order.py is a second process on the same *)
(* SQLite file), so a request is a handler h that holds what it has read   *)
(* and takes one step per database statement or broker call.  A SELECT     *)
(* runs outside any transaction and a write commits before the next step,  *)
(* except in sync_filled_order, whose INSERT and UPDATE share one          *)
(* transaction.  A handler may die between any two of its steps.           *)
(*                                                                         *)
(* One symbol in one account; prices, costs and messages are left out.     *)
(***************************************************************************)
EXTENDS Integers, FiniteSets, Functions

CONSTANTS
    Rows,           \* ids of the approval queue
    Handlers,       \* request handlers that may be active at once
    Orders,         \* broker order ids (bounds how many orders are accepted)
    Adapter,        \* the paper execution adapter: "alpaca" or "moomoo"
    Side, Qty,      \* what each row orders
    Opening,        \* shares already in the local ledger
    Reviews,        \* the verdicts /paper/approval may reach
    SettingsSeen,   \* the settings load_settings() may return
    FaultBudget,    \* bound on crashes, lost responses and failed queries
    None

Review == [owner : BOOLEAN, ready : BOOLEAN, audit : {"PASS", "REJECT"},
           shariah : {"PASS", "REJECT"}, risk : {"PASS", "REJECT"}]
Settings == [mode : BOOLEAN, enabled : BOOLEAN, routed : BOOLEAN]

ASSUME ConstantsAssumption ==
    /\ IsFiniteSet(Rows)
    /\ Adapter \in {"alpaca", "moomoo"}
    /\ Side \in [Rows -> {"BUY", "SELL"}]
    /\ Qty \in [Rows -> Nat \ {0}]
    /\ Opening \in Nat
    /\ Reviews \subseteq Review
    /\ SettingsSeen \subseteq Settings
    /\ FaultBudget \in Nat
    /\ None \notin Rows \cup Orders

VARIABLES
    verdict,            \* approval_queue: what record_approval stored for a row
    broker_submission,  \* approval_queue: the broker_submission column
    execution_status,   \* approval_queue: the execution_status column
    payload,            \* approval_queue: the broker's part of the JSON payload
    order_row,          \* broker: the row an order was placed for
    order_state,        \* broker: the order's status
    order_filled,       \* broker: the quantity filled so far
    fills,              \* paper_fills: the quantity booked for a row, 0 if none
    position,           \* paper_positions: the quantity held
    pc, job,            \* handlers: the next step and what the request has read
    faults              \* faults so far

queueVars == <<verdict, broker_submission, execution_status, payload>>
brokerVars == <<order_row, order_state, order_filled>>
ledgerVars == <<fills, position>>
vars == <<queueVars, brokerVars, ledgerVars, pc, job, faults>>

-----------------------------------------------------------------------------
(* Statuses. *)

WorkingStates == {"NEW", "PARTIALLY_FILLED", "PENDING_CANCEL"}
ClosedStates == {"CANCELED", "REJECTED", "EXPIRED"}
OrderStates == WorkingStates \cup ClosedStates \cup {"FILLED"}

PartialReadsFilled ==
    [s \in OrderStates |-> IF s \in {"FILLED", "PARTIALLY_FILLED"} THEN "BROKER_FILLED"
                                                                   ELSE "BROKER_SUBMITTED"]

(* The queue's name for each broker status. *)
lifecycle_status ==
    [NEW |-> "BROKER_SUBMITTED", PARTIALLY_FILLED |-> "BROKER_PARTIAL_FILL",
     PENDING_CANCEL |-> "BROKER_CANCELLED", CANCELED |-> "BROKER_CANCELLED",
     REJECTED |-> "BROKER_REJECTED", EXPIRED |-> "BROKER_EXPIRED",
     FILLED |-> "BROKER_FILLED"]

Lifecycles == {lifecycle_status[s] : s \in OrderStates}
ReconcileErrors == {"BROKER_RECONCILE_ERROR", "BROKER_ORDER_ID_MISSING"}
Refusals == {"NOT_APPROVED", "ALREADY_SUBMITTED", "TRADING_MODE_BLOCKED",
             "EXECUTION_LOCKED", "SHARIAH_GATE_FAILED", "RISK_GATE_FAILED",
             "APPROVAL_AUDIT_FAILED", "ADAPTER_NOT_CONFIGURED", "BROKER_NOT_READY",
             "PORTFOLIO_SELL_GATE_FAILED", "BROKER_REJECTED"}

Verdict == [approval_status : {"ABSENT", "REJECT", "PENDING_APPROVAL", "APPROVED_PAPER_READY"},
            owner : BOOLEAN, shariah : {"PASS", "REJECT"}, risk : {"PASS", "REJECT"},
            audit : {"PASS", "REJECT"}]
Reconciliation == [status : Lifecycles \cup ReconcileErrors \cup {"NONE"}, dealt : Nat]
Payload == [order : Orders \cup {None}, recon : Reconciliation]

NoReconciliation == [status |-> "NONE", dealt |-> 0]
NoPayload == [order |-> None, recon |-> NoReconciliation]

Steps == {"idle", "probe", "send", "refuse", "keep", "kept",
          "ask", "note", "noted", "sync", "check", "book"}
Job == [row : Rows \cup {None}, status : Refusals \cup {"NONE"},
        order : Orders \cup {None}, recon : Reconciliation, seen : Payload]
NoJob == [row |-> None, status |-> "NONE", order |-> None,
          recon |-> NoReconciliation, seen |-> NoPayload]

TypeOK ==
    /\ verdict \in [Rows -> Verdict]
    /\ broker_submission \in [Rows -> BOOLEAN]
    /\ execution_status \in
           [Rows -> Refusals \cup Lifecycles \cup ReconcileErrors \cup {"NOT_EXECUTED"}]
    /\ payload \in [Rows -> Payload]
    /\ order_row \in [Orders -> Rows \cup {None}]
    /\ order_state \in [Orders -> OrderStates]
    /\ order_filled \in [Orders -> Nat]
    /\ fills \in [Rows -> Nat]
    /\ position \in Nat
    /\ pc \in [Handlers -> Steps]
    /\ job \in [Handlers -> Job]
    /\ faults \in 0..FaultBudget

Init ==
    /\ verdict = [r \in Rows |-> [approval_status |-> "ABSENT", owner |-> FALSE,
                         shariah |-> "REJECT", risk |-> "REJECT", audit |-> "REJECT"]]
    /\ broker_submission = [r \in Rows |-> FALSE]
    /\ execution_status = [r \in Rows |-> "NOT_EXECUTED"]
    /\ payload = [r \in Rows |-> NoPayload]
    /\ order_row = [o \in Orders |-> None]
    /\ order_state = [o \in Orders |-> "NEW"]
    /\ order_filled = [o \in Orders |-> 0]
    /\ fills = [r \in Rows |-> 0]
    /\ position = Opening
    /\ pc = [h \in Handlers |-> "idle"]
    /\ job = [h \in Handlers |-> NoJob]
    /\ faults = 0

(* Handler h is now about to take step s, holding j. *)
Goto(h, s, j) ==
    /\ pc' = [pc EXCEPT ![h] = s]
    /\ job' = [job EXCEPT ![h] = j]

(* Handler h answers its request. *)
Return(h) == Goto(h, "idle", NoJob)

Fault == /\ faults < FaultBudget
         /\ faults' = faults + 1
NoFault == UNCHANGED faults

-----------------------------------------------------------------------------
(* POST /paper/approval: the row record_approval writes.                   *)

OwnerNotAsked(v) ==
    IF ~v.ready \/ v.risk # "PASS" \/ v.shariah # "PASS" THEN "REJECT"
    ELSE "APPROVED_PAPER_READY"

(* The endpoint's own checks, then approve_candidate's. *)
ReviewStatus(v) ==
    IF ~v.ready \/ v.risk # "PASS" \/ v.shariah # "PASS" THEN "REJECT"
    ELSE IF ~v.owner THEN "PENDING_APPROVAL" ELSE "APPROVED_PAPER_READY"

RecordApproval(r) ==
    /\ verdict[r].approval_status = "ABSENT"
    /\ \E v \in Reviews :
         verdict' = [verdict EXCEPT ![r] =
             [approval_status |-> ReviewStatus(v), owner |-> v.owner,
              shariah |-> v.shariah, risk |-> v.risk, audit |-> v.audit]]
    /\ UNCHANGED <<broker_submission, execution_status, payload,
                   brokerVars, ledgerVars, pc, job, faults>>

-----------------------------------------------------------------------------
(* POST /paper/execute: execute_paper_order.                               *)

(* The gates on the row as it was read, in the order they are tried. *)
Gates(r, s) ==
    << [ok |-> verdict[r].approval_status = "APPROVED_PAPER_READY", refusal |-> "NOT_APPROVED"],
       [ok |-> ~broker_submission[r], refusal |-> "ALREADY_SUBMITTED"],
       [ok |-> s.mode, refusal |-> "TRADING_MODE_BLOCKED"],
       [ok |-> s.enabled, refusal |-> "EXECUTION_LOCKED"],
       [ok |-> verdict[r].shariah = "PASS", refusal |-> "SHARIAH_GATE_FAILED"],
       [ok |-> verdict[r].risk = "PASS", refusal |-> "RISK_GATE_FAILED"],
       [ok |-> verdict[r].audit = "PASS", refusal |-> "APPROVAL_AUDIT_FAILED"],
       [ok |-> s.routed, refusal |-> "ADAPTER_NOT_CONFIGURED"] >>

FailedGates(r, s) == {i \in DOMAIN Gates(r, s) : ~Gates(r, s)[i].ok}

ExecutePasses(h, r) ==
    /\ pc[h] = "idle"
    /\ verdict[r].approval_status # "ABSENT"
    /\ \E s \in SettingsSeen : FailedGates(r, s) = {}
    /\ Goto(h, "probe", [NoJob EXCEPT !.row = r])
    /\ NoFault
    /\ UNCHANGED <<queueVars, brokerVars, ledgerVars>>

(* The first gate that fails names the refusal; an order already submitted *)
(* is reported without writing anything.                                   *)
ExecuteFails(h, r) ==
    /\ pc[h] = "idle"
    /\ verdict[r].approval_status # "ABSENT"
    /\ \E s \in SettingsSeen : \E i \in FailedGates(r, s) :
         /\ \A j \in FailedGates(r, s) : i <= j
         /\ Gates(r, s)[i].refusal # "ALREADY_SUBMITTED"
         /\ Goto(h, "refuse", [NoJob EXCEPT !.row = r, !.status = Gates(r, s)[i].refusal])
    /\ NoFault
    /\ UNCHANGED <<queueVars, brokerVars, ledgerVars>>

(* validate_sell_reduction: a sale may not exceed the local position. *)
SellCovered(r) == Side[r] = "SELL" => Qty[r] <= position

BrokerNotReady(h) ==
    /\ pc[h] = "probe"
    /\ Fault
    /\ Goto(h, "refuse", [job[h] EXCEPT !.status = "BROKER_NOT_READY"])
    /\ UNCHANGED <<queueVars, brokerVars, ledgerVars>>

Probe(h) ==
    /\ pc[h] = "probe"
    /\ IF SellCovered(job[h].row)
       THEN Goto(h, "send", job[h])
       ELSE Goto(h, "refuse", [job[h] EXCEPT !.status = "PORTFOLIO_SELL_GATE_FAILED"])
    /\ NoFault
    /\ UNCHANGED <<queueVars, brokerVars, ledgerVars>>

(* The idempotency key an order carries: alpaca_paper_adapter sends         *)
(* client_order_id amanah-queue-<id>; moomoo_paper_adapter sends only a     *)
(* free-text remark, which the broker does not compare.                     *)
NoClientOrderId(r) == None

ClientOrderId(r) == IF Adapter = "alpaca" THEN r ELSE None

(* External: Alpaca refuses a client_order_id it has seen before. *)
KeyTaken(r) == ClientOrderId(r) # None /\ \E o \in Orders : order_row[o] = ClientOrderId(r)

(* External: the broker accepts an order for row r under the new id o. *)
Accept(r, o) ==
    /\ order_row[o] = None
    /\ ~KeyTaken(r)
    /\ order_row' = [order_row EXCEPT ![o] = r]
    /\ UNCHANGED <<order_state, order_filled>>

SendAccepted(h, o) ==
    /\ pc[h] = "send"
    /\ Accept(job[h].row, o)
    /\ Goto(h, "keep", [job[h] EXCEPT !.order = o])
    /\ NoFault
    /\ UNCHANGED <<queueVars, ledgerVars>>

(* The broker accepted, but its answer carries no readable order id. *)
SendUnparsed(h, o) ==
    /\ pc[h] = "send"
    /\ Fault
    /\ Accept(job[h].row, o)
    /\ Goto(h, "keep", job[h])
    /\ UNCHANGED <<queueVars, ledgerVars>>

(* The broker accepted and its answer was lost: the adapter cannot tell a  *)
(* timeout from a refusal and reports BROKER_REJECTED.                     *)
SendLost(h, o) ==
    /\ pc[h] = "send"
    /\ Fault
    /\ Accept(job[h].row, o)
    /\ Goto(h, "refuse", [job[h] EXCEPT !.status = "BROKER_REJECTED"])
    /\ UNCHANGED <<queueVars, ledgerVars>>

SendRefused(h) ==
    /\ pc[h] = "send"
    /\ Goto(h, "refuse", [job[h] EXCEPT !.status = "BROKER_REJECTED"])
    /\ NoFault
    /\ UNCHANGED <<queueVars, brokerVars, ledgerVars>>

(* update_execution_status: writes whatever the row says by now. *)
Refuse(h) ==
    /\ pc[h] = "refuse"
    /\ execution_status' = [execution_status EXCEPT ![job[h].row] = job[h].status]
    /\ Return(h)
    /\ NoFault
    /\ UNCHANGED <<verdict, broker_submission, payload, brokerVars, ledgerVars>>

(* record_broker_submission reads the payload, then writes it back whole. *)
KeepRead(h) ==
    /\ pc[h] = "keep"
    /\ Goto(h, "kept", [job[h] EXCEPT !.seen = payload[job[h].row]])
    /\ NoFault
    /\ UNCHANGED <<queueVars, brokerVars, ledgerVars>>

KeepWrite(h) ==
    LET r == job[h].row IN
    /\ pc[h] = "kept"
    /\ broker_submission' = [broker_submission EXCEPT ![r] = TRUE]
    /\ execution_status' = [execution_status EXCEPT ![r] = "BROKER_SUBMITTED"]
    /\ payload' = [payload EXCEPT ![r] = [job[h].seen EXCEPT !.order = job[h].order]]
    /\ Return(h)
    /\ NoFault
    /\ UNCHANGED <<verdict, brokerVars, ledgerVars>>

-----------------------------------------------------------------------------
(* POST /paper/reconcile: reconcile_submitted_paper_order, then            *)
(* sync_filled_order when the reconciliation it recorded is a fill.        *)

ReconcileOnce(h, r) ==
    /\ pc[h] = "idle"
    /\ broker_submission[r]
    /\ payload[r].recon.status = "NONE"
    /\ Goto(h, "ask", [NoJob EXCEPT !.row = r, !.order = payload[r].order])
    /\ NoFault
    /\ UNCHANGED <<queueVars, brokerVars, ledgerVars>>

ReconcileLoad(h, r) ==
    /\ pc[h] = "idle"
    /\ broker_submission[r]
    /\ Goto(h, "ask", [NoJob EXCEPT !.row = r, !.order = payload[r].order])
    /\ NoFault
    /\ UNCHANGED <<queueVars, brokerVars, ledgerVars>>

ReconcileAnswer(h) ==
    LET o == job[h].order IN
    /\ pc[h] = "ask"
    /\ o # None
    /\ Goto(h, "note", [job[h] EXCEPT !.recon =
           [status |-> lifecycle_status[order_state[o]], dealt |-> order_filled[o]]])
    /\ NoFault
    /\ UNCHANGED <<queueVars, brokerVars, ledgerVars>>

(* A query that cannot be made or fails is recorded like an answer. *)
ReconcileNoId(h) ==
    /\ pc[h] = "ask"
    /\ job[h].order = None
    /\ Goto(h, "note", [job[h] EXCEPT !.recon.status = "BROKER_ORDER_ID_MISSING"])
    /\ NoFault
    /\ UNCHANGED <<queueVars, brokerVars, ledgerVars>>

ReconcileError(h) ==
    /\ pc[h] = "ask"
    /\ job[h].order # None
    /\ Fault
    /\ Goto(h, "note", [job[h] EXCEPT !.recon.status = "BROKER_RECONCILE_ERROR"])
    /\ UNCHANGED <<queueVars, brokerVars, ledgerVars>>

(* record_broker_reconciliation reads the payload, then writes it back. *)
NoteRead(h) ==
    /\ pc[h] = "note"
    /\ Goto(h, "noted", [job[h] EXCEPT !.seen = payload[job[h].row]])
    /\ NoFault
    /\ UNCHANGED <<queueVars, brokerVars, ledgerVars>>

FreshPayload(j) == [NoPayload EXCEPT !.recon = j.recon]

(* The payload a reconciliation writes back. *)
NotedPayload(j) == [j.seen EXCEPT !.recon = j.recon]

NoteWrite(h) ==
    LET r == job[h].row IN
    /\ pc[h] = "noted"
    /\ execution_status' = [execution_status EXCEPT ![r] = job[h].recon.status]
    /\ payload' = [payload EXCEPT ![r] = NotedPayload(job[h])]
    /\ IF job[h].recon.status = "BROKER_FILLED"
       THEN Goto(h, "sync", [NoJob EXCEPT !.row = r])
       ELSE Return(h)
    /\ NoFault
    /\ UNCHANGED <<verdict, broker_submission, brokerVars, ledgerVars>>

(* The row is read again: another reconciliation may have replaced the fill. *)
SyncLoad(h) ==
    LET recon == payload[job[h].row].recon IN
    /\ pc[h] = "sync"
    /\ IF recon.status = "BROKER_FILLED"
       THEN Goto(h, "check", [job[h] EXCEPT !.recon = recon])
       ELSE Return(h)
    /\ NoFault
    /\ UNCHANGED <<queueVars, brokerVars, ledgerVars>>

(* ALREADY_SYNCED, INVALID_FILL and INVALID_SELL_FILL, each read before    *)
(* the transaction that books the fill begins.                             *)
Bookable(h) ==
    LET r == job[h].row
        quantity == job[h].recon.dealt IN
    /\ fills[r] = 0
    /\ quantity > 0
    /\ Side[r] = "SELL" => quantity <= position

SyncCheck(h) ==
    /\ pc[h] = "check"
    /\ IF Bookable(h) THEN Goto(h, "book", job[h]) ELSE Return(h)
    /\ NoFault
    /\ UNCHANGED <<queueVars, brokerVars, ledgerVars>>

AlwaysInsert(r) == TRUE

(* UNIQUE(queue_id) on paper_fills. *)
InsertAllowed(r) == fills[r] = 0

SidesSwapped(r, held, quantity) == IF Side[r] = "SELL" THEN held + quantity ELSE held - quantity

(* apply_fill_to_position: a sale is clamped at an empty position. *)
PositionAfter(r, held, quantity) ==
    IF Side[r] = "BUY" THEN held + quantity
    ELSE IF quantity <= held THEN held - quantity ELSE 0

(* insert_paper_fill and apply_fill_to_position in one transaction; a      *)
(* second fill for the row raises IntegrityError and the request ends.     *)
SyncBook(h) ==
    LET r == job[h].row
        quantity == job[h].recon.dealt IN
    /\ pc[h] = "book"
    /\ IF InsertAllowed(r)
       THEN /\ fills' = [fills EXCEPT ![r] = quantity]
            /\ position' = PositionAfter(r, position, quantity)
       ELSE UNCHANGED ledgerVars
    /\ Return(h)
    /\ NoFault
    /\ UNCHANGED <<queueVars, brokerVars>>

-----------------------------------------------------------------------------
(* The process dies, or the request fails on a locked database: what it    *)
(* had read is gone and what it had committed stays.                       *)
Crash(h) ==
    /\ pc[h] # "idle"
    /\ Fault
    /\ Return(h)
    /\ UNCHANGED <<queueVars, brokerVars, ledgerVars>>

(* External: the broker works its orders. *)
Working(o) == order_row[o] # None /\ order_state[o] \in WorkingStates

BrokerFill(o) ==
    /\ Working(o)
    /\ \E n \in 1..Qty[order_row[o]] :
         /\ order_filled[o] < n
         /\ order_filled' = [order_filled EXCEPT ![o] = n]
         /\ order_state' = [order_state EXCEPT ![o] =
                IF n = Qty[order_row[o]] THEN "FILLED" ELSE "PARTIALLY_FILLED"]
    /\ UNCHANGED <<queueVars, order_row, ledgerVars, pc, job, faults>>

BrokerPendCancel(o) ==
    /\ Working(o)
    /\ order_state' = [order_state EXCEPT ![o] = "PENDING_CANCEL"]
    /\ UNCHANGED <<queueVars, order_row, order_filled, ledgerVars, pc, job, faults>>

BrokerClose(o) ==
    /\ Working(o)
    /\ \E s \in ClosedStates : order_state' = [order_state EXCEPT ![o] = s]
    /\ UNCHANGED <<queueVars, order_row, order_filled, ledgerVars, pc, job, faults>>

-----------------------------------------------------------------------------
Execute(h) ==
    \/ \E r \in Rows : ExecutePasses(h, r) \/ ExecuteFails(h, r)
    \/ BrokerNotReady(h) \/ Probe(h)
    \/ \E o \in Orders : SendAccepted(h, o) \/ SendUnparsed(h, o) \/ SendLost(h, o)
    \/ SendRefused(h) \/ Refuse(h)
    \/ KeepRead(h) \/ KeepWrite(h)

Reconcile(h) ==
    \/ \E r \in Rows : ReconcileLoad(h, r)
    \/ ReconcileAnswer(h) \/ ReconcileNoId(h) \/ ReconcileError(h)
    \/ NoteRead(h) \/ NoteWrite(h)
    \/ SyncLoad(h) \/ SyncCheck(h) \/ SyncBook(h)

Broker(o) == BrokerFill(o) \/ BrokerPendCancel(o) \/ BrokerClose(o)

Next ==
    \/ \E r \in Rows : RecordApproval(r)
    \/ \E h \in Handlers : Execute(h) \/ Reconcile(h) \/ Crash(h)
    \/ \E o \in Orders : Broker(o)

Spec == Init /\ [][Next]_vars

(* Each step of an active handler is eventually taken (a request has its   *)
(* own thread, and every wait in it has a timeout), and an owner who sees  *)
(* a submitted order keeps asking for its reconciliation.                  *)
Progress(h) == pc[h] # "idle" /\ (Execute(h) \/ Reconcile(h))

Fairness ==
    /\ \A h \in Handlers : WF_vars(Progress(h))
    /\ \A r \in Rows : SF_vars(\E h \in Handlers : ReconcileLoad(h, r))

FairSpec == Spec /\ Fairness

-----------------------------------------------------------------------------
(* Properties. *)

(* With a client_order_id the broker never holds two orders for one row,   *)
(* however many execute requests overlap, lose their answer or are retried.*)
OneOrderPerRow ==
    \A o, p \in Orders : order_row[o] # None /\ order_row[o] = order_row[p] => o = p

(* No order reaches the broker for a row that the owner did not approve or *)
(* whose own verdicts, taken again at approval time, did not all pass.     *)
OnlyClearedOrders ==
    \A o \in Orders : order_row[o] # None =>
        LET v == verdict[order_row[o]] IN
        v.owner /\ v.shariah = "PASS" /\ v.risk = "PASS" /\ v.audit = "PASS"

(* The ledger books a row only for an order of that row which the broker   *)
(* has filled, and books all of it: overlapping reconciliations, stale     *)
(* answers and crashes never book a partial or cancelled order.            *)
BookedIsFilled ==
    \A r \in Rows : fills[r] # 0 =>
        /\ fills[r] = Qty[r]
        /\ \E o \in Orders : order_row[o] = r /\ order_state[o] = "FILLED"

(* The order id a row was recorded with is that of its own order and       *)
(* survives every later rewrite of the payload.                            *)
OrderNeverForgotten ==
    [][\A r \in Rows : payload[r].order # None =>
          payload'[r].order = payload[r].order /\ order_row[payload[r].order] = r]_vars

Booked(side) == SumFunctionOnSet(fills, {r \in Rows : Side[r] = side})

(* The booked fills account for the position: no fill is applied twice or  *)
(* lost when requests book at once.  A sale that the clamp cuts short only *)
(* raises the position above what the fills leave of it.                   *)
PositionMatchesFills ==
    /\ position <= Opening + Booked("BUY")
    /\ position >= Opening + Booked("BUY") - Booked("SELL")

(* A sale of more than the ledger holds is refused as INVALID_SELL_FILL, so *)
(* the shares booked as sold are shares that were held.                    *)
SalesAreCovered == Booked("SELL") <= Opening + Booked("BUY")

(* A recorded purchase the broker fills is eventually booked, if only      *)
(* finitely many requests fail and the owner keeps reconciling.            *)
FillsAreBooked ==
    \A r \in Rows : \A o \in Orders :
        (Side[r] = "BUY" /\ payload[r].order = o /\ order_state[o] = "FILLED")
            ~> (fills[r] = Qty[r])

StageOf(r) ==
    IF \A o \in Orders : order_row[o] # r THEN "QUEUED"
    ELSE LET s == order_state[CHOOSE o \in Orders : order_row[o] = r] IN
         IF s = "FILLED" THEN "FILLED" ELSE IF s \in ClosedStates THEN "CLOSED" ELSE "WORKING"

Promise == INSTANCE OrderPromise WITH
    stage <- [r \in Rows |-> StageOf(r)],
    booked <- fills

(* The whole path keeps the promise of OrderPromise. *)
PromiseKept == Promise!Spec

=============================================================================
