------------------------------ MODULE DeskProofs ------------------------------
(***************************************************************************)
(* Proofs about Desk for every set of symbols, requests and orders, every  *)
(* price and every limit; and, at the end, about what the watchlist tells   *)
(* and how an option is sized, which need no behaviour of the desk.        *)
(***************************************************************************)
EXTENDS Desk, FiniteSums, Sequences

CONSTANTS None, ShortWindow, LongWindow, BreakoutWindow, SharesPerContract, Policy

Quant == INSTANCE QuantAgent
Option == INSTANCE OptionStrategy

(* Types. *)

LEMMA RequestType ==
    /\ NoRequest \in Request
    /\ NoRequest.pc = "new" /\ NoRequest.status = "NONE"
    /\ \A q \in Request : q.order \in Order
<1>1. (CHOOSE o \in Orders : TRUE) \in Orders
  BY DeskAssumption
<1>2. 0 \in 0..MaxDay /\ 0 \in Nat /\ 0 \in Loss
  BY DeskAssumption DEF Loss
<1>3. /\ "new" \in Steps /\ "UNKNOWN" \in Accounts
      /\ "UNKNOWN" \in Rulings /\ "NONE" \in RowStatuses
  BY DEF Steps, Accounts, Rulings, RowStatuses
<1> DEFINE o == CHOOSE o \in Orders : TRUE
<1>4. o \in Orders
  BY <1>1
<1> HIDE DEF o
<1>5. NoRequest \in Request
  BY <1>2, <1>3, <1>4 DEF NoRequest, Request, o
<1> QED
  BY <1>5, DeskAssumption DEF NoRequest, Request

LEMMA OrderType ==
    ASSUME TypeOK, NEW r \in Requests
    PROVE  LET order == request[r].order IN
           /\ order \in Orders /\ order.symbol \in Symbols /\ order.side \in {"BUY", "SELL"}
           /\ order.quantity \in Nat /\ order.quantity > 0
           /\ order.price \in Nat /\ order.price > 0
           /\ order.asset_class \in {"equity", "option"}
<1>1. request[r].order \in Orders
  BY DEF TypeOK, Request
<1>2. request[r].order \in Order
  BY <1>1, DeskAssumption
<1>3. \A n \in Prices \cup Quantities : n \in Nat /\ n > 0
  BY DeskAssumption
<1> QED
  BY <1>1, <1>2, <1>3 DEF Order

LEMMA LossType ==
    ASSUME TypeOK, NEW baseline \in Money
    PROVE  PeriodLoss(realised, baseline) \in Loss
BY DeskAssumption DEF TypeOK, Money, Loss, PeriodLoss, Larger

(* A fill leaves neither a short position nor a negative cost, and what    *)
(* was worth no more than it cost at the price of the fill still is.       *)
LEMMA FillType ==
    ASSUME NEW p \in [quantity : Nat, cost : Nat], NEW side \in {"BUY", "SELL"},
           NEW n \in Nat, NEW m \in Nat
    PROVE  /\ Filled(p, side, n, m) \in [quantity : Nat, cost : Nat]
           /\ Profit(p, side, n, m) \in Int
           /\ p.quantity * m <= p.cost
                => Filled(p, side, n, m).quantity * m <= Filled(p, side, n, m).cost
           /\ side = "SELL" => Filled(p, side, n, m).quantity <= p.quantity
           /\ side = "BUY" => Filled(p, side, n, m).quantity = p.quantity + n
<1> DEFINE q == p.quantity
           c == p.cost
           average == AverageCost(p)
<1>1. q \in Nat /\ c \in Nat
  OBVIOUS
<1>2. average \in Nat
  <2>1. CASE q = 0
    BY <2>1 DEF AverageCost
  <2>2. CASE q # 0
    <3>1. c \div q \in Nat
      BY <1>1, <2>2
    <3> QED
      BY <2>2, <3>1 DEF AverageCost
  <2> QED
    BY <2>1, <2>2
<1>3. q * m <= c /\ q # 0 => m <= average
  <2> SUFFICES ASSUME q * m <= c, q # 0 PROVE m <= average
    OBVIOUS
  <2>1. average = c \div q
    BY DEF AverageCost
  <2> HIDE DEF q, c, average
  <2> QED
    BY <1>1, <2>1
<1> HIDE DEF average
<1>4. CASE side = "BUY"
  <2>1. n * m \in Nat /\ (q + n) * m = q * m + n * m /\ q * m \in Nat
    BY <1>1
  <2>2. Filled(p, side, n, m) = [quantity |-> q + n, cost |-> c + n * m] /\ Profit(p, side, n, m) = 0
    BY <1>4 DEF Filled, Profit
  <2> HIDE DEF q, c
  <2>3. q + n \in Nat /\ c + n * m \in Nat
    BY <1>1, <2>1
  <2> QED
    BY <1>1, <1>4, <2>1, <2>2, <2>3 DEF q, c
<1>5. CASE side = "SELL"
  <2> DEFINE left == Larger(0, q - n)
             sold == IF n <= q THEN n ELSE q
  <2>1. left \in Nat /\ left <= q /\ sold \in Nat
    BY <1>1 DEF Larger
  <2>2. Filled(p, side, n, m) = [quantity |-> left, cost |-> left * average]
    BY <1>5 DEF Filled, average
  <2>3. Profit(p, side, n, m) = (m - average) * sold
    BY <1>5 DEF Profit, average
  <2>4. q * m <= c => left * m <= left * average
    <3> SUFFICES ASSUME q * m <= c PROVE left * m <= left * average
      OBVIOUS
    <3>1. CASE left = 0
      BY <1>2, <3>1
    <3>2. CASE left # 0
      <4>1. m <= average
        BY <1>1, <1>3, <2>1, <3>2
      <4> HIDE DEF left, q, c
      <4> QED
        BY <1>2, <2>1, <4>1
    <3> QED
      BY <3>1, <3>2
  <2>5. left * average \in Nat /\ (m - average) * sold \in Int
    <3> HIDE DEF left, sold
    <3> QED
      BY <1>2, <2>1
  <2> HIDE DEF left, sold
  <2> QED
    BY <1>5, <2>1, <2>2, <2>3, <2>4, <2>5
<1> QED
  BY <1>4, <1>5

LEMMA InitTyped == Init => TypeOK
<1> SUFFICES ASSUME Init PROVE TypeOK
  OBVIOUS
<1> USE DeskAssumption
<1>1. request \in [Requests -> Request]
  BY RequestType DEF Init
<1>2. history \in [of : [Requests -> Past], calm : BOOLEAN, opened : Int]
  <2>1. NoPast \in Past /\ AtCostOrBelow(OpeningBook, market) \in BOOLEAN
    BY DEF NoPast, Past, AtCostOrBelow
  <2> QED
    BY <2>1 DEF Init
<1>3. /\ ruling \in [Symbols -> Rulings] /\ account \in Accounts
      /\ market \in [Symbols -> Prices] /\ unquoted \subseteq Symbols /\ screened \subseteq Symbols
      /\ positions \in [Symbols -> [quantity : Nat, cost : Nat]] /\ realised \in Int
      /\ {snapshot, day_baseline, week_baseline} \subseteq Money
      /\ day \in 0..MaxDay /\ events \in 0..EventBudget
  BY DEF Init, Rulings, Accounts, Money
<1> QED
  BY <1>1, <1>2, <1>3 DEF TypeOK

(* A screen only adds symbols; one at stake costs the calm.                *)
LEMMA ConsultedKeeps ==
    ASSUME TypeOK, NEW s \in Symbols, NEW screen, Consulted(s, screen)
    PROVE  /\ screened \subseteq screened' /\ screened' \subseteq Symbols
           /\ history' \in [of : [Requests -> Past], calm : BOOLEAN, opened : Int]
           /\ history'.of = history.of
           /\ history'.calm => history.calm /\ \A x \in screened' \ screened : ~AtStake(x)
<1>1. CASE screen
  <2> DEFINE calm == CalmAfter(s)
  <2>1. /\ screened' = Screened(s) /\ history' = [history EXCEPT !.calm = calm]
        /\ screened \subseteq screened' /\ \A x \in screened' \ screened : x = s
    BY <1>1 DEF Consulted, Screened
  <2>2. /\ history \in [of : [Requests -> Past], calm : BOOLEAN, opened : Int]
        /\ screened \subseteq Symbols
    BY DEF TypeOK
  <2>3. calm \in BOOLEAN /\ (calm => history.calm /\ (screened' = screened \/ ~AtStake(s)))
    BY <2>1, <2>2 DEF CalmAfter
  <2> HIDE DEF calm
  <2>4. history'.calm = calm /\ history'.of = history.of
    BY <2>1, <2>2
  <2> QED
    BY <2>1, <2>2, <2>3, <2>4
<1>2. CASE ~screen
  BY <1>2 DEF Consulted, TypeOK
<1> QED
  BY <1>1, <1>2

LEMMA EvaluateIs ==
    ASSUME NEW r \in Requests, NEW order \in Orders, NEW flag, Evaluate(r, order, flag)
    PROVE  /\ request[r].pc = "new" /\ order.symbol \in Symbols
           /\ \E b \in BOOLEAN :
                request' = [request EXCEPT ![r].pc = "evaluated", ![r].order = order,
                                           ![r].blocked = b]
           /\ \E screen : Consulted(order.symbol, screen)
           /\ UNCHANGED <<world, ledger, marks, bounds>>
<1>1. \A o, shariah, quant, risk_ok : Blocked(o, shariah, quant, risk_ok) \in BOOLEAN
  BY DEF Blocked
<1>2. order.symbol \in Symbols
  BY DeskAssumption DEF Order
<1> DEFINE overridden == flag /\ order.symbol \in Fixtures
           shariah == IF overridden THEN "PASS" ELSE ruling[order.symbol]
<1>3. PICK quant \in (IF overridden THEN {FixtureQuant} ELSE Quants), risk_ok \in BOOLEAN :
        request' = [request EXCEPT ![r].pc = "evaluated", ![r].order = order,
                                   ![r].blocked = Blocked(order, shariah, quant, risk_ok)]
  BY DEF Evaluate
<1>4. Blocked(order, shariah, quant, risk_ok) \in BOOLEAN
  BY <1>1
<1>5. \E b \in BOOLEAN :
        request' = [request EXCEPT ![r].pc = "evaluated", ![r].order = order, ![r].blocked = b]
  BY <1>3, <1>4
<1>6. /\ request[r].pc = "new" /\ Consulted(order.symbol, ~overridden)
      /\ UNCHANGED <<world, ledger, marks, bounds>>
  BY DEF Evaluate
<1> HIDE DEF overridden
<1> QED
  BY <1>2, <1>5, <1>6

LEMMA EvaluateTyped ==
    ASSUME TypeOK, NEW r \in Requests, NEW order \in Orders, NEW flag \in BOOLEAN,
           Evaluate(r, order, flag)
    PROVE  TypeOK'
<1>1. PICK b \in BOOLEAN :
        request' = [request EXCEPT ![r].pc = "evaluated", ![r].order = order, ![r].blocked = b]
  BY EvaluateIs
<1> DEFINE q == [request[r] EXCEPT !.pc = "evaluated", !.order = order, !.blocked = b]
<1>2. q \in Request
  <2>1. request[r] \in Request /\ "evaluated" \in Steps
    BY DEF TypeOK, Steps
  <2> QED
    BY <2>1 DEF Request
<1>3. request' = [request EXCEPT ![r] = q]
  BY <1>1
<1> HIDE DEF q
<1>4. request' \in [Requests -> Request]
  BY <1>2, <1>3 DEF TypeOK
<1>5. /\ screened' \subseteq Symbols
      /\ history' \in [of : [Requests -> Past], calm : BOOLEAN, opened : Int]
      /\ UNCHANGED <<world, ledger, marks, bounds>>
  BY EvaluateIs, ConsultedKeeps
<1> QED
  BY <1>4, <1>5 DEF TypeOK, world, ledger, marks, bounds

LEMMA PreviewTyped ==
    ASSUME TypeOK, NEW r \in Requests, Preview(r)
    PROVE  TypeOK'
<1> DEFINE ready == Answered(r)
           q == [request[r] EXCEPT !.pc = "previewed", !.blocked = FALSE, !.ready = ready]
<1>1. request' = [request EXCEPT ![r] = q]
  BY DEF Preview
<1>2. q \in Request
  <2>1. request[r] \in Request /\ "previewed" \in Steps
    BY DEF TypeOK, Steps
  <2>2. ready \in BOOLEAN
    BY DEF Answered
  <2> HIDE DEF ready
  <2> QED
    BY <2>1, <2>2 DEF Request
<1> HIDE DEF q
<1>3. request' \in [Requests -> Request]
  BY <1>1, <1>2 DEF TypeOK
<1> QED
  BY <1>3 DEF Preview, TypeOK, world, ledger, marks, bounds

LEMMA PostTyped ==
    ASSUME TypeOK, NEW r \in Requests, NEW order \in Orders, NEW ready \in BOOLEAN,
           Post(r, order, ready)
    PROVE  TypeOK'
<1> DEFINE q == [NoRequest EXCEPT !.pc = "previewed", !.order = order, !.ready = ready]
<1>1. request' = [request EXCEPT ![r] = q]
  BY DEF Post
<1>2. q \in Request
  <2>1. NoRequest \in Request /\ "previewed" \in Steps
    BY RequestType DEF Steps
  <2> QED
    BY <2>1 DEF Request
<1> HIDE DEF q
<1>3. request' \in [Requests -> Request]
  BY <1>1, <1>2 DEF TypeOK
<1> QED
  BY <1>3 DEF Post, TypeOK, world, ledger, marks, bounds

LEMMA AskTyped ==
    ASSUME TypeOK, NEW r \in Requests, Ask(r)
    PROVE  TypeOK'
<1> DEFINE type == AccountType(request[r].order)
           q == [request[r] EXCEPT !.pc = "asked", !.account_type = type]
           cleared == ruling[request[r].order.symbol] = "PASS"
           cash == account = "CASH"
           h == [history.of[r] EXCEPT !.cleared = cleared, !.cash = cash]
<1>1. /\ request' = [request EXCEPT ![r] = q]
      /\ history' = [history EXCEPT !.of = [history.of EXCEPT ![r] = h]]
  BY DEF Ask, TypeOK
<1>2. q \in Request
  <2>1. request[r] \in Request /\ "asked" \in Steps /\ type \in Accounts
    BY DEF TypeOK, Steps, AccountType, Accounts
  <2> HIDE DEF type
  <2> QED
    BY <2>1 DEF Request
<1>3. h \in Past
  <2>1. history.of[r] \in Past /\ cleared \in BOOLEAN /\ cash \in BOOLEAN
    BY DEF TypeOK
  <2> HIDE DEF cleared, cash
  <2> QED
    BY <2>1 DEF Past
<1> HIDE DEF q, h
<1>4. /\ request' \in [Requests -> Request]
      /\ history' \in [of : [Requests -> Past], calm : BOOLEAN, opened : Int]
  BY <1>1, <1>2, <1>3 DEF TypeOK
<1> QED
  BY <1>4 DEF Ask, TypeOK, world, ledger, marks, bounds

LEMMA DeriveTyped ==
    ASSUME TypeOK, NEW r \in Requests, Derive(r)
    PROVE  TypeOK'
<1> DEFINE s == request[r].order.symbol
           verdict == Verdict(s)
           q == [request[r] EXCEPT !.pc = "ruled", !.shariah = verdict]
<1>1. request' = [request EXCEPT ![r] = q]
  BY DEF Derive
<1>2. s \in Symbols
  BY OrderType
<1>3. q \in Request
  <2>1. request[r] \in Request /\ "ruled" \in Steps /\ verdict \in Rulings
    BY <1>2 DEF TypeOK, Steps, Verdict, Rulings
  <2> HIDE DEF verdict
  <2> QED
    BY <2>1 DEF Request
<1> HIDE DEF q
<1>4. request' \in [Requests -> Request]
  BY <1>1, <1>3 DEF TypeOK
<1>5. Consulted(s, s \notin Fixtures)
  BY DEF Derive
<1>6. /\ screened' \subseteq Symbols
      /\ history' \in [of : [Requests -> Past], calm : BOOLEAN, opened : Int]
  <2> HIDE DEF s
  <2> QED
    BY <1>2, <1>5, ConsultedKeeps
<1> QED
  BY <1>4, <1>6 DEF Derive, TypeOK, world, ledger, marks, bounds

(* An approved order counts once: there are no more of them than requests. *)
LEMMA CountType ==
    ASSUME NEW d
    PROVE  Cardinality({q \in Requests : Approved(q) /\ request[q].created_at = d}) \in Nat
BY DeskAssumption, FS_Subset, FS_CardinalityType

LEMMA CountTyped ==
    ASSUME TypeOK, NEW r \in Requests, Count(r)
    PROVE  TypeOK'
<1> DEFINE daily == PeriodLoss(realised, day_baseline)
           weekly == PeriodLoss(realised, week_baseline)
           n == OrdersToday
           q == [request[r] EXCEPT !.pc = "counted", !.orders_today = n,
                                   !.daily_loss = daily, !.weekly_loss = weekly]
           loss == IF LossIsTold THEN history.opened - realised ELSE 0
           h == [history.of[r] EXCEPT !.outran = FALSE, !.loss = loss]
<1>1. /\ request' = [request EXCEPT ![r] = q]
      /\ history' = [history EXCEPT !.of = [history.of EXCEPT ![r] = h]]
  BY DEF Count, Counted, TypeOK
<1>2. q \in Request
  <2>1. request[r] \in Request /\ "counted" \in Steps
    BY DEF TypeOK, Steps
  <2>2. n \in Nat
    BY CountType DEF OrdersToday
  <2>3. daily \in Loss /\ weekly \in Loss
    BY LossType DEF TypeOK
  <2> HIDE DEF n, daily, weekly
  <2> QED
    BY <2>1, <2>2, <2>3 DEF Request
<1>3. h \in Past
  <2>1. history.of[r] \in Past /\ loss \in Nat
    BY DEF TypeOK, LossIsTold
  <2> HIDE DEF loss
  <2> QED
    BY <2>1 DEF Past
<1> HIDE DEF q, h
<1>4. /\ request' \in [Requests -> Request]
      /\ history' \in [of : [Requests -> Past], calm : BOOLEAN, opened : Int]
  BY <1>1, <1>2, <1>3 DEF TypeOK
<1> QED
  BY <1>4 DEF Count, Counted, TypeOK, world, ledger, marks, bounds

LEMMA AssessTyped ==
    ASSUME TypeOK, NEW r \in Requests, Assess(r)
    PROVE  TypeOK'
<1> DEFINE risk == RiskPasses(positions, Quote, SectorOf, request[r].order,
                              request[r].daily_loss, request[r].weekly_loss,
                              request[r].orders_today)
           raced == \E p \in Requests : Outstanding(p)
           q == [request[r] EXCEPT !.pc = "assessed", !.risk = risk]
           h == [history.of[r] EXCEPT !.raced = raced]
<1>1. /\ request' = [request EXCEPT ![r] = q]
      /\ history' = [history EXCEPT !.of = [history.of EXCEPT ![r] = h]]
  BY DEF Assess, TypeOK
<1>2. q \in Request
  <2>1. request[r] \in Request /\ "assessed" \in Steps
    BY DEF TypeOK, Steps
  <2>2. risk \in BOOLEAN
    BY DEF RiskPasses, CheckOrder, Within, OrdersBelow
  <2> HIDE DEF risk
  <2> QED
    BY <2>1, <2>2 DEF Request
<1>3. h \in Past
  <2>1. history.of[r] \in Past /\ raced \in BOOLEAN
    BY DEF TypeOK
  <2> HIDE DEF raced
  <2> QED
    BY <2>1 DEF Past
<1> HIDE DEF q, h
<1>4. /\ request' \in [Requests -> Request]
      /\ history' \in [of : [Requests -> Past], calm : BOOLEAN, opened : Int]
  BY <1>1, <1>2, <1>3 DEF TypeOK
<1> QED
  BY <1>4 DEF Assess, TypeOK, world, ledger, marks, bounds

LEMMA RowType ==
    ASSUME TypeOK, NEW r \in Requests, NEW status \in RowStatuses
    PROVE  Row(r, status) \in Request
<1>1. /\ NoRequest \in Request /\ "recorded" \in Steps
      /\ request[r].order \in Orders /\ day \in 0..MaxDay
  BY RequestType DEF TypeOK, Steps, Request
<1> QED
  BY <1>1 DEF Row, Request

LEMMA OvertakeType ==
    ASSUME TypeOK, NEW r \in Requests
    PROVE  Overtake(r) \in [Requests -> Past]
<1> SUFFICES ASSUME NEW q \in Requests PROVE Overtake(r)[q] \in Past
  BY DEF Overtake
<1> DEFINE outran == history.of[q].outran \/ request[q].pc \in {"counted", "assessed"}
           raced == \/ history.of[q].raced
                    \/ request[q].pc = "assessed" /\ Purchase(request[r].order)
<1>1. history.of[q] \in Past
  BY DEF TypeOK
<1>2. outran \in BOOLEAN /\ raced \in BOOLEAN
  BY <1>1 DEF Past
<1>3. Overtake(r)[q] = IF q = r THEN history.of[r]
                       ELSE [history.of[q] EXCEPT !.outran = outran, !.raced = raced]
  BY DEF Overtake
<1> HIDE DEF outran, raced
<1> QED
  BY <1>1, <1>2, <1>3 DEF Past

LEMMA RecordTyped ==
    ASSUME TypeOK, NEW r \in Requests, Record(r)
    PROVE  TypeOK'
<1>1. \E status \in RowStatuses : request' = [request EXCEPT ![r] = Row(r, status)]
  BY DEF Record, RowStatuses
<1>2. request' \in [Requests -> Request]
  BY <1>1, RowType DEF TypeOK
<1>3. \/ history' = [history EXCEPT !.of = [history.of EXCEPT ![r] = NoPast]]
      \/ history' = [history EXCEPT !.of = Overtake(r)]
  BY DEF Record, TypeOK
<1>4. [history.of EXCEPT ![r] = NoPast] \in [Requests -> Past]
  <2>1. NoPast \in Past
    BY DEF NoPast, Past
  <2> QED
    BY <2>1 DEF TypeOK
<1>5. history' \in [of : [Requests -> Past], calm : BOOLEAN, opened : Int]
  <2> DEFINE of == [history.of EXCEPT ![r] = NoPast]
             by == Overtake(r)
  <2>1. of \in [Requests -> Past] /\ by \in [Requests -> Past]
    BY <1>4, OvertakeType
  <2>2. history' = [history EXCEPT !.of = of] \/ history' = [history EXCEPT !.of = by]
    BY <1>3
  <2> HIDE DEF of, by
  <2> QED
    BY <2>1, <2>2 DEF TypeOK
<1> QED
  BY <1>2, <1>5 DEF Record, TypeOK, world, ledger, marks, bounds

LEMMA BookTyped ==
    ASSUME TypeOK, NEW r \in Requests, Book(r)
    PROVE  TypeOK'
<1> DEFINE order == request[r].order
           s == order.symbol
           p == Filled(positions[s], order.side, order.quantity, market[s])
           q == [request[r] EXCEPT !.pc = "booked"]
<1>1. /\ request' = [request EXCEPT ![r] = q]
      /\ positions' = [positions EXCEPT ![s] = p]
      /\ realised' = realised + Profit(positions[s], order.side, order.quantity, market[s])
  BY DEF Book
<1>2. q \in Request
  <2>1. request[r] \in Request /\ "booked" \in Steps
    BY DEF TypeOK, Steps
  <2> QED
    BY <2>1 DEF Request
<1>3. /\ s \in Symbols /\ order.side \in {"BUY", "SELL"} /\ order.quantity \in Nat
      /\ positions[s] \in [quantity : Nat, cost : Nat] /\ market[s] \in Nat
  <2>1. s \in Symbols /\ order.side \in {"BUY", "SELL"} /\ order.quantity \in Nat
    BY OrderType
  <2> HIDE DEF s, order
  <2> QED
    BY <2>1, DeskAssumption DEF TypeOK
<1>4. /\ p \in [quantity : Nat, cost : Nat]
      /\ Profit(positions[s], order.side, order.quantity, market[s]) \in Int
  <2> HIDE DEF s, order
  <2> QED
    BY <1>3, FillType
<1> HIDE DEF q, p, s, order
<1>5. request' \in [Requests -> Request]
  BY <1>1, <1>2 DEF TypeOK
<1>6. positions' \in [Symbols -> [quantity : Nat, cost : Nat]]
  BY <1>1, <1>4 DEF TypeOK
<1>7. realised' \in Int
  BY <1>1, <1>4 DEF TypeOK
<1> QED
  BY <1>5, <1>6, <1>7 DEF Book, TypeOK, world, marks, bounds

(* What a request remembers of the world around it. *)
LEMMA PastType ==
    ASSUME TypeOK
    PROVE  /\ \A s, verdict : Ruled(s, verdict) \in [Requests -> Past]
           /\ \A type : Accounted(type) \in [Requests -> Past]
           /\ Overnight \in [Requests -> Past]
<1>1. ASSUME NEW r \in Requests, NEW b \in BOOLEAN
      PROVE  /\ [history.of[r] EXCEPT !.cleared = b] \in Past
             /\ [history.of[r] EXCEPT !.cash = b] \in Past
             /\ [history.of[r] EXCEPT !.outran = b] \in Past
  <2>1. history.of[r] \in Past
    BY DEF TypeOK
  <2> QED
    BY <2>1 DEF Past
<1>2. ASSUME NEW s, NEW verdict PROVE Ruled(s, verdict) \in [Requests -> Past]
  <2> DEFINE b(r) == \/ history.of[r].cleared
                     \/ /\ request[r].pc \in ApprovalSteps /\ request[r].order.symbol = s
                        /\ verdict = "PASS"
  <2>1. \A r \in Requests : b(r) \in BOOLEAN
    BY DEF TypeOK, Past
  <2>2. Ruled(s, verdict) = [r \in Requests |-> [history.of[r] EXCEPT !.cleared = b(r)]]
    BY DEF Ruled
  <2> HIDE DEF b
  <2>3. \A r \in Requests : [history.of[r] EXCEPT !.cleared = b(r)] \in Past
    BY <1>1, <2>1
  <2> QED
    BY <2>2, <2>3
<1>3. ASSUME NEW type PROVE Accounted(type) \in [Requests -> Past]
  <2> DEFINE b(r) == history.of[r].cash \/ (request[r].pc \in ApprovalSteps /\ type = "CASH")
  <2>1. \A r \in Requests : b(r) \in BOOLEAN
    BY DEF TypeOK, Past
  <2>2. Accounted(type) = [r \in Requests |-> [history.of[r] EXCEPT !.cash = b(r)]]
    BY DEF Accounted
  <2> HIDE DEF b
  <2>3. \A r \in Requests : [history.of[r] EXCEPT !.cash = b(r)] \in Past
    BY <1>1, <2>1
  <2> QED
    BY <2>2, <2>3
<1>4. Overnight \in [Requests -> Past]
  <2> DEFINE b(r) == history.of[r].outran \/ request[r].pc \in {"counted", "assessed"}
  <2>1. \A r \in Requests : b(r) \in BOOLEAN
    BY DEF TypeOK, Past
  <2>2. Overnight = [r \in Requests |-> [history.of[r] EXCEPT !.outran = b(r)]]
    BY DEF Overnight
  <2> HIDE DEF b
  <2>3. \A r \in Requests : [history.of[r] EXCEPT !.outran = b(r)] \in Past
    BY <1>1, <2>1
  <2> QED
    BY <2>2, <2>3
<1> QED
  BY <1>2, <1>3, <1>4

LEMMA WorldTyped ==
    ASSUME TypeOK, Environment
    PROVE  TypeOK'
<1> USE DeskAssumption
<1>1. ASSUME Event PROVE events' \in 0..EventBudget
  BY <1>1 DEF Event, TypeOK
<1>2. ASSUME NEW s \in Symbols, NEW verdict \in Rulings, Rule(s, verdict) PROVE TypeOK'
  <2>1. history' \in [of : [Requests -> Past], calm : BOOLEAN, opened : Int]
    BY <1>2, PastType DEF Rule, TypeOK
  <2> QED
    BY <1>1, <1>2, <2>1 DEF Rule, TypeOK, ledger, marks
<1>3. ASSUME NEW s \in Symbols, NEW price \in Prices, Reprice(s, price) PROVE TypeOK'
  <2> DEFINE calm == history.calm /\ price <= market[s]
  <2>1. history' = [history EXCEPT !.calm = calm]
    BY <1>3 DEF Reprice
  <2>2. calm \in BOOLEAN
    BY DEF TypeOK
  <2> HIDE DEF calm
  <2>3. history' \in [of : [Requests -> Past], calm : BOOLEAN, opened : Int]
    BY <2>1, <2>2 DEF TypeOK
  <2> QED
    BY <1>1, <1>3, <2>3 DEF Reprice, TypeOK, ledger, marks
<1>4. ASSUME NEW s \in Symbols, Outage(s) PROVE TypeOK'
  BY <1>1, <1>4 DEF Outage, TypeOK, ledger, marks
<1>5. ASSUME NEW s \in Symbols, Requote(s) PROVE TypeOK'
  BY <1>5 DEF Requote, TypeOK, ledger, marks, bounds
<1>6. ASSUME NEW type \in Accounts, ChangeAccount(type) PROVE TypeOK'
  <2>1. history' \in [of : [Requests -> Past], calm : BOOLEAN, opened : Int]
    BY <1>6, PastType DEF ChangeAccount, TypeOK
  <2> QED
    BY <1>1, <1>6, <2>1 DEF ChangeAccount, TypeOK, ledger, marks
<1>7. ASSUME Snapshot PROVE TypeOK'
  BY <1>7 DEF Snapshot, TypeOK, world, ledger, bounds, Money
<1>8. ASSUME NextDay PROVE TypeOK'
  <2>1. history' \in [of : [Requests -> Past], calm : BOOLEAN, opened : Int]
    BY <1>8, PastType DEF NextDay, TypeOK
  <2>2. /\ day' \in 0..MaxDay
        /\ {snapshot', day_baseline', week_baseline'} \subseteq Money
    BY <1>8 DEF NextDay, TypeOK
  <2> QED
    BY <1>1, <1>8, <2>1, <2>2 DEF NextDay, TypeOK, world, ledger
<1> QED
  BY <1>2, <1>3, <1>4, <1>5, <1>6, <1>7, <1>8 DEF Environment

LEMMA StepTyped == TypeOK /\ [Next]_vars => TypeOK'
<1> SUFFICES ASSUME TypeOK, [Next]_vars PROVE TypeOK'
  OBVIOUS
<1>1. CASE UNCHANGED vars
  BY <1>1 DEF vars, world, ledger, marks, bounds, TypeOK
<1>2. ASSUME NEW r \in Requests, Serve(r) PROVE TypeOK'
  BY <1>2, EvaluateTyped, PostTyped, PreviewTyped, AskTyped, DeriveTyped, CountTyped,
     AssessTyped, RecordTyped, BookTyped DEF Serve
<1> QED
  BY <1>1, <1>2, WorldTyped DEF Next

(* Every reachable state is well typed: no position is short, no cost or   *)
(* loss negative, whatever is filled at whatever price.                    *)
THEOREM TypeCorrect == Spec => []TypeOK
BY InitTyped, StepTyped, PTL DEF Spec

-----------------------------------------------------------------------------
(* What one request has established before each of its steps.              *)

(* A reading that allows the order was true when it was taken. *)
Witnessed(r) ==
    /\ request[r].pc \in ApprovalSteps /\ request[r].account_type = "CASH"
         => IF Alpaca THEN history.of[r].cash ELSE request[r].order.asset_class = "equity"
    /\ request[r].pc \in ApprovalSteps /\ ruling[request[r].order.symbol] = "PASS"
         => history.of[r].cleared
    /\ request[r].pc \in {"ruled", "counted", "assessed"} /\ request[r].shariah = "PASS"
         => request[r].order.symbol \in Fixtures \/ history.of[r].cleared

(* The loss that was read is no less than what the snapshots told. *)
LossRead(r) ==
    request[r].pc \in {"counted", "assessed"} /\ request[r].daily_loss # Unknown
        => history.of[r].loss <= request[r].daily_loss

(* A verdict that passed was within the limits of the day. *)
Limited(r) ==
    request[r].pc = "assessed" /\ request[r].risk
        => Within(request[r].daily_loss, MaxDailyLoss) /\ OrdersBelow(request[r].orders_today)

Granted(r) ==
    /\ request[r].pc \notin {"recorded", "booked"} => request[r].status = "NONE"
    /\ Approved(r) =>
         /\ request[r].order.symbol \in Fixtures \/ history.of[r].cleared
         /\ IF Alpaca THEN history.of[r].cash ELSE request[r].order.asset_class = "equity"
         /\ history.of[r].loss <= MaxDailyLoss /\ ~request[r].order.option_contract

RequestOK(r) == Witnessed(r) /\ LossRead(r) /\ Limited(r) /\ Granted(r)
RequestsOK == \A r \in Requests : RequestOK(r)

(* A step of another request, or of the world, leaves a request as it is,  *)
(* and what is remembered of it only grows.                                *)
Kept(r) ==
    /\ request'[r] = request[r]
    /\ history'.of[r].loss = history.of[r].loss
    /\ history.of[r].cleared => history'.of[r].cleared
    /\ history.of[r].cash => history'.of[r].cash
    /\ history.of[r].outran => history'.of[r].outran
    /\ history.of[r].raced => history'.of[r].raced
    /\ request[r].pc \notin {"counted", "assessed"} /\ history'.of[r].outran => history.of[r].outran
    /\ request[r].pc # "assessed" /\ history'.of[r].raced => history.of[r].raced
    /\ request[r].pc \in ApprovalSteps /\ ruling'[request[r].order.symbol] = "PASS"
         => history'.of[r].cleared \/ ruling[request[r].order.symbol] = "PASS"

LEMMA ServeKeeps ==
    ASSUME TypeOK, NEW r \in Requests, NEW p \in Requests, p # r, Serve(p)
    PROVE  Kept(r)
<1> USE DEF Kept
<1>0. /\ r \in DOMAIN request /\ r \in DOMAIN history.of
      /\ DOMAIN history = {"of", "calm", "opened"} /\ history.of[r] \in Past
  BY DEF TypeOK
<1>1. ASSUME NEW order \in Orders, NEW flag \in BOOLEAN, Evaluate(p, order, flag) PROVE Kept(r)
  <2>0. PICK screen : Consulted(order.symbol, screen) /\ order.symbol \in Symbols
    BY <1>1, EvaluateIs
  <2>1. history'.of = history.of /\ ruling' = ruling /\ request'[r] = request[r]
    BY <1>0, <1>1, <2>0, EvaluateIs, ConsultedKeeps DEF world
  <2> QED
    BY <2>1
<1>2. ASSUME NEW order \in Orders, NEW ready \in BOOLEAN, Post(p, order, ready) PROVE Kept(r)
  BY <1>0, <1>2 DEF Post, world
<1>3. CASE Preview(p)
  BY <1>0, <1>3 DEF Preview, world
<1>4. CASE Ask(p)
  BY <1>0, <1>4 DEF Ask, world
<1>5. CASE Derive(p)
  <2>1. PICK s \in Symbols : Consulted(s, s \notin Fixtures)
    BY <1>5, OrderType DEF Derive
  <2>2. history'.of = history.of /\ ruling' = ruling /\ request'[r] = request[r]
    BY <1>0, <1>5, <2>1, ConsultedKeeps DEF Derive, world
  <2> QED
    BY <2>2
<1>6. CASE Count(p)
  BY <1>0, <1>6 DEF Count, Counted, world
<1>7. CASE Assess(p)
  BY <1>0, <1>7 DEF Assess, world
<1>8. CASE Record(p)
  <2>1. request'[r] = request[r] /\ screened' = screened /\ ruling' = ruling
    BY <1>0, <1>8 DEF Record, world
  <2>2. CASE history' = [history EXCEPT !.of[p] = NoPast]
    BY <1>0, <2>1, <2>2
  <2>3. CASE history' = [history EXCEPT !.of = Overtake(p)]
    <3>1. history'.of[r] = [history.of[r] EXCEPT
              !.outran = @ \/ request[r].pc \in {"counted", "assessed"},
              !.raced  = @ \/ (request[r].pc = "assessed" /\ Purchase(request[p].order))]
      BY <1>0, <2>3 DEF Overtake
    <3> QED
      BY <1>0, <2>1, <3>1 DEF Past
  <2> QED
    BY <1>8, <2>2, <2>3 DEF Record
<1>9. CASE Book(p)
  BY <1>0, <1>9 DEF Book, world
<1> QED
  BY <1>1, <1>2, <1>3, <1>4, <1>5, <1>6, <1>7, <1>8, <1>9 DEF Serve

LEMMA WorldKeeps ==
    ASSUME TypeOK, NEW r \in Requests, Environment \/ UNCHANGED vars
    PROVE  Kept(r)
<1> USE DEF Kept
<1>0. /\ r \in DOMAIN request /\ r \in DOMAIN history.of
      /\ DOMAIN history = {"of", "calm", "opened"} /\ history.of[r] \in Past
  BY DEF TypeOK
<1>1. ASSUME NEW s \in Symbols, NEW verdict \in Rulings, Rule(s, verdict) PROVE Kept(r)
  <2>1. ruling' = [ruling EXCEPT ![s] = verdict] /\ history' = [history EXCEPT !.of = Ruled(s, verdict)]
        /\ UNCHANGED <<request, screened>>
    BY <1>1 DEF Rule
  <2>2. request[r].order.symbol \in Symbols /\ ruling \in [Symbols -> Rulings]
    BY OrderType DEF TypeOK
  <2>3. history'.of[r] = [history.of[r] EXCEPT
            !.cleared = @ \/ (/\ request[r].pc \in ApprovalSteps
                             /\ request[r].order.symbol = s /\ verdict = "PASS")]
    BY <1>0, <2>1 DEF Ruled
  <2>4. history'.of[r].cleared = \/ history.of[r].cleared
                                 \/ /\ request[r].pc \in ApprovalSteps
                                    /\ request[r].order.symbol = s /\ verdict = "PASS"
    BY <1>0, <2>3 DEF Past
  <2>5. /\ history'.of[r].cash = history.of[r].cash /\ history'.of[r].loss = history.of[r].loss
        /\ history'.of[r].outran = history.of[r].outran /\ history'.of[r].raced = history.of[r].raced
    BY <1>0, <2>3 DEF Past
  <2> QED
    BY <2>1, <2>2, <2>4, <2>5
<1>2. ASSUME NEW s \in Symbols, NEW price \in Prices, Reprice(s, price) PROVE Kept(r)
  BY <1>0, <1>2 DEF Reprice
<1>3. ASSUME NEW s \in Symbols, Outage(s) \/ Requote(s) PROVE Kept(r)
  BY <1>3 DEF Outage, Requote
<1>4. ASSUME NEW type \in Accounts, ChangeAccount(type) PROVE Kept(r)
  BY <1>0, <1>4 DEF ChangeAccount, Accounted, Past
<1>5. CASE Snapshot
  BY <1>5 DEF Snapshot, world
<1>6. CASE NextDay
  BY <1>0, <1>6 DEF NextDay, Overnight, Past, world
<1>7. CASE UNCHANGED vars
  BY <1>7 DEF vars, world
<1> QED
  BY <1>1, <1>2, <1>3, <1>4, <1>5, <1>6, <1>7 DEF Environment

LEMMA Others ==
    ASSUME TypeOK, [Next]_vars, NEW r \in Requests
    PROVE  Serve(r) \/ Kept(r)
BY ServeKeeps, WorldKeeps DEF Next

LEMMA KeptOK ==
    ASSUME TypeOK, NEW r \in Requests, RequestOK(r), Kept(r)
    PROVE  RequestOK(r)'
BY DEF Kept, RequestOK, Witnessed, LossRead, Limited, Granted, Approved

(* One request at each of its own steps. *)
LEMMA EvaluateOK ==
    ASSUME TypeOK, NEW r \in Requests, NEW order \in Orders, NEW flag \in BOOLEAN,
           RequestOK(r), Evaluate(r, order, flag)
    PROVE  RequestOK(r)'
<1>1. PICK b \in BOOLEAN :
        request' = [request EXCEPT ![r].pc = "evaluated", ![r].order = order, ![r].blocked = b]
  BY EvaluateIs
<1>2. request'[r] = [request[r] EXCEPT !.pc = "evaluated", !.order = order, !.blocked = b]
  BY <1>1 DEF TypeOK
<1>3. request[r] \in Request /\ request[r].status = "NONE"
  BY EvaluateIs DEF TypeOK, RequestOK, Granted
<1>4. request'[r].pc = "evaluated" /\ request'[r].status = "NONE"
  BY <1>2, <1>3 DEF Request
<1> QED
  BY <1>4 DEF RequestOK, Witnessed, LossRead, Limited, Granted, Approved, ApprovalSteps

LEMMA PreviewOK ==
    ASSUME TypeOK, NEW r \in Requests, RequestOK(r), Preview(r)
    PROVE  RequestOK(r)'
<1>1. request[r] \in Request /\ request[r].pc = "evaluated" /\ request[r].status = "NONE"
  BY DEF Preview, TypeOK, RequestOK, Granted
<1>2. request'[r].pc = "previewed" /\ request'[r].status = "NONE"
  BY <1>1 DEF Preview, TypeOK, Request
<1> QED
  BY <1>2 DEF RequestOK, Witnessed, LossRead, Limited, Granted, Approved, ApprovalSteps

LEMMA PostOK ==
    ASSUME TypeOK, NEW r \in Requests, NEW order \in Orders, NEW ready \in BOOLEAN,
           Post(r, order, ready)
    PROVE  RequestOK(r)'
<1>1. request'[r] = [NoRequest EXCEPT !.pc = "previewed", !.order = order, !.ready = ready]
  BY DEF Post, TypeOK
<1>2. request'[r].pc = "previewed" /\ request'[r].status = "NONE"
  BY <1>1, RequestType DEF Request
<1> QED
  BY <1>2 DEF RequestOK, Witnessed, LossRead, Limited, Granted, Approved, ApprovalSteps

LEMMA AskOK ==
    ASSUME TypeOK, NEW r \in Requests, RequestOK(r), Ask(r)
    PROVE  RequestOK(r)'
<1> DEFINE type == AccountType(request[r].order)
<1>1. request'[r] = [request[r] EXCEPT !.pc = "asked", !.account_type = type]
  BY DEF Ask, TypeOK
<1>2. request[r] \in Request /\ request[r].pc = "previewed" /\ request[r].status = "NONE"
  BY DEF Ask, TypeOK, RequestOK, Granted
<1>3. /\ history'.of[r].cash = (account = "CASH") /\ ruling' = ruling
      /\ history'.of[r].cleared = (ruling[request[r].order.symbol] = "PASS")
  BY DEF Ask, TypeOK, Past, world
<1>4. type = "CASH" => IF Alpaca THEN account = "CASH" ELSE request[r].order.asset_class = "equity"
  BY OrderType DEF AccountType
<1> HIDE DEF type
<1>5. /\ request'[r].pc = "asked" /\ request'[r].status = "NONE"
      /\ request'[r].order = request[r].order /\ request'[r].account_type = type
  BY <1>1, <1>2 DEF Request
<1> QED
  BY <1>2, <1>3, <1>4, <1>5
  DEF RequestOK, Witnessed, LossRead, Limited, Granted, Approved

LEMMA DeriveOK ==
    ASSUME TypeOK, NEW r \in Requests, RequestOK(r), Derive(r)
    PROVE  RequestOK(r)'
<1> DEFINE verdict == Verdict(request[r].order.symbol)
<1>0. PICK s \in Symbols : s = request[r].order.symbol
  BY OrderType
<1>1. request'[r] = [request[r] EXCEPT !.pc = "ruled", !.shariah = verdict]
  BY DEF Derive, TypeOK
<1>2. /\ request[r] \in Request /\ request[r].pc = "asked" /\ request[r].status = "NONE"
      /\ request[r].account_type = "CASH"
           => IF Alpaca THEN history.of[r].cash ELSE request[r].order.asset_class = "equity"
  BY DEF Derive, TypeOK, RequestOK, Granted, Witnessed, ApprovalSteps
<1>3. /\ history'.of = history.of /\ ruling' = ruling
      /\ ruling[s] = "PASS" => history.of[r].cleared
  <2>1. Consulted(s, s \notin Fixtures)
    BY <1>0 DEF Derive
  <2>2. history'.of = history.of
    BY <2>1, ConsultedKeeps
  <2> QED
    BY <1>0, <1>2, <2>2 DEF Derive, world, RequestOK, Witnessed, ApprovalSteps
<1>4. verdict = "PASS" => s \in Fixtures \/ ruling[s] = "PASS"
  BY <1>0 DEF Verdict
<1> HIDE DEF verdict
<1>5. /\ request'[r].pc = "ruled" /\ request'[r].status = "NONE"
      /\ request'[r].order = request[r].order
      /\ request'[r].account_type = request[r].account_type /\ request'[r].shariah = verdict
  BY <1>1, <1>2 DEF Request
<1> QED
  BY <1>0, <1>2, <1>3, <1>4, <1>5
  DEF RequestOK, Witnessed, LossRead, Limited, Granted, Approved, ApprovalSteps

LEMMA CountOK ==
    ASSUME TypeOK, NEW r \in Requests, RequestOK(r), Count(r)
    PROVE  RequestOK(r)'
<1> DEFINE daily == PeriodLoss(realised, day_baseline)
           weekly == PeriodLoss(realised, week_baseline)
           n == OrdersToday
           loss == IF LossIsTold THEN history.opened - realised ELSE 0
<1>1. request'[r] = [request[r] EXCEPT !.pc = "counted", !.orders_today = n,
                                       !.daily_loss = daily, !.weekly_loss = weekly]
  BY DEF Count, Counted, TypeOK
<1>2. /\ request[r] \in Request /\ request[r].pc = "ruled" /\ request[r].status = "NONE"
      /\ request[r].account_type = "CASH"
           => IF Alpaca THEN history.of[r].cash ELSE request[r].order.asset_class = "equity"
      /\ ruling[request[r].order.symbol] = "PASS" => history.of[r].cleared
      /\ request[r].shariah = "PASS" => request[r].order.symbol \in Fixtures \/ history.of[r].cleared
  BY DEF Count, Counted, TypeOK, RequestOK, Granted, Witnessed, ApprovalSteps
<1>3. /\ history'.of[r] = [history.of[r] EXCEPT !.outran = FALSE, !.loss = loss]
      /\ ruling' = ruling /\ screened' = screened
  BY DEF Count, Counted, TypeOK, world
<1>4. daily # Unknown => loss <= daily
  <2>1. realised \in Int /\ history.opened \in Int /\ day_baseline \in Money
    BY DEF TypeOK
  <2>2. CASE LossIsTold
    <3>1. daily = Larger(0, history.opened - realised)
      BY <2>1, <2>2, DeskAssumption DEF LossIsTold, PeriodLoss
    <3> QED
      BY <2>1, <2>2, <3>1 DEF Larger, LossIsTold
  <2>3. CASE ~LossIsTold
    <3>1. daily \in Loss
      BY <2>1, LossType
    <3> QED
      BY <2>3, <3>1 DEF Loss
  <2> QED
    BY <2>2, <2>3
<1> HIDE DEF n, daily, weekly, loss
<1>5. /\ request'[r].pc = "counted" /\ request'[r].status = "NONE"
      /\ request'[r].order = request[r].order
      /\ request'[r].account_type = request[r].account_type
      /\ request'[r].shariah = request[r].shariah /\ request'[r].daily_loss = daily
  BY <1>1, <1>2 DEF Request
<1>6. /\ history'.of[r].loss = loss /\ history'.of[r].cash = history.of[r].cash
      /\ history'.of[r].cleared = history.of[r].cleared
  BY <1>3 DEF TypeOK, Past
<1> QED
  BY <1>2, <1>3, <1>4, <1>5, <1>6
  DEF RequestOK, Witnessed, LossRead, Limited, Granted, Approved, ApprovalSteps

LEMMA AssessOK ==
    ASSUME TypeOK, NEW r \in Requests, RequestOK(r), Assess(r)
    PROVE  RequestOK(r)'
<1> DEFINE risk == RiskPasses(positions, Quote, SectorOf, request[r].order,
                              request[r].daily_loss, request[r].weekly_loss,
                              request[r].orders_today)
           raced == \E p \in Requests : Outstanding(p)
<1>1. request'[r] = [request[r] EXCEPT !.pc = "assessed", !.risk = risk]
  BY DEF Assess, TypeOK
<1>2. /\ request[r] \in Request /\ request[r].pc = "counted" /\ request[r].status = "NONE"
      /\ request[r].account_type = "CASH"
           => IF Alpaca THEN history.of[r].cash ELSE request[r].order.asset_class = "equity"
      /\ ruling[request[r].order.symbol] = "PASS" => history.of[r].cleared
      /\ request[r].shariah = "PASS" => request[r].order.symbol \in Fixtures \/ history.of[r].cleared
      /\ request[r].daily_loss # Unknown => history.of[r].loss <= request[r].daily_loss
  BY DEF Assess, TypeOK, RequestOK, Granted, Witnessed, LossRead, ApprovalSteps
<1>3. /\ history'.of[r] = [history.of[r] EXCEPT !.raced = raced]
      /\ ruling' = ruling /\ screened' = screened
  BY DEF Assess, TypeOK, world
<1>4. risk => Within(request[r].daily_loss, MaxDailyLoss) /\ OrdersBelow(request[r].orders_today)
  BY DEF RiskPasses, CheckOrder
<1> HIDE DEF risk, raced
<1>5. /\ request'[r].pc = "assessed" /\ request'[r].status = "NONE" /\ request'[r].risk = risk
      /\ request'[r].order = request[r].order
      /\ request'[r].account_type = request[r].account_type
      /\ request'[r].shariah = request[r].shariah
      /\ request'[r].daily_loss = request[r].daily_loss
      /\ request'[r].orders_today = request[r].orders_today
  BY <1>1, <1>2 DEF Request
<1>6. /\ history'.of[r].loss = history.of[r].loss /\ history'.of[r].cash = history.of[r].cash
      /\ history'.of[r].cleared = history.of[r].cleared
  BY <1>3 DEF TypeOK, Past
<1> QED
  BY <1>2, <1>3, <1>4, <1>5, <1>6
  DEF RequestOK, Witnessed, LossRead, Limited, Granted, Approved, ApprovalSteps

(* The row of a request keeps its order. *)
LEMMA RowIs ==
    ASSUME NEW r \in Requests, NEW status
    PROVE  /\ Row(r, status).pc = "recorded" /\ Row(r, status).status = status
           /\ Row(r, status).order = request[r].order
           /\ Row(r, status).created_at = day
BY DEF Row, NoRequest

LEMMA RecordOK ==
    ASSUME TypeOK, NEW r \in Requests, RequestOK(r), Record(r)
    PROVE  RequestOK(r)'
<1>1. request[r].pc = "assessed"
  BY DEF Record
<1>2. CASE \E status \in {"REJECT", "PENDING_APPROVAL"} : request' = [request EXCEPT ![r] = Row(r, status)]
  <2>1. /\ request'[r].pc = "recorded" /\ request'[r].status # "APPROVED_PAPER_READY"
    BY <1>2, RowIs DEF TypeOK
  <2> QED
    BY <1>1, <2>1
    DEF RequestOK, Witnessed, LossRead, Limited, Granted, Approved, ApprovalSteps
<1>3. CASE /\ ~Refused(request[r])
           /\ request' = [request EXCEPT ![r] = Row(r, "APPROVED_PAPER_READY")]
           /\ history' = [history EXCEPT !.of = Overtake(r)]
  <2>1. request'[r].pc = "recorded" /\ request'[r].order = request[r].order
    BY <1>3, RowIs DEF TypeOK
  <2>2. history'.of[r] = history.of[r]
    BY <1>3 DEF TypeOK, Overtake
  <2>3. /\ request[r].order.symbol \in Fixtures \/ history.of[r].cleared
        /\ IF Alpaca THEN history.of[r].cash ELSE request[r].order.asset_class = "equity"
        /\ ~request[r].order.option_contract
    BY <1>1, <1>3 DEF Refused, RequestOK, Witnessed, ApprovalSteps
  <2>4. history.of[r].loss <= MaxDailyLoss
    <3>1. /\ request[r].daily_loss # Unknown /\ request[r].daily_loss <= MaxDailyLoss
          /\ history.of[r].loss <= request[r].daily_loss
      BY <1>1, <1>3 DEF Refused, RequestOK, LossRead, Limited, Within
    <3>2. request[r].daily_loss \in Int /\ history.of[r].loss \in Int /\ MaxDailyLoss \in Int
      BY <3>1, DeskAssumption DEF TypeOK, Request, Past, Loss
    <3> QED
      BY <3>1, <3>2
  <2> QED
    BY <1>1, <2>1, <2>2, <2>3, <2>4
    DEF RequestOK, Witnessed, LossRead, Limited, Granted, Approved, ApprovalSteps
<1> QED
  BY <1>2, <1>3 DEF Record

LEMMA BookOK ==
    ASSUME TypeOK, NEW r \in Requests, RequestOK(r), Book(r)
    PROVE  RequestOK(r)'
<1>1. /\ request'[r] = [request[r] EXCEPT !.pc = "booked"] /\ request[r].pc = "recorded"
      /\ history' = history
  BY DEF Book, TypeOK
<1>2. /\ request'[r].pc = "booked" /\ request'[r].status = request[r].status
      /\ request'[r].order = request[r].order
  BY <1>1 DEF TypeOK, Request
<1> QED
  BY <1>1, <1>2
  DEF RequestOK, Witnessed, LossRead, Limited, Granted, Approved, ApprovalSteps

LEMMA RequestsInit == Init => RequestsOK
<1> SUFFICES ASSUME Init, NEW r \in Requests PROVE RequestOK(r)
  BY DEF RequestsOK
<1>1. request[r] = NoRequest
  BY DEF Init
<1> QED
  BY <1>1, RequestType
  DEF RequestOK, Witnessed, LossRead, Limited, Granted, Approved, ApprovalSteps

LEMMA RequestsStep == TypeOK /\ RequestsOK /\ [Next]_vars => RequestsOK'
<1> SUFFICES ASSUME TypeOK, RequestsOK, [Next]_vars, NEW r \in Requests PROVE RequestOK(r)'
  BY DEF RequestsOK
<1>1. \A p \in Requests : RequestOK(p)
  BY DEF RequestsOK
<1>2. CASE Serve(r)
  BY <1>1, <1>2, EvaluateOK, PreviewOK, PostOK, AskOK, DeriveOK, CountOK, AssessOK, RecordOK,
     BookOK DEF Serve
<1>3. CASE Kept(r)
  BY <1>1, <1>3, KeptOK
<1> QED
  BY <1>2, <1>3, Others

(* Whatever preview is posted and whatever changes meanwhile, an approval  *)
(* rests on a ruling that allowed it while it was under way, unless it is  *)
(* for a fixture's symbol; with one of Alpaca's adapters it rests on the   *)
(* account in the same way, and with another it is for shares; and none    *)
(* is for an option contract (approve_paper_order, approve_candidate).     *)
THEOREM ApprovedIsPermitted == Spec => []ApprovedWasPermitted
<1>1. RequestsOK => ApprovedWasPermitted
  BY DEF RequestsOK, RequestOK, Granted, ApprovedWasPermitted
<1> QED
  BY InitTyped, StepTyped, RequestsInit, RequestsStep, <1>1, PTL DEF Spec

(* A day's losses that the snapshots tell stop every approval that reads   *)
(* them, at any limit.                                                     *)
THEOREM LossesStop == Spec => []LossesStopTrading
<1>1. RequestsOK => LossesStopTrading
  BY DEF RequestsOK, RequestOK, Granted, LossesStopTrading
<1> QED
  BY InitTyped, StepTyped, RequestsInit, RequestsStep, <1>1, PTL DEF Spec

-----------------------------------------------------------------------------
(* The rows of the queue.  Approve is the one step that adds an approved   *)
(* row: Record where nothing refuses the order and the owner has ticked.   *)
Approve(r) ==
    /\ request[r].pc = "assessed" /\ ~Refused(request[r])
    /\ request' = [request EXCEPT ![r] = Row(r, "APPROVED_PAPER_READY")]
    /\ history' = [history EXCEPT !.of = Overtake(r)]
    /\ UNCHANGED <<world, screened, ledger, marks, bounds>>

Dismiss(r) ==
    /\ request[r].pc = "assessed"
    /\ \E status \in {"REJECT", "PENDING_APPROVAL"} : request' = [request EXCEPT ![r] = Row(r, status)]
    /\ UNCHANGED <<world, screened, ledger, marks, bounds>>

RowKept(r) ==
    /\ Approved(r)' <=> Approved(r)
    /\ Approved(r) =>
         /\ request'[r].created_at = request[r].created_at /\ request'[r].order = request[r].order
         /\ history'.of[r].outran <=> history.of[r].outran
         /\ history'.of[r].raced <=> history.of[r].raced

LEMMA Recorded == \A r \in Requests : Record(r) => Approve(r) \/ Dismiss(r)
BY DEF Record, Approve, Dismiss

(* No other step touches what an approved row says, and what is remembered *)
(* of its approval stays.                                                  *)
LEMMA RowsKept ==
    ASSUME TypeOK, RequestsOK, [Next]_vars, NEW r \in Requests, ~Approve(r)
    PROVE  RowKept(r)
<1>1. CASE Kept(r)
  <2>1. Approved(r) => request[r].pc \in {"recorded", "booked"}
    BY DEF RequestsOK, RequestOK, Granted, Approved
  <2> QED
    BY <1>1, <2>1 DEF Kept, RowKept, Approved
<1>2. CASE /\ Serve(r) /\ request[r].pc \in ApprovalSteps \cup {"new", "evaluated", "previewed"}
           /\ request'[r].status = "NONE"
  <2>1. ~Approved(r) /\ ~Approved(r)'
    BY <1>2 DEF RequestsOK, RequestOK, Granted, Approved, ApprovalSteps
  <2> QED
    BY <2>1 DEF RowKept
<1>0. /\ request[r].pc \notin {"recorded", "booked"} => request[r].status = "NONE"
      /\ request[r] \in Request /\ r \in DOMAIN request
  BY DEF RequestsOK, RequestOK, Granted, TypeOK
<1>3. ASSUME NEW order \in Orders, NEW flag \in BOOLEAN, Evaluate(r, order, flag)
      PROVE  RowKept(r)
  <2>0. PICK b \in BOOLEAN :
          request' = [request EXCEPT ![r].pc = "evaluated", ![r].order = order, ![r].blocked = b]
    BY <1>3, EvaluateIs
  <2>2. request[r].pc = "new"
    BY <1>3, EvaluateIs
  <2>1. request[r].pc = "new" /\ request'[r].status = "NONE"
    BY <1>0, <2>0, <2>2 DEF Request
  <2> QED
    BY <1>2, <1>3, <2>1 DEF Serve
<1>4. ASSUME NEW order \in Orders, NEW ready \in BOOLEAN, Post(r, order, ready)
      PROVE  RowKept(r)
  <2>1. request'[r].status = "NONE" /\ request[r].pc = "new"
    BY <1>0, <1>4, RequestType DEF Post, Request
  <2> QED
    BY <1>2, <1>4, <2>1 DEF Serve
<1>5. CASE Preview(r)
  BY <1>0, <1>5, <1>2 DEF Preview, Serve, Request
<1>6. CASE Ask(r)
  BY <1>0, <1>6, <1>2 DEF Ask, Serve, Request
<1>7. CASE Derive(r)
  BY <1>0, <1>7, <1>2 DEF Derive, Serve, Request, ApprovalSteps
<1>8. CASE Count(r)
  BY <1>0, <1>8, <1>2 DEF Count, Counted, Serve, Request, ApprovalSteps
<1>9. CASE Assess(r)
  BY <1>0, <1>9, <1>2 DEF Assess, Serve, Request, ApprovalSteps
<1>10. CASE Dismiss(r)
  <2>1. request[r].status = "NONE"
    BY <1>0, <1>10 DEF Dismiss
  <2>2. request'[r].status # "APPROVED_PAPER_READY"
    BY <1>0, <1>10, RowIs DEF Dismiss
  <2> QED
    BY <2>1, <2>2 DEF RowKept, Approved
<1>11. CASE Book(r)
  <2>1. request'[r] = [request[r] EXCEPT !.pc = "booked"] /\ history' = history
    BY <1>0, <1>11 DEF Book
  <2> QED
    BY <1>0, <2>1 DEF RowKept, Approved, Request
<1>12. Serve(r) => RowKept(r)
  BY <1>3, <1>4, <1>5, <1>6, <1>7, <1>8, <1>9, <1>10, <1>11, Recorded DEF Serve
<1> QED
  BY <1>1, <1>12, Others

(* An approval is of one request, and the others stay as they are. *)
LEMMA ApproveOne ==
    ASSUME TypeOK, NEW r \in Requests, Approve(r)
    PROVE  /\ request'[r] = Row(r, "APPROVED_PAPER_READY")
           /\ history'.of[r] = history.of[r] /\ day' = day
           /\ \A q \in Requests \ {r} : request'[q] = request[q] /\ ~Approve(q)
<1>1. \A q \in Requests : request'[q] = IF q = r THEN Row(r, "APPROVED_PAPER_READY") ELSE request[q]
  BY DEF Approve, TypeOK
<1>2. ASSUME NEW q \in Requests \ {r}, Approve(q) PROVE FALSE
  <2>1. request'[q] = request[q] /\ request[q].pc = "assessed"
    BY <1>1, <1>2 DEF Approve
  <2>2. request'[q] = Row(q, "APPROVED_PAPER_READY")
    BY <1>2 DEF Approve, TypeOK
  <2> QED
    BY <2>1, <2>2, RowIs
<1>3. history'.of[r] = history.of[r] /\ day' = day
  BY DEF Approve, TypeOK, Overtake, bounds
<1> QED
  BY <1>1, <1>2, <1>3

-----------------------------------------------------------------------------
(* The order cap.  A count that no approval and no midnight has overtaken  *)
(* is still the number of the day's approved rows.                         *)
CountHolds(r) ==
    request[r].pc \in {"counted", "assessed"} /\ ~history.of[r].outran
        => request[r].orders_today = OrdersToday
CountsHold == \A r \in Requests : CountHolds(r)

LEMMA DayMoves ==
    ASSUME TypeOK, [Next]_vars
    PROVE  day' = day \/ NextDay
BY DEF Next, Environment, Serve, Evaluate, Post, Preview, Ask, Derive, Count, Counted, Assess,
       Record, Book, Rule, Reprice, Outage, Requote, ChangeAccount, Snapshot, bounds, vars

LEMMA TodayStays ==
    ASSUME TypeOK, RequestsOK, [Next]_vars, day' = day, \A q \in Requests : ~Approve(q)
    PROVE  OrdersToday' = OrdersToday
<1>1. \A q \in Requests : RowKept(q)
  BY RowsKept
<1>2. \A q \in Requests : (Approved(q) /\ request[q].created_at = day)'
                            <=> Approved(q) /\ request[q].created_at = day
  BY <1>1 DEF RowKept
<1>3. {q \in Requests : Approved(q) /\ request[q].created_at = day}'
        = {q \in Requests : Approved(q) /\ request[q].created_at = day}
  BY <1>2
<1> QED
  BY <1>3 DEF OrdersToday

LEMMA CountsInit == Init => CountsHold
<1> SUFFICES ASSUME Init, NEW r \in Requests PROVE CountHolds(r)
  BY DEF CountsHold
<1>1. request[r].pc = "new"
  BY RequestType DEF Init
<1> QED
  BY <1>1 DEF CountHolds

LEMMA CountsStep == TypeOK /\ RequestsOK /\ CountsHold /\ [Next]_vars => CountsHold'
<1> SUFFICES ASSUME TypeOK, RequestsOK, CountsHold, [Next]_vars, NEW r \in Requests
             PROVE  CountHolds(r)'
  BY DEF CountsHold
<1>0. CountHolds(r) /\ request[r] \in Request /\ r \in DOMAIN request /\ history.of[r] \in Past
  BY DEF CountsHold, TypeOK
<1>1. CASE Kept(r)
  <2>1. ASSUME NEW p \in Requests, Approve(p) PROVE CountHolds(r)'
    <3>1. CASE p = r
      BY <2>1, <3>1, ApproveOne, RowIs DEF CountHolds
    <3>2. CASE p # r
      <4>1. history'.of[r] = [history.of[r] EXCEPT
                !.outran = @ \/ request[r].pc \in {"counted", "assessed"},
                !.raced  = @ \/ (request[r].pc = "assessed" /\ Purchase(request[p].order))]
        BY <2>1, <3>2 DEF Approve, Overtake, TypeOK
      <4>2. history'.of[r].outran = (history.of[r].outran \/ request[r].pc \in {"counted", "assessed"})
        BY <1>0, <4>1 DEF Past
      <4> QED
        BY <1>1, <4>2 DEF CountHolds, Kept
    <3> QED
      BY <3>1, <3>2
  <2>2. CASE NextDay
    <3>1. history'.of[r] = [history.of[r] EXCEPT
              !.outran = @ \/ request[r].pc \in {"counted", "assessed"}]
      BY <2>2 DEF NextDay, Overnight, TypeOK
    <3>2. history'.of[r].outran = (history.of[r].outran \/ request[r].pc \in {"counted", "assessed"})
      BY <1>0, <3>1 DEF Past
    <3> QED
      BY <1>1, <3>2 DEF CountHolds, Kept
  <2>3. CASE day' = day /\ \A q \in Requests : ~Approve(q)
    BY <1>0, <1>1, <2>3, TodayStays DEF CountHolds, Kept
  <2> QED
    BY <2>1, <2>2, <2>3, DayMoves
<1>2. CASE Count(r) \/ Assess(r)
  <2>1. \A q \in Requests : ~Approve(q)
    <3> SUFFICES ASSUME NEW q \in Requests, Approve(q) PROVE FALSE
      OBVIOUS
    <3>1. request'[r].pc \in {"counted", "assessed"}
      BY <1>0, <1>2 DEF Count, Counted, Assess, Request
    <3>2. q # r
      BY <3>1, ApproveOne, RowIs
    <3>3. request'[q] = request[q] /\ q \in DOMAIN request
      BY <1>2, <3>2 DEF Count, Counted, Assess, TypeOK
    <3> QED
      BY <3>3, ApproveOne, RowIs DEF Approve
  <2>2. OrdersToday' = OrdersToday
    BY <1>2, <2>1, TodayStays DEF Count, Counted, Assess, bounds
  <2>3. CASE Count(r)
    <3> DEFINE n == OrdersToday
    <3>1. request'[r] = [request[r] EXCEPT !.pc = "counted", !.orders_today = n,
              !.daily_loss = PeriodLoss(realised, day_baseline),
              !.weekly_loss = PeriodLoss(realised, week_baseline)]
      BY <1>0, <2>3 DEF Count, Counted
    <3> HIDE DEF n
    <3>2. request'[r].orders_today = n
      BY <1>0, <3>1 DEF Request
    <3> QED
      BY <2>2, <3>2 DEF CountHolds, n
  <2>4. CASE Assess(r)
    <3> DEFINE raced == \E p \in Requests : Outstanding(p)
    <3>1. history'.of[r] = [history.of[r] EXCEPT !.raced = raced]
      BY <2>4 DEF Assess, TypeOK
    <3> HIDE DEF raced
    <3>2. history'.of[r].outran = history.of[r].outran
      BY <1>0, <3>1 DEF Past
    <3>3. request'[r].orders_today = request[r].orders_today /\ request[r].pc = "counted"
      BY <1>0, <2>4 DEF Assess, Request
    <3> QED
      BY <1>0, <2>2, <3>2, <3>3 DEF CountHolds
  <2> QED
    BY <1>2, <2>3, <2>4
<1>3. ASSUME NEW order \in Orders, NEW flag \in BOOLEAN, Evaluate(r, order, flag)
      PROVE  CountHolds(r)'
  <2>0. PICK b \in BOOLEAN :
          request' = [request EXCEPT ![r].pc = "evaluated", ![r].order = order, ![r].blocked = b]
    BY <1>3, EvaluateIs
  <2>1. request'[r].pc = "evaluated"
    BY <1>0, <2>0 DEF Request
  <2> QED
    BY <2>1 DEF CountHolds
<1>4. ASSUME NEW order \in Orders, NEW ready \in BOOLEAN, Post(r, order, ready)
      PROVE  CountHolds(r)'
  BY <1>0, <1>4, RequestType DEF Post, CountHolds, Request
<1>5. CASE Preview(r) \/ Ask(r) \/ Derive(r)
  BY <1>0, <1>5 DEF Preview, Ask, Derive, CountHolds, Request
<1>6. CASE Record(r)
  BY <1>0, <1>6, Recorded, RowIs DEF Approve, Dismiss, CountHolds
<1>7. CASE Book(r)
  BY <1>0, <1>7 DEF Book, CountHolds, Request
<1> QED
  BY <1>1, <1>2, <1>3, <1>4, <1>5, <1>6, <1>7, Others DEF Serve

LEMMA CapStep ==
    TypeOK /\ RequestsOK /\ CountsHold /\ OrdersWithinCap /\ [Next]_vars => OrdersWithinCap'
<1> SUFFICES ASSUME TypeOK, RequestsOK, CountsHold, OrdersWithinCap, [Next]_vars,
                    NEW d \in 0..MaxDay
             PROVE  Cardinality({r \in Requests : /\ Approved(r) /\ request[r].created_at = d
                                                   /\ ~history.of[r].outran}') <= MaxOrdersPerDay
  BY DEF OrdersWithinCap
<1> DEFINE Seen == {r \in Requests : /\ Approved(r) /\ request[r].created_at = d
                                     /\ ~history.of[r].outran}
           After == {r \in Requests : /\ Approved(r)' /\ request'[r].created_at = d
                                      /\ ~history'.of[r].outran}
<1> SUFFICES Cardinality(After) <= MaxOrdersPerDay
  OBVIOUS
<1>0. Cardinality(Seen) <= MaxOrdersPerDay
  BY DEF OrdersWithinCap
<1>1. \A q \in Requests : ~Approve(q) => (q \in After <=> q \in Seen)
  BY RowsKept DEF RowKept
<1>2. CASE \A q \in Requests : ~Approve(q)
  <2>1. After = Seen
    BY <1>1, <1>2
  <2> HIDE DEF Seen, After
  <2> QED
    BY <1>0, <2>1
<1>3. ASSUME NEW p \in Requests, Approve(p) PROVE Cardinality(After) <= MaxOrdersPerDay
  <2> DEFINE Today == {q \in Requests : Approved(q) /\ request[q].created_at = day}
  <2>1. \A q \in Requests \ {p} : q \in After <=> q \in Seen
    BY <1>1, <1>3, ApproveOne
  <2>2. p \notin Seen
    BY <1>3 DEF RequestsOK, RequestOK, Granted, Approve, Approved
  <2>3. p \in After => d = day /\ ~history.of[p].outran
    BY <1>3, ApproveOne, RowIs
  <2>4. CASE p \in After
    <3>1. request[p].orders_today = OrdersToday
      BY <1>3, <2>3, <2>4 DEF CountsHold, CountHolds, Approve
    <3>2. OrdersToday < MaxOrdersPerDay
      BY <1>3, <3>1 DEF Approve, Refused, RequestsOK, RequestOK, Limited, OrdersBelow
    <3>3. IsFiniteSet(Today) /\ Cardinality(Today) \in Nat /\ OrdersToday = Cardinality(Today)
      BY DeskAssumption, FS_Subset, FS_CardinalityType DEF OrdersToday
    <3>4. After \subseteq Today \cup {p}
      BY <2>1, <2>3, <2>4
    <3> HIDE DEF Today, After
    <3>5. /\ IsFiniteSet(Today \cup {p}) /\ Cardinality(Today \cup {p}) \in Nat
          /\ Cardinality(Today \cup {p}) <= Cardinality(Today) + 1
      BY <3>3, FS_AddElement
    <3>6. Cardinality(After) <= Cardinality(Today \cup {p}) /\ Cardinality(After) \in Nat
      BY <3>4, <3>5, FS_Subset, FS_CardinalityType
    <3>7. MaxOrdersPerDay \in Nat
      BY DeskAssumption
    <3> QED
      BY <3>2, <3>3, <3>5, <3>6, <3>7
  <2>5. CASE p \notin After
    <3>1. After = Seen
      BY <2>1, <2>2, <2>5
    <3> HIDE DEF Seen, After
    <3> QED
      BY <1>0, <3>1
  <2> QED
    BY <2>4, <2>5
<1> QED
  BY <1>2, <1>3

(* However many approvals are under way, a day has no more approved orders *)
(* than the cap but for those whose count was overtaken before their row.  *)
THEOREM CapHolds == Spec => []OrdersWithinCap
<1>1. Init => OrdersWithinCap
  <2> SUFFICES ASSUME Init, NEW d \in 0..MaxDay
               PROVE  Cardinality({r \in Requests : /\ Approved(r) /\ request[r].created_at = d
                                                     /\ ~history.of[r].outran}) <= MaxOrdersPerDay
    BY DEF OrdersWithinCap
  <2>1. \A r \in Requests : ~Approved(r)
    BY RequestType DEF Init, Approved
  <2> DEFINE Seen == {r \in Requests : /\ Approved(r) /\ request[r].created_at = d
                                       /\ ~history.of[r].outran}
  <2>2. Seen = {}
    BY <2>1
  <2> HIDE DEF Seen
  <2>3. Cardinality(Seen) <= MaxOrdersPerDay
    BY <2>2, FS_EmptySet, DeskAssumption
  <2> QED
    BY <2>3 DEF Seen
<1> QED
  BY InitTyped, StepTyped, RequestsInit, RequestsStep, CountsInit, CountsStep, <1>1, CapStep, PTL
  DEF Spec

-----------------------------------------------------------------------------
(* The exposure.                                                           *)

LEMMA WorthType ==
    ASSUME TypeOK
    PROVE  /\ \A s \in Symbols : Worth[s] \in Nat /\ Worth[s] = positions[s].quantity * market[s]
           /\ \A r \in Requests : /\ Notional[r] \in Nat
                                  /\ Notional[r] = request[r].order.quantity * request[r].order.price
<1>1. \A s \in Symbols : positions[s].quantity \in Nat /\ market[s] \in Nat
  BY DeskAssumption DEF TypeOK
<1>2. ASSUME NEW r \in Requests PROVE Notional[r] \in Nat
  <2>1. request[r].order.quantity \in Nat /\ request[r].order.price \in Nat
    BY OrderType
  <2>2. Notional[r] = request[r].order.quantity * request[r].order.price
    BY DEF Notional
  <2> DEFINE n == request[r].order.quantity
             m == request[r].order.price
  <2> HIDE DEF n, m
  <2>3. n \in Nat /\ m \in Nat => n * m \in Nat
    OBVIOUS
  <2> QED
    BY <2>1, <2>2, <2>3 DEF n, m
<1>3. ASSUME NEW s \in Symbols PROVE Worth[s] \in Nat
  <2> DEFINE n == positions[s].quantity
             m == market[s]
  <2>1. n \in Nat /\ m \in Nat /\ Worth[s] = n * m
    BY <1>1 DEF Worth
  <2> HIDE DEF n, m
  <2> QED
    BY <2>1
<1> QED
  BY <1>2, <1>3 DEF Worth, Notional

Counting ==
    (\A s \in Symbols : Worth[s] \in Nat) /\ (\A r \in Requests : Notional[r] \in Nat)
LEMMA CountingHolds == TypeOK => Counting
BY WorthType DEF Counting

LEMMA SetsFinite ==
    ASSUME NEW T \in SUBSET Symbols
    PROVE  /\ IsFiniteSet(T) /\ IsFiniteSet(Waiting(T)) /\ IsFiniteSet(Raced(T))
           /\ Waiting(T) \subseteq Requests /\ Raced(T) \subseteq Requests
<1>1. Waiting(T) \in SUBSET Requests /\ Raced(T) \in SUBSET Requests
  BY DEF Waiting, Raced
<1> QED
  BY <1>1, FS_Subset, DeskAssumption

LEMMA ExposureType ==
    ASSUME TypeOK, NEW T \in SUBSET Symbols
    PROVE  /\ SumFunctionOnSet(Worth, T) \in Nat
           /\ SumFunctionOnSet(Notional, Waiting(T)) \in Nat
           /\ Committed(T) \in Nat /\ Excess(T) \in Nat
<1>1. SumFunctionOnSet(Worth, T) \in Nat
  BY SetsFinite, WorthType, SumPart
<1>2. SumFunctionOnSet(Notional, Waiting(T)) \in Nat
  BY SetsFinite, WorthType, SumPart
<1>3. SumFunctionOnSet(Notional, Raced(T)) \in Nat
  BY SetsFinite, WorthType, SumPart
<1> QED
  BY <1>1, <1>2, <1>3 DEF Committed, Excess

Typed == \A T \in SUBSET Symbols : Committed(T) \in Nat /\ Excess(T) \in Nat
LEMMA ExposureTyped == TypeOK => Typed
BY ExposureType DEF Typed

(* What a calm step does to the book: a fill, or prices that do not rise;  *)
(* a symbol that is classified meanwhile is neither held nor being bought. *)
LEMMA CalmStep ==
    ASSUME TypeOK, [Next]_vars, history'.calm
    PROVE  /\ history.calm
           /\ \/ \E r \in Requests : Book(r)
              \/ positions' = positions /\ \A s \in Symbols : market'[s] <= market[s]
           /\ \A s \in screened' \ screened : ~AtStake(s)
<1>0. /\ DOMAIN history = {"of", "calm", "opened"} /\ history.calm \in BOOLEAN
      /\ \A s \in Symbols : market[s] \in Int
  <2>1. \A s \in Symbols : market[s] \in Prices
    BY DEF TypeOK
  <2>0. \A m \in Prices : m \in Int
    BY DeskAssumption
  <2>2. \A s \in Symbols : market[s] \in Int
    BY <2>0, <2>1
  <2>3. DOMAIN history = {"of", "calm", "opened"}
    BY DEF TypeOK
  <2>4. history.calm \in BOOLEAN
    BY DEF TypeOK
  <2> QED
    BY <2>2, <2>3, <2>4
<1>1. ASSUME NEW r \in Requests, NEW order \in Orders, NEW flag \in BOOLEAN,
             Evaluate(r, order, flag)
      PROVE  /\ history.calm /\ positions' = positions /\ market' = market
             /\ \A s \in screened' \ screened : ~AtStake(s)
  BY <1>1, EvaluateIs, ConsultedKeeps DEF world, ledger
<1>2. ASSUME NEW r \in Requests, Derive(r)
      PROVE  /\ history.calm /\ positions' = positions /\ market' = market
             /\ \A s \in screened' \ screened : ~AtStake(s)
  <2>1. PICK s \in Symbols : Consulted(s, s \notin Fixtures)
    BY <1>2, OrderType DEF Derive
  <2> QED
    BY <1>2, <2>1, ConsultedKeeps DEF Derive, world, ledger
<1>3. ASSUME NEW r \in Requests,
             \/ \E order \in Orders, ready \in BOOLEAN : Post(r, order, ready)
             \/ Preview(r) \/ Ask(r) \/ Count(r) \/ Assess(r) \/ Record(r)
      PROVE  history.calm /\ positions' = positions /\ market' = market /\ screened' = screened
  BY <1>0, <1>3 DEF Post, Preview, Ask, Count, Counted, Assess, Record, world, ledger
<1>4. ASSUME NEW r \in Requests, Book(r)
      PROVE  history.calm /\ screened' = screened
  BY <1>0, <1>4 DEF Book
<1>5. ASSUME NEW s \in Symbols, NEW price \in Prices, Reprice(s, price)
      PROVE  /\ history.calm /\ positions' = positions /\ screened' = screened
             /\ \A t \in Symbols : market'[t] <= market[t]
  <2>1. history.calm /\ price <= market[s]
    BY <1>0, <1>5 DEF Reprice
  <2>2. \A t \in Symbols : market'[t] = IF t = s THEN price ELSE market[t]
    BY <1>5 DEF Reprice, TypeOK
  <2> QED
    BY <1>0, <1>5, <2>1, <2>2 DEF Reprice, ledger
<1>6. CASE \/ \E s \in Symbols : \/ \E verdict \in Rulings : Rule(s, verdict)
                                \/ Outage(s) \/ Requote(s)
           \/ \E type \in Accounts : ChangeAccount(type)
           \/ Snapshot \/ NextDay \/ UNCHANGED vars
  <2>1. history.calm /\ positions' = positions /\ market' = market /\ screened' = screened
    BY <1>0, <1>6 DEF Rule, Outage, Requote, ChangeAccount, Snapshot, NextDay, world, ledger, vars
  <2> QED
    BY <1>0, <2>1
<1> QED
  BY <1>0, <1>1, <1>2, <1>3, <1>4, <1>5, <1>6 DEF Next, Serve, Environment

(* While it is calm, nothing is worth more than it cost. *)
Cheap == history.calm => AtCostOrBelow(positions, market)

LEMMA BookWorth ==
    ASSUME TypeOK, AtCostOrBelow(positions, market), NEW r \in Requests, Book(r)
    PROVE  LET s == request[r].order.symbol IN
           /\ s \in Symbols /\ market' = market
           /\ \A t \in Symbols \ {s} : positions'[t] = positions[t] /\ Worth'[t] = Worth[t]
           /\ positions'[s].quantity * market[s] <= positions'[s].cost
           /\ request[r].order.side = "BUY" => Worth'[s] <= Worth[s] + Notional[r]
           /\ request[r].order.side = "SELL" => Worth'[s] <= Worth[s]
<1> DEFINE s == request[r].order.symbol
           side == request[r].order.side
           n == request[r].order.quantity
           c == request[r].order.price
           m == market[s]
           p == Filled(positions[s], side, n, m)
<1>1. positions' = [positions EXCEPT ![s] = p] /\ market' = market /\ (side = "BUY" => m <= c)
  BY DEF Book, world
<1>2. s \in Symbols /\ side \in {"BUY", "SELL"} /\ n \in Nat /\ c \in Nat
  BY OrderType
<1> DEFINE old == positions[s]
<1>3. /\ old \in [quantity : Nat, cost : Nat] /\ m \in Nat
      /\ old.quantity * m <= old.cost
  <2> HIDE DEF s
  <2> QED
    BY <1>2, DeskAssumption DEF TypeOK, AtCostOrBelow
<1>4. /\ p \in [quantity : Nat, cost : Nat] /\ p.quantity * m <= p.cost
      /\ side = "SELL" => p.quantity <= old.quantity
      /\ side = "BUY" => p.quantity = old.quantity + n
  <2>1. p = Filled(old, side, n, m)
    OBVIOUS
  <2> HIDE DEF s, side, n, m, old, p
  <2>2. /\ old.quantity * m <= old.cost
             => Filled(old, side, n, m).quantity * m <= Filled(old, side, n, m).cost
        /\ Filled(old, side, n, m) \in [quantity : Nat, cost : Nat]
    BY <1>2, <1>3, FillType
  <2>3. side = "SELL" => Filled(old, side, n, m).quantity <= old.quantity
    BY <1>2, <1>3, FillType
  <2>4. side = "BUY" => Filled(old, side, n, m).quantity = old.quantity + n
    BY <1>2, <1>3, FillType
  <2> QED
    BY <1>3, <2>1, <2>2, <2>3, <2>4
<1>5. \A t \in Symbols : positions'[t] = IF t = s THEN p ELSE positions[t]
  <2> HIDE DEF s, p
  <2> QED
    BY <1>1 DEF TypeOK
<1>6. \A t \in Symbols : Worth'[t] = positions'[t].quantity * market[t]
  BY <1>1 DEF Worth
<1>7. Worth[s] = old.quantity * m /\ Notional[r] = n * c
  BY <1>2 DEF Worth, Notional
<1>8. side = "BUY" => p.quantity * m <= old.quantity * m + n * c
  <2> SUFFICES ASSUME side = "BUY" PROVE p.quantity * m <= old.quantity * m + n * c
    OBVIOUS
  <2> DEFINE o == old.quantity
             q == p.quantity
  <2>1. o \in Nat /\ q = o + n /\ m <= c
    BY <1>1, <1>3, <1>4
  <2> HIDE DEF o, q, n, m, c, p, old, s
  <2>2. q * m = o * m + n * m
    BY <1>2, <1>3, <2>1
  <2>3. n * m <= n * c
    BY <1>2, <1>3, <2>1
  <2>4. o * m \in Nat /\ n * m \in Nat /\ n * c \in Nat /\ q * m \in Nat
    BY <1>2, <1>3, <2>1
  <2>5. q * m <= o * m + n * c
    BY <2>2, <2>3, <2>4
  <2> QED
    BY <2>5 DEF o, q
<1>9. side = "SELL" => p.quantity * m <= old.quantity * m
  <2> SUFFICES ASSUME side = "SELL" PROVE p.quantity * m <= old.quantity * m
    OBVIOUS
  <2> DEFINE o == old.quantity
             q == p.quantity
  <2>1. o \in Nat /\ q \in Nat /\ q <= o
    BY <1>3, <1>4
  <2> HIDE DEF o, q, m
  <2>2. q * m <= o * m
    BY <1>3, <2>1
  <2> QED
    BY <2>2 DEF o, q
<1>10. Worth'[s] = p.quantity * m /\ positions'[s] = p
  BY <1>2, <1>5, <1>6
<1>11. \A t \in Symbols \ {s} : Worth'[t] = Worth[t]
  BY <1>5, <1>6 DEF Worth
<1>12. side = "BUY" => Worth'[s] <= Worth[s] + Notional[r]
  BY <1>7, <1>8, <1>10
<1>13. side = "SELL" => Worth'[s] <= Worth[s]
  BY <1>7, <1>9, <1>10
<1> HIDE DEF p, m
<1> QED
  BY <1>1, <1>2, <1>4, <1>5, <1>10, <1>11, <1>12, <1>13 DEF m

LEMMA CheapInit == Init => Cheap
BY DEF Init, Cheap, AtCostOrBelow

LEMMA CheapStep == TypeOK /\ Cheap /\ [Next]_vars => Cheap'
<1> SUFFICES ASSUME TypeOK, Cheap, [Next]_vars, history'.calm, NEW s \in Symbols
             PROVE  positions'[s].quantity * market'[s] <= positions'[s].cost
  BY DEF Cheap, AtCostOrBelow
<1>1. AtCostOrBelow(positions, market)
  BY CalmStep DEF Cheap
<1>2. CASE \E r \in Requests : Book(r)
  <2>1. PICK r \in Requests : Book(r)
    BY <1>2
  <2>2. CASE s = request[r].order.symbol
    BY <1>1, <2>1, <2>2, BookWorth
  <2>3. CASE s # request[r].order.symbol
    <3>1. positions'[s] = positions[s] /\ market' = market
      BY <1>1, <2>1, <2>3, BookWorth
    <3> QED
      BY <1>1, <3>1 DEF AtCostOrBelow
  <2> QED
    BY <2>2, <2>3
<1>3. CASE positions' = positions /\ market'[s] <= market[s]
  <2> DEFINE q == positions[s].quantity
             c == positions[s].cost
             m == market[s]
             n == market'[s]
  <2>1. q \in Nat /\ c \in Nat /\ m \in Nat /\ n \in Nat /\ n <= m /\ q * m <= c
    <3>1. TypeOK'
      BY StepTyped
    <3> QED
      BY <1>1, <1>3, <3>1, DeskAssumption DEF TypeOK, AtCostOrBelow
  <2> HIDE DEF q, c, m, n
  <2>2. q * n <= q * m /\ q * n \in Nat /\ q * m \in Nat
    BY <2>1
  <2>3. q * n <= c
    BY <2>1, <2>2
  <2> QED
    BY <1>3, <2>3 DEF q, c, n
<1> QED
  BY <1>2, <1>3, CalmStep

(* Only an approval makes an order outstanding, and only its booking ends  *)
(* that.                                                                   *)
LEMMA Outlasts ==
    ASSUME TypeOK, RequestsOK, [Next]_vars, NEW q \in Requests, ~Approve(q)
    PROVE  /\ ~Book(q) => (Outstanding(q)' <=> Outstanding(q))
           /\ Book(q) => ~Outstanding(q)' /\ request[q].pc = "recorded" /\ Approved(q)
           /\ Approved(q) => Notional'[q] = Notional[q] /\ request'[q].order = request[q].order
<1>1. RowKept(q)
  BY RowsKept
<1>2. Approved(q) => request[q].pc \in {"recorded", "booked"}
  BY DEF RequestsOK, RequestOK, Granted, Approved
<1>3. Approved(q) /\ Serve(q) => Book(q)
  BY <1>2 DEF Serve, Evaluate, Post, Preview, Ask, Derive, Count, Counted, Assess, Record
<1>4. Approved(q) /\ ~Book(q) => request'[q] = request[q]
  BY <1>3, Others DEF Kept
<1>5. Book(q) => request'[q].pc = "booked" /\ request[q].pc = "recorded" /\ Approved(q)
  BY DEF Book, TypeOK, Request
<1>6. Approved(q) => Notional'[q] = Notional[q] /\ request'[q].order = request[q].order
  BY <1>1 DEF RowKept, Notional
<1> QED
  BY <1>1, <1>4, <1>5, <1>6 DEF RowKept, Outstanding

(* While it is calm, only the booking of a purchase makes a symbol worth   *)
(* more, and by no more than its notional.                                 *)
LEMMA WorthMoves ==
    ASSUME TypeOK, Cheap, [Next]_vars, history'.calm, NEW s \in Symbols, ~(Worth'[s] <= Worth[s])
    PROVE  \E r \in Requests :
             /\ Book(r) /\ request[r].order.symbol = s /\ Purchase(request[r].order)
             /\ Worth'[s] <= Worth[s] + Notional[r]
             /\ \A t \in Symbols \ {s} : Worth'[t] = Worth[t]
<1>1. AtCostOrBelow(positions, market) /\ TypeOK' /\ Counting /\ Counting'
  BY CalmStep, StepTyped, CountingHolds, PTL DEF Cheap
<1>2. ~(positions' = positions /\ market'[s] <= market[s])
  <2> SUFFICES ASSUME positions' = positions, market'[s] <= market[s] PROVE FALSE
    OBVIOUS
  <2> DEFINE n == positions[s].quantity
             m == market[s]
             l == market'[s]
  <2>1. n \in Nat /\ m \in Nat /\ l \in Nat /\ l <= m
    BY <1>1, DeskAssumption DEF TypeOK
  <2>2. Worth[s] = n * m /\ Worth'[s] = n * l
    BY DEF Worth
  <2> HIDE DEF n, m, l
  <2>3. n * l <= n * m
    BY <2>1
  <2> QED
    BY <2>2, <2>3
<1>3. PICK r \in Requests : Book(r)
  BY <1>2, CalmStep
<1>4. request[r].order.side \in {"BUY", "SELL"}
  BY OrderType
<1>5. request[r].order.symbol = s
  <2>1. request[r].order.symbol # s => Worth'[s] = Worth[s]
    BY <1>1, <1>3, BookWorth
  <2> QED
    BY <1>1, <2>1 DEF Counting
<1>6. Purchase(request[r].order)
  BY <1>1, <1>3, <1>4, <1>5, BookWorth DEF Book, Purchase
<1>7. /\ Worth'[s] <= Worth[s] + Notional[r]
      /\ \A t \in Symbols \ {s} : Worth'[t] = Worth[t]
  BY <1>1, <1>3, <1>5, <1>6, BookWorth DEF Purchase
<1> QED
  BY <1>3, <1>5, <1>6, <1>7

(* No step but an approval adds to what is committed. *)
LEMMA Quiet ==
    ASSUME TypeOK, RequestsOK, Cheap, [Next]_vars, history'.calm,
           \A q \in Requests : ~Approve(q), NEW T \in SUBSET Symbols
    PROVE  Committed(T)' <= Committed(T) /\ Excess(T)' = Excess(T)
<1> DEFINE W == Waiting(T)
           X == Waiting(T)'
           R == Raced(T)
<1>0. /\ IsFiniteSet(T) /\ IsFiniteSet(W) /\ W \subseteq Requests
      /\ IsFiniteSet(R) /\ R \subseteq Requests
  BY SetsFinite
<1>1. AtCostOrBelow(positions, market) /\ TypeOK'
  BY CalmStep, StepTyped DEF Cheap
<1>2. /\ \A s \in Symbols : Worth[s] \in Nat /\ Worth'[s] \in Nat
      /\ \A q \in Requests : Notional[q] \in Nat /\ Notional'[q] \in Nat
  <2>1. Counting'
    BY <1>1, CountingHolds, PTL
  <2> QED
    BY <2>1, CountingHolds DEF Counting
<1>3. /\ X \subseteq W
      /\ \A q \in W \ X : Book(q) /\ Outstanding(q) /\ request[q].order.symbol \in T
      /\ \A q \in Requests : Book(q) => q \notin X
      /\ \A q \in Requests : Book(q) /\ Purchase(request[q].order)
                               /\ request[q].order.symbol \in T => q \in W
      /\ \A q \in W : Notional'[q] = Notional[q]
  BY Outlasts DEF Waiting, Outstanding
<1>4. Raced(T)' = R /\ \A q \in R : Notional'[q] = Notional[q]
  <2>1. \A q \in Requests : RowKept(q)
    BY RowsKept
  <2> QED
    BY <2>1, Outlasts DEF Raced, RowKept
<1>5. Excess(T)' = Excess(T)
  <2>1. Excess(T)' = SumFunctionOnSet(Notional', R)
    BY <1>4 DEF Excess
  <2>2. ASSUME NEW f, f = Notional, NEW g, g = Notional'
        PROVE  SumFunctionOnSet(g, R) = SumFunctionOnSet(f, R)
    <3>1. \A q \in R : g[q] = f[q]
      BY <1>4, <2>2
    <3> HIDE DEF R
    <3> QED
      BY <1>0, <3>1, SumSame
  <2> QED
    BY <2>1, <2>2 DEF Excess
<1> DEFINE worth == SumFunctionOnSet(Worth, T)
           worth1 == SumFunctionOnSet(Worth', T)
           due == SumFunctionOnSet(Notional, W)
           due1 == SumFunctionOnSet(Notional', X)
<1>6. Committed(T) = worth + due /\ Committed(T)' = worth1 + due1
  BY DEF Committed
<1>7. worth \in Int /\ worth1 \in Int /\ due \in Int /\ due1 \in Int
  <2>1. ASSUME NEW f, f = Worth \/ f = Worth' PROVE SumFunctionOnSet(f, T) \in Int
    <3>1. \A s \in T : f[s] \in Int
      BY <1>2, <2>1
    <3> QED
      BY <1>0, <3>1, SumType
  <2>2. ASSUME NEW f, f = Notional \/ f = Notional', NEW S \in SUBSET W
        PROVE  SumFunctionOnSet(f, S) \in Int
    <3>1. \A q \in S : f[q] \in Int
      BY <1>0, <1>2, <2>2
    <3>2. IsFiniteSet(S)
      BY <1>0, FS_Subset
    <3> QED
      BY <3>1, <3>2, SumType
  <2> HIDE DEF W, X
  <2> QED
    BY <1>3, <2>1, <2>2
<1>8. CASE \A s \in T : Worth'[s] <= Worth[s]
  <2>1. ASSUME NEW f, f = Worth, NEW g, g = Worth' PROVE SumFunctionOnSet(g, T) <= SumFunctionOnSet(f, T)
    <3>1. \A s \in T : g[s] \in Int /\ f[s] \in Int /\ g[s] <= f[s]
      BY <1>2, <1>8, <2>1
    <3> QED
      BY <1>0, <3>1, SumMonotone
  <2>2. ASSUME NEW f, f = Notional, NEW g, g = Notional', NEW S, S = X
        PROVE  SumFunctionOnSet(g, S) <= SumFunctionOnSet(f, W)
    <3>1. /\ S \in SUBSET W /\ \A q \in W : f[q] \in Nat
          /\ \A q \in S : g[q] \in Nat /\ g[q] <= f[q]
      BY <1>0, <1>2, <1>3, <2>2
    <3> HIDE DEF W
    <3> QED
      BY <1>0, <3>1, SumBelow
  <2>3. worth1 <= worth /\ due1 <= due
    BY <2>1, <2>2
  <2> HIDE DEF worth, worth1, due, due1
  <2> QED
    BY <1>5, <1>6, <1>7, <2>3
<1>9. CASE \E s \in T : ~(Worth'[s] <= Worth[s])
  <2>1. PICK s \in T : ~(Worth'[s] <= Worth[s])
    BY <1>9
  <2>4. PICK r \in Requests :
          /\ Book(r) /\ request[r].order.symbol = s /\ Purchase(request[r].order)
          /\ Worth'[s] <= Worth[s] + Notional[r]
          /\ \A t \in Symbols \ {s} : Worth'[t] = Worth[t]
    BY <2>1, WorthMoves
  <2>5. r \in W /\ r \notin X
    BY <1>3, <2>4
  <2>6. ASSUME NEW f, f = Worth, NEW g, g = Worth'
        PROVE  SumFunctionOnSet(g, T) = SumFunctionOnSet(f, T) - f[s] + g[s]
    <3>1. /\ \A t \in T : f[t] \in Int /\ g[s] \in Int
          /\ \A t \in T \ {s} : g[t] = f[t]
      BY <1>2, <2>4, <2>6
    <3> QED
      BY <1>0, <3>1, SumChange
  <2>7. ASSUME NEW f, f = Notional, NEW g, g = Notional', NEW S, S = X
        PROVE  SumFunctionOnSet(g, S) + f[r] <= SumFunctionOnSet(f, W)
    <3> DEFINE V == W \ {r}
    <3>1. /\ S \in SUBSET V /\ \A q \in W : f[q] \in Nat
          /\ \A q \in S : g[q] \in Nat /\ g[q] <= f[q]
      BY <1>0, <1>2, <1>3, <2>5, <2>7
    <3>2. IsFiniteSet(V) /\ V \subseteq W
      BY <1>0, FS_RemoveElement
    <3>3. SumFunctionOnSet(f, W) = f[r] + SumFunctionOnSet(f, V)
      <4>1. \A q \in W : f[q] \in Int
        BY <3>1
      <4> HIDE DEF W
      <4> QED
        BY <1>0, <2>5, <4>1, SumStep
    <3> HIDE DEF V, W
    <3>4. SumFunctionOnSet(g, S) <= SumFunctionOnSet(f, V)
      <4>1. \A q \in V : f[q] \in Nat
        BY <3>1, <3>2
      <4> QED
        BY <3>1, <3>2, <4>1, SumBelow
    <3>5. f[r] \in Int /\ SumFunctionOnSet(f, V) \in Int /\ SumFunctionOnSet(g, S) \in Int
      <4>1. (\A q \in V : f[q] \in Int) /\ (\A q \in S : g[q] \in Int) /\ IsFiniteSet(S)
        BY <3>1, <3>2, FS_Subset
      <4> QED
        BY <2>5, <3>1, <3>2, <4>1, SumType
    <3> QED
      BY <3>3, <3>4, <3>5
  <2>8. worth1 = worth - Worth[s] + Worth'[s] /\ due1 + Notional[r] <= due
    BY <2>6, <2>7
  <2>9. Worth[s] \in Nat /\ Worth'[s] \in Nat /\ Notional[r] \in Nat
    BY <1>2
  <2> HIDE DEF worth, worth1, due, due1
  <2> QED
    BY <1>5, <1>6, <1>7, <2>4, <2>8, <2>9
<1> QED
  BY <1>8, <1>9

(* An approved purchase adds its notional to what is committed, and to the *)
(* excess if another purchase was outstanding when it was assessed or came *)
(* in between.                                                             *)
LEMMA ApproveExposure ==
    ASSUME TypeOK, RequestsOK, [Next]_vars, NEW r \in Requests, Approve(r),
           NEW T \in SUBSET Symbols, NEW limit \in Int, Committed(T) <= limit + Excess(T),
           /\ Purchase(request[r].order) /\ request[r].order.symbol \in T
           /\ ~history.of[r].raced
           => Waiting(T) = {} /\ SumFunctionOnSet(Worth, T) + Notional[r] <= limit
    PROVE  Committed(T)' <= limit + Excess(T)'
<1> DEFINE W == Waiting(T)
           R == Raced(T)
           n == Notional[r]
           worth == SumFunctionOnSet(Worth, T)
           due == SumFunctionOnSet(Notional, W)
           over == SumFunctionOnSet(Notional, R)
<1>0. /\ IsFiniteSet(T) /\ IsFiniteSet(W) /\ IsFiniteSet(R)
      /\ W \subseteq Requests /\ R \subseteq Requests
  BY SetsFinite
<1>1. /\ \A q \in Requests : Notional[q] \in Nat
      /\ worth \in Nat /\ due \in Nat /\ over \in Nat /\ n \in Nat
  BY WorthType, ExposureType DEF Excess
<1>2. request[r].pc = "assessed" /\ r \notin W /\ r \notin R
  BY DEF Approve, RequestsOK, RequestOK, Granted, Waiting, Raced, Outstanding, Approved
<1>3. /\ request'[r] = Row(r, "APPROVED_PAPER_READY") /\ history'.of[r] = history.of[r]
      /\ \A q \in Requests \ {r} : request'[q] = request[q] /\ ~Approve(q)
  BY ApproveOne
<1>4. /\ request'[r].order = request[r].order /\ request'[r].pc = "recorded"
      /\ request'[r].status = "APPROVED_PAPER_READY"
  BY <1>3, RowIs
<1>5. Notional' = Notional
  <2>1. \A q \in Requests : request'[q].order = request[q].order
    BY <1>3, <1>4
  <2> QED
    BY <2>1 DEF Notional
<1>6. Worth' = Worth
  BY DEF Approve, ledger, world, Worth
<1> DEFINE mine == Purchase(request[r].order) /\ request[r].order.symbol \in T
<1>7. Waiting(T)' = IF mine THEN W \cup {r} ELSE W
  BY <1>2, <1>3, <1>4 DEF Waiting, Outstanding, Approved
<1>8. Raced(T)' = IF mine /\ history.of[r].raced THEN R \cup {r} ELSE R
  <2>1. \A q \in Requests \ {r} : RowKept(q)
    BY <1>3, RowsKept
  <2>2. \A q \in Requests \ {r} : q \in Raced(T)' <=> q \in R
    BY <1>3, <2>1 DEF Raced, RowKept, Approved
  <2>3. r \in Raced(T)' <=> mine /\ history.of[r].raced
    BY <1>3, <1>4 DEF Raced, Approved
  <2>4. Raced(T)' \subseteq Requests
    BY DEF Raced
  <2> HIDE DEF mine
  <2> QED
    BY <1>0, <1>2, <2>2, <2>3, <2>4
<1>9. Committed(T) = worth + due /\ Excess(T) = over
  BY DEF Committed, Excess
<1>10. /\ SumFunctionOnSet(Notional, W \cup {r}) = n + due
       /\ SumFunctionOnSet(Notional, R \cup {r}) = n + over
  <2>1. \A q \in Requests : Notional[q] \in Int
    BY <1>1
  <2>2. (\A q \in W \cup {r} : Notional[q] \in Int) /\ (\A q \in R \cup {r} : Notional[q] \in Int)
    BY <1>0, <2>1
  <2> HIDE DEF W, R
  <2> QED
    BY <1>0, <1>2, <2>2, SumAdd
<1>11. /\ Committed(T)' = worth + SumFunctionOnSet(Notional, Waiting(T)')
       /\ Excess(T)' = SumFunctionOnSet(Notional, Raced(T)')
  BY <1>5, <1>6 DEF Committed, Excess
<1> HIDE DEF W, R, n, worth, due, over, mine
<1>12. CASE ~mine
  BY <1>7, <1>8, <1>9, <1>11, <1>12 DEF due, over
<1>13. CASE mine /\ history.of[r].raced
  <2>1. Committed(T)' = worth + (n + due) /\ Excess(T)' = n + over
    BY <1>7, <1>8, <1>10, <1>11, <1>13
  <2> QED
    BY <1>1, <1>9, <2>1
<1>14. CASE mine /\ ~history.of[r].raced
  <2>1. W = {} /\ worth + n <= limit
    BY <1>14 DEF mine, W, worth, n
  <2>2. due = 0
    BY <2>1, SumEmpty DEF due
  <2>3. Committed(T)' = worth + (n + due) /\ Excess(T)' = over
    BY <1>7, <1>8, <1>10, <1>11, <1>14 DEF over
  <2> QED
    BY <1>1, <2>1, <2>2, <2>3
<1> QED
  BY <1>12, <1>13, <1>14

(* Symbols that are neither held nor being bought commit nothing. *)
LEMMA Unseen ==
    ASSUME TypeOK, NEW T \in SUBSET Symbols, NEW R \in SUBSET T,
           \A x \in T \ R : ~AtStake(x)
    PROVE  /\ SumFunctionOnSet(Worth, T) = SumFunctionOnSet(Worth, R)
           /\ Committed(T) = Committed(R) /\ Excess(R) <= Excess(T)
<1>1. \A x \in T \ R : /\ positions[x].quantity = 0
                       /\ \A q \in Requests : Outstanding(q) => request[q].order.symbol # x
  <2>1. \A x \in T \ R : positions[x].quantity \in Nat /\ ~(positions[x].quantity > 0)
    BY DEF AtStake, TypeOK
  <2> QED
    BY <2>1 DEF AtStake
<1>2. Waiting(T) = Waiting(R) /\ Raced(R) \subseteq Raced(T)
  BY <1>1 DEF Waiting, Raced
<1>3. IsFiniteSet(R) /\ IsFiniteSet(T \ R) /\ T = R \cup (T \ R) /\ R \cap (T \ R) = {}
  BY SetsFinite, FS_Subset
<1>4. \A s \in T : Worth[s] \in Int
  BY WorthType
<1>5. \A s \in T \ R : Worth[s] = 0
  <2> SUFFICES ASSUME NEW s \in T \ R PROVE Worth[s] = 0
    OBVIOUS
  <2>1. /\ Worth[s] = positions[s].quantity * market[s] /\ positions[s].quantity = 0
        /\ market[s] \in Prices
    BY <1>1, WorthType DEF TypeOK
  <2>2. market[s] \in Nat
    BY <2>1, DeskAssumption
  <2> QED
    BY <2>1, <2>2
<1> DEFINE D == T \ R
<1>6. SumFunctionOnSet(Worth, D) = 0
  <2>1. IsFiniteSet(D) /\ \A s \in D : Worth[s] = 0
    BY <1>3, <1>5
  <2> HIDE DEF D
  <2> QED
    BY <2>1, SumZero
<1>7. SumFunctionOnSet(Worth, T) = SumFunctionOnSet(Worth, R) + SumFunctionOnSet(Worth, D)
  <2>1. IsFiniteSet(D) /\ T = R \cup D /\ R \cap D = {}
    BY <1>3
  <2> HIDE DEF D
  <2> QED
    BY <1>3, <1>4, <2>1, SumUnion
<1>8. SumFunctionOnSet(Worth, R) \in Int
  BY <1>3, <1>4, SumType
<1>9. SumFunctionOnSet(Worth, T) = SumFunctionOnSet(Worth, R)
  <2> HIDE DEF D
  <2> QED
    BY <1>6, <1>7, <1>8
<1>10. Excess(R) <= Excess(T)
  <2>1. IsFiniteSet(Raced(T)) /\ \A q \in Raced(T) : Notional[q] \in Nat /\ Notional[q] <= Notional[q]
    BY SetsFinite, WorthType
  <2> QED
    BY <1>2, <2>1, SumBelow DEF Excess
<1> QED
  BY <1>2, <1>9, <1>10 DEF Committed

LEMMA ScreenedStays == ASSUME [Next]_vars PROVE screened \subseteq screened'
<1>1. ASSUME NEW s, NEW screen, Consulted(s, screen) PROVE screened \subseteq screened'
  BY <1>1 DEF Consulted, Screened
<1>2. ASSUME NEW r \in Requests, Serve(r) PROVE screened \subseteq screened'
  <2>1. CASE \E order \in Orders, flag \in BOOLEAN : Evaluate(r, order, flag)
    BY <1>1, <2>1 DEF Evaluate
  <2>2. CASE Derive(r)
    BY <1>1, <2>2 DEF Derive
  <2> QED
    BY <1>2, <2>1, <2>2 DEF Serve, Post, Preview, Ask, Count, Counted, Assess, Record, Book
<1>3. CASE Environment
  BY <1>3 DEF Environment, Rule, Reprice, Outage, Requote, ChangeAccount, Snapshot, NextDay
<1> QED
  BY <1>2, <1>3 DEF Next, vars

-----------------------------------------------------------------------------
(* The room that an assessment found stays until the row of its request:   *)
(* nothing is outstanding that could be bought meanwhile.                  *)
NoneWaits == \A p \in Requests : ~Outstanding(p)

Room(r) ==
    LET s == request[r].order.symbol IN
    /\ SumFunctionOnSet(Worth, {s}) + Notional[r] <= MaxPosition
    /\ SumFunctionOnSet(Worth, Symbols) + Notional[r] <= MaxTotalExposure
    /\ MaxSectorExposure > 0 /\ s \in screened
         => SumFunctionOnSet(Worth, Peers(s)) + Notional[r] <= MaxSectorExposure

Bought(r) == request[r].risk /\ Purchase(request[r].order)

RoomHolds(r) ==
    request[r].pc = "assessed" /\ ~history.of[r].raced
        => NoneWaits /\ (Bought(r) /\ history.calm => Room(r))
RoomsHold == \A r \in Requests : RoomHolds(r)

(* The verdict counts a symbol at its price or, unpriced, at what it cost. *)
LEMMA ValueIs ==
    ASSUME TypeOK, AtCostOrBelow(positions, market), NEW s \in Symbols
    PROVE  /\ ExposureValue(positions[s], Quote[s]) \in Nat
           /\ Worth[s] <= ExposureValue(positions[s], Quote[s])
<1>1. Worth[s] \in Nat /\ Worth[s] = positions[s].quantity * market[s]
  BY WorthType
<1>2. positions[s].cost \in Nat /\ market[s] # Unknown
  <2>1. market[s] \in Prices /\ positions[s].cost \in Nat
    BY DEF TypeOK
  <2>0. \A m \in Prices : m \in Int
    BY DeskAssumption
  <2>2. market[s] \in Int
    BY <2>0, <2>1
  <2> QED
    BY <2>1, <2>2, DeskAssumption
<1>3. Quote[s] = IF s \in unquoted THEN Unknown ELSE market[s]
  BY DEF Quote
<1>4. ExposureValue(positions[s], Quote[s]) = IF s \in unquoted THEN positions[s].cost ELSE Worth[s]
  BY <1>1, <1>2, <1>3 DEF ExposureValue
<1>5. Worth[s] <= positions[s].cost
  BY <1>1 DEF AtCostOrBelow
<1> QED
  BY <1>1, <1>2, <1>4, <1>5

LEMMA ExposureAbove ==
    ASSUME TypeOK, AtCostOrBelow(positions, market), NEW T \in SUBSET Symbols, NEW R \in SUBSET T
    PROVE  /\ Exposure(positions, Quote, T) \in Int
           /\ SumFunctionOnSet(Worth, R) \in Int
           /\ SumFunctionOnSet(Worth, R) <= Exposure(positions, Quote, T)
<1> DEFINE f == [s \in T |-> ExposureValue(positions[s], Quote[s])]
<1>1. \A s \in T : f[s] \in Nat /\ Worth[s] <= f[s] /\ Worth[s] \in Nat
  BY ValueIs, WorthType
<1>2. Exposure(positions, Quote, T) = SumFunctionOnSet(f, T)
  BY DEF Exposure
<1>3. IsFiniteSet(T) /\ IsFiniteSet(R)
  BY SetsFinite
<1> HIDE DEF f
<1>4. SumFunctionOnSet(f, T) \in Int /\ SumFunctionOnSet(Worth, R) \in Int
  <2>1. (\A s \in T : f[s] \in Int) /\ (\A s \in R : Worth[s] \in Int)
    BY <1>1
  <2> QED
    BY <1>3, <2>1, SumType
<1>5. SumFunctionOnSet(Worth, R) <= SumFunctionOnSet(f, T)
  BY <1>1, <1>3, SumBelow
<1> QED
  BY <1>2, <1>4, <1>5

LEMMA RiskLeavesRoom ==
    ASSUME TypeOK, AtCostOrBelow(positions, market), NEW r \in Requests,
           Purchase(request[r].order),
           NEW daily, NEW weekly, NEW n,
           RiskPasses(positions, Quote, SectorOf, request[r].order, daily, weekly, n)
    PROVE  Room(r)
<1> DEFINE order == request[r].order
           s == order.symbol
           now == ExposureValue(positions[s], Quote[s])
           all == Exposure(positions, Quote, Symbols)
           p == Projected(positions, Quote, order)
           bucket == {t \in Symbols : SectorOf[t] = SectorOf[s]}
           sector == Exposure(positions, Quote, bucket)
<1>1. DOMAIN positions = Symbols /\ s \in Symbols
  BY OrderType DEF TypeOK
<1>2. Notional[r] \in Nat /\ Notional[r] = order.quantity * order.price
  BY WorthType
<1>3. /\ CheckOrder(p.position, p.total, order.quantity * order.price, daily, weekly, n)
      /\ Overlay(positions, Quote, SectorOf, order) = {} /\ order.side = "BUY"
  BY DEF RiskPasses, Purchase
<1>4. p.position = now + Notional[r] /\ p.total = Larger(0, all - now + (now + Notional[r]))
  BY <1>1, <1>2, <1>3 DEF Projected
<1>5. p.position <= MaxPosition /\ p.total <= MaxTotalExposure
  BY <1>3 DEF CheckOrder, Within
<1>6. now \in Nat /\ Worth[s] <= now /\ Worth[s] \in Nat
  BY <1>1, ValueIs, WorthType
<1>7. SumFunctionOnSet(Worth, {s}) + Notional[r] <= MaxPosition
  <2>1. SumFunctionOnSet(Worth, {s}) = Worth[s]
    <3>1. /\ IsFiniteSet({}) /\ s \notin {} /\ {} \cup {s} = {s}
          /\ \A x \in {} \cup {s} : Worth[x] \in Int
      BY <1>6, FS_EmptySet
    <3>2. SumFunctionOnSet(Worth, {} \cup {s}) = Worth[s] + SumFunctionOnSet(Worth, {})
      <4> HIDE DEF s
      <4> QED
        BY <3>1, SumAdd
    <3> QED
      BY <1>6, <3>1, <3>2, SumEmpty
  <2> HIDE DEF now, p
  <2>2. MaxPosition \in Int
    BY DeskAssumption
  <2> QED
    BY <1>2, <1>4, <1>5, <1>6, <2>1, <2>2
<1>8. SumFunctionOnSet(Worth, Symbols) + Notional[r] <= MaxTotalExposure
  <2>1. /\ all \in Int /\ SumFunctionOnSet(Worth, Symbols) \in Int
        /\ SumFunctionOnSet(Worth, Symbols) <= all
    BY ExposureAbove
  <2> HIDE DEF now, p, all
  <2>2. MaxTotalExposure \in Int
    BY DeskAssumption
  <2> QED
    BY <1>2, <1>4, <1>5, <1>6, <2>1, <2>2 DEF Larger
<1>9. ASSUME MaxSectorExposure > 0, s \in screened
      PROVE  SumFunctionOnSet(Worth, Peers(s)) + Notional[r] <= MaxSectorExposure
  <2>1. sector + Notional[r] <= MaxSectorExposure
    <3>1. SectorTotal(positions, Quote, SectorOf, order) = sector + Notional[r]
      BY <1>1, <1>2, <1>3 DEF SectorTotal
    <3>2. ~(SectorTotal(positions, Quote, SectorOf, order) > MaxSectorExposure)
      BY <1>3, <1>9 DEF Overlay
    <3>3. sector \in Int
      BY ExposureAbove
    <3> HIDE DEF sector
    <3> QED
      BY <1>2, <3>1, <3>2, <3>3, DeskAssumption
  <2>2. Peers(s) \subseteq bucket
    BY <1>1, <1>9 DEF Peers, SectorOf, TypeOK
  <2>3. /\ sector \in Int /\ SumFunctionOnSet(Worth, Peers(s)) \in Int
        /\ SumFunctionOnSet(Worth, Peers(s)) <= sector
    <3>1. bucket \in SUBSET Symbols
      OBVIOUS
    <3> HIDE DEF bucket, s
    <3> QED
      BY <2>2, <3>1, ExposureAbove
  <2> HIDE DEF sector
  <2> QED
    BY <1>2, <2>1, <2>3, DeskAssumption
<1> QED
  BY <1>7, <1>8, <1>9 DEF Room

(* A symbol that a calm step classifies is not at stake. *)
LEMMA PeersGrow ==
    ASSUME TypeOK, [Next]_vars, history'.calm, NEW s \in Symbols
    PROVE  /\ Peers(s) \subseteq Peers(s)' /\ Peers(s)' \subseteq Symbols
           /\ \A x \in Peers(s)' \ Peers(s) : ~AtStake(x)
<1>1. screened \subseteq screened' /\ screened' \subseteq Symbols
  BY ScreenedStays, StepTyped DEF TypeOK
<1>2. \A x \in screened' \ screened : ~AtStake(x)
  BY CalmStep
<1> QED
  BY <1>1, <1>2 DEF Peers

LEMMA WorthFalls ==
    ASSUME TypeOK, Cheap, [Next]_vars, history'.calm, NoneWaits, NEW T \in SUBSET Symbols
    PROVE  SumFunctionOnSet(Worth', T) <= SumFunctionOnSet(Worth, T)
<1>1. TypeOK' /\ Counting'
  BY StepTyped, CountingHolds, PTL
<1>2. \A s \in T : Worth[s] \in Int /\ Worth'[s] \in Int /\ Worth'[s] <= Worth[s]
  <2> SUFFICES ASSUME NEW s \in T, ~(Worth'[s] <= Worth[s]) PROVE FALSE
    BY <1>1, CountingHolds DEF Counting
  <2>1. PICK r \in Requests : Book(r) /\ Purchase(request[r].order)
    BY WorthMoves
  <2> QED
    BY <2>1 DEF NoneWaits, Outstanding, Book
<1>3. ASSUME NEW f, f = Worth, NEW g, g = Worth'
      PROVE  SumFunctionOnSet(g, T) <= SumFunctionOnSet(f, T)
  <2>1. \A s \in T : f[s] \in Int /\ g[s] \in Int /\ g[s] <= f[s]
    BY <1>2, <1>3
  <2> QED
    BY <2>1, SetsFinite, SumMonotone
<1> QED
  BY <1>3

LEMMA RoomsInit == Init => RoomsHold
<1> SUFFICES ASSUME Init, NEW r \in Requests PROVE RoomHolds(r)
  BY DEF RoomsHold
<1> QED
  BY RequestType DEF Init, RoomHolds

(* The room of a request that is assessed while nothing is outstanding. *)
LEMMA AssessRoom ==
    ASSUME TypeOK, RequestsOK, Cheap, [Next]_vars, NEW r \in Requests, Assess(r)
    PROVE  RoomHolds(r)'
<1> DEFINE raced == \E p \in Requests : Outstanding(p)
           risk == RiskPasses(positions, Quote, SectorOf, request[r].order,
                              request[r].daily_loss, request[r].weekly_loss,
                              request[r].orders_today)
<1>1. /\ history'.of[r] = [history.of[r] EXCEPT !.raced = raced] /\ history'.calm = history.calm
      /\ request'[r] = [request[r] EXCEPT !.pc = "assessed", !.risk = risk]
      /\ \A q \in Requests \ {r} : request'[q] = request[q]
      /\ positions' = positions /\ market' = market /\ screened' = screened
  BY DEF Assess, TypeOK, ledger, world
<1>2. /\ request[r] \in Request /\ r \in DOMAIN request /\ history.of[r] \in Past
      /\ request[r].pc = "counted" /\ request[r].status = "NONE"
  BY DEF TypeOK, Assess, RequestsOK, RequestOK, Granted
<1> HIDE DEF risk, raced
<1>3. /\ request'[r].risk = risk
      /\ request'[r].order = request[r].order /\ request'[r].status = "NONE"
  BY <1>1, <1>2 DEF Request
<1>4. history'.of[r].raced = raced
  BY <1>1, <1>2 DEF Past
<1>5. ~raced => NoneWaits'
  <2>1. \A q \in Requests : Outstanding(q)' => Outstanding(q)
    BY <1>1, <1>3 DEF Outstanding, Approved
  <2> QED
    BY <2>1 DEF NoneWaits, raced
<1>6. ASSUME Bought(r)', history'.calm PROVE Room(r)'
  <2>1. Purchase(request[r].order) /\ risk
    BY <1>3, <1>6 DEF Bought
  <2>2. AtCostOrBelow(positions, market)
    BY <1>1, <1>6 DEF Cheap
  <2>3. Room(r)
    BY <2>1, <2>2, RiskLeavesRoom DEF risk
  <2>4. Worth' = Worth /\ Notional'[r] = Notional[r]
    BY <1>1, <1>3 DEF Worth, Notional
  <2>5. \A s : Peers(s)' = Peers(s)
    BY <1>1 DEF Peers
  <2> QED
    BY <1>1, <1>3, <2>3, <2>4, <2>5 DEF Room
<1> QED
  BY <1>4, <1>5, <1>6 DEF RoomHolds

(* The steps of others and of the world leave the room. *)
LEMMA KeptRoom ==
    ASSUME TypeOK, RequestsOK, Cheap, RoomsHold, [Next]_vars, NEW r \in Requests, Kept(r),
           request[r].pc = "assessed", ~history'.of[r].raced
    PROVE  NoneWaits' /\ (Bought(r)' /\ history'.calm => Room(r)')
<1>1. /\ ~history.of[r].raced /\ request'[r] = request[r] /\ NoneWaits
      /\ Bought(r) /\ history.calm => Room(r)
  BY DEF Kept, RoomsHold, RoomHolds
<1>2. NoneWaits'
  <2> SUFFICES ASSUME NEW p \in Requests, Outstanding(p)' PROVE FALSE
    BY DEF NoneWaits
  <2>1. CASE ~Approve(p)
    BY <1>1, <2>1, Outlasts DEF NoneWaits
  <2>2. CASE Approve(p)
    <3>1. p # r
      BY <1>1, <2>2, ApproveOne, RowIs DEF Kept
    <3>2. Purchase(request[p].order)
      BY <2>2, ApproveOne, RowIs DEF Outstanding
    <3>3. history'.of[r] = [history.of[r] EXCEPT
              !.outran = @ \/ request[r].pc \in {"counted", "assessed"},
              !.raced  = @ \/ (request[r].pc = "assessed" /\ Purchase(request[p].order))]
      BY <2>2, <3>1 DEF Approve, Overtake, TypeOK
    <3>4. history.of[r] \in Past
      BY DEF TypeOK
    <3>5. history'.of[r].raced
      BY <3>2, <3>3, <3>4 DEF Past
    <3> QED
      BY <3>5
  <2> QED
    BY <2>1, <2>2
<1>3. ASSUME Bought(r)', history'.calm PROVE Room(r)'
  <2>0. PICK s : s = request[r].order.symbol
    OBVIOUS
  <2>1. Room(r) /\ s \in Symbols /\ Notional'[r] = Notional[r]
    BY <1>1, <1>3, <2>0, CalmStep, OrderType DEF Bought, Notional
  <2>2. PICK T : T = Peers(s)'
    OBVIOUS
  <2>3. /\ T \in SUBSET Symbols /\ Peers(s) \in SUBSET T
        /\ \A x \in T \ Peers(s) : ~AtStake(x)
    BY <1>3, <2>1, <2>2, PeersGrow
  <2>4. SumFunctionOnSet(Worth, T) = SumFunctionOnSet(Worth, Peers(s))
    BY <2>3, Unseen
  <2>5. \A S \in {{s}, Symbols, T} :
          SumFunctionOnSet(Worth', S) <= SumFunctionOnSet(Worth, S)
    <3> SUFFICES ASSUME NEW S \in {{s}, Symbols, T}
                 PROVE  SumFunctionOnSet(Worth', S) <= SumFunctionOnSet(Worth, S)
      OBVIOUS
    <3>1. S \in SUBSET Symbols
      BY <2>1, <2>3
    <3> QED
      BY <1>1, <1>3, <3>1, WorthFalls
  <2>6. \A S \in {{s}, Symbols, T} :
          SumFunctionOnSet(Worth', S) \in Int /\ SumFunctionOnSet(Worth, S) \in Int
    <3> SUFFICES ASSUME NEW S \in {{s}, Symbols, T}, NEW f, f = Worth \/ f = Worth'
                 PROVE  SumFunctionOnSet(f, S) \in Int
      OBVIOUS
    <3>1. S \in SUBSET Symbols
      BY <2>1, <2>3
    <3>2. Counting /\ Counting'
      BY CountingHolds, StepTyped, PTL
    <3>3. \A x \in S : f[x] \in Int
      BY <3>1, <3>2 DEF Counting
    <3> QED
      BY <3>1, <3>3, SetsFinite, SumType
  <2>7. Notional[r] \in Int
    BY WorthType
  <2>8. request'[r].order.symbol = s
    BY <1>1, <2>0
  <2>9. /\ SumFunctionOnSet(Worth, {s}) + Notional[r] <= MaxPosition
        /\ SumFunctionOnSet(Worth, Symbols) + Notional[r] <= MaxTotalExposure
        /\ MaxSectorExposure > 0 /\ s \in screened'
             => SumFunctionOnSet(Worth, T) + Notional[r] <= MaxSectorExposure
    <3>1. s \in screened' => s \in screened
      <4>1. AtStake(s)
        BY <2>0 DEF AtStake
      <4> QED
        BY <1>3, <4>1, CalmStep
    <3> QED
      BY <2>0, <2>1, <2>4, <3>1 DEF Room
  <2>10. /\ SumFunctionOnSet(Worth', {s}) + Notional[r] <= MaxPosition
         /\ SumFunctionOnSet(Worth', Symbols) + Notional[r] <= MaxTotalExposure
         /\ MaxSectorExposure > 0 /\ s \in screened'
              => SumFunctionOnSet(Worth', T) + Notional[r] <= MaxSectorExposure
    BY <2>5, <2>6, <2>7, <2>9, DeskAssumption
  <2> QED
    BY <2>1, <2>2, <2>8, <2>10 DEF Room
<1> QED
  BY <1>2, <1>3

LEMMA RoomsStep ==
    TypeOK /\ RequestsOK /\ Cheap /\ RoomsHold /\ [Next]_vars => RoomsHold'
<1> SUFFICES ASSUME TypeOK, RequestsOK, Cheap, RoomsHold, [Next]_vars, NEW r \in Requests
             PROVE  RoomHolds(r)'
  BY DEF RoomsHold
<1>1. CASE Kept(r)
  BY <1>1, KeptRoom DEF RoomHolds, Kept
<1>2. CASE Assess(r)
  BY <1>2, AssessRoom
<1>0. request[r] \in Request /\ r \in DOMAIN request
  BY DEF TypeOK
<1>3. ASSUME NEW order \in Orders, NEW flag \in BOOLEAN, Evaluate(r, order, flag)
      PROVE  RoomHolds(r)'
  <2>0. PICK b \in BOOLEAN :
          request' = [request EXCEPT ![r].pc = "evaluated", ![r].order = order, ![r].blocked = b]
    BY <1>3, EvaluateIs
  <2>1. request'[r].pc = "evaluated"
    BY <1>0, <2>0 DEF Request
  <2> QED
    BY <2>1 DEF RoomHolds
<1>4. ASSUME NEW order \in Orders, NEW ready \in BOOLEAN, Post(r, order, ready)
      PROVE  RoomHolds(r)'
  BY <1>0, <1>4, RequestType DEF Post, RoomHolds, Request
<1>5. CASE Preview(r) \/ Ask(r) \/ Derive(r) \/ Count(r)
  BY <1>0, <1>5 DEF Preview, Ask, Derive, Count, Counted, RoomHolds, Request
<1>6. CASE Record(r)
  BY <1>0, <1>6, Recorded, RowIs DEF Approve, Dismiss, RoomHolds
<1>7. CASE Book(r)
  BY <1>0, <1>7 DEF Book, RoomHolds, Request
<1> QED
  BY <1>1, <1>2, <1>3, <1>4, <1>5, <1>6, <1>7, Others DEF Serve

-----------------------------------------------------------------------------
(* The limits, also for the sector of a symbol that is not classified. *)
LimitOn(T, limit) == Committed(T) <= limit + Excess(T)

Limits ==
    history.calm =>
      /\ \A s \in Symbols : LimitOn({s}, MaxPosition)
      /\ LimitOn(Symbols, MaxTotalExposure)
      /\ MaxSectorExposure > 0 => \A s \in Symbols : LimitOn(Peers(s), MaxSectorExposure)

LEMMA LimitsStep ==
    TypeOK /\ RequestsOK /\ Cheap /\ RoomsHold /\ Limits /\ [Next]_vars => Limits'
<1> SUFFICES ASSUME TypeOK, RequestsOK, Cheap, RoomsHold, Limits, [Next]_vars, history'.calm
             PROVE  /\ \A s \in Symbols : LimitOn({s}, MaxPosition)'
                    /\ LimitOn(Symbols, MaxTotalExposure)'
                    /\ MaxSectorExposure > 0
                         => \A s \in Symbols : LimitOn(Peers(s), MaxSectorExposure)'
  BY DEF Limits
<1>1. /\ \A s \in Symbols : LimitOn({s}, MaxPosition)
      /\ LimitOn(Symbols, MaxTotalExposure)
      /\ MaxSectorExposure > 0 => \A s \in Symbols : LimitOn(Peers(s), MaxSectorExposure)
  BY CalmStep DEF Limits
<1>2. MaxPosition \in Int /\ MaxTotalExposure \in Int /\ MaxSectorExposure \in Int
  BY DeskAssumption
<1>3. CASE \A q \in Requests : ~Approve(q)
  <2>1. ASSUME NEW T \in SUBSET Symbols, NEW limit \in Int, LimitOn(T, limit)
        PROVE  Committed(T)' <= limit + Excess(T)'
    <3>1. Committed(T)' <= Committed(T) /\ Excess(T)' = Excess(T)
      BY <1>3, Quiet
    <3>2. Committed(T) \in Int /\ Excess(T) \in Int /\ Committed(T)' \in Int
      <4>1. Committed(T) \in Nat /\ Excess(T) \in Nat
        BY ExposureType
      <4>2. Typed'
        BY StepTyped, ExposureTyped, PTL
      <4> QED
        BY <4>1, <4>2 DEF Typed
    <3> QED
      BY <2>1, <3>1, <3>2 DEF LimitOn
  <2>2. ASSUME NEW s \in Symbols, MaxSectorExposure > 0
        PROVE  LimitOn(Peers(s), MaxSectorExposure)'
    <3>1. PICK T : T = Peers(s)'
      OBVIOUS
    <3>2. /\ T \in SUBSET Symbols /\ Peers(s) \in SUBSET T
          /\ \A x \in T \ Peers(s) : ~AtStake(x)
      BY <3>1, PeersGrow
    <3>3. Committed(T) = Committed(Peers(s)) /\ Excess(Peers(s)) <= Excess(T)
      BY <3>2, Unseen
    <3>4. LimitOn(T, MaxSectorExposure)
      <4>1. /\ Committed(T) \in Nat /\ Excess(T) \in Nat /\ Excess(Peers(s)) \in Nat
            /\ LimitOn(Peers(s), MaxSectorExposure)
        BY <1>1, <2>2, <3>2, ExposureType
      <4> QED
        BY <1>2, <3>3, <4>1 DEF LimitOn
    <3>5. Committed(T)' <= MaxSectorExposure + Excess(T)'
      BY <1>2, <2>1, <3>2, <3>4
    <3> QED
      BY <3>1, <3>5 DEF LimitOn
  <2> QED
    BY <1>1, <1>2, <2>1, <2>2 DEF LimitOn
<1>4. ASSUME NEW r \in Requests, Approve(r)
      PROVE  /\ \A s \in Symbols : LimitOn({s}, MaxPosition)'
             /\ LimitOn(Symbols, MaxTotalExposure)'
             /\ MaxSectorExposure > 0
                  => \A s \in Symbols : LimitOn(Peers(s), MaxSectorExposure)'
  <2> DEFINE x == request[r].order.symbol
  <2>1. /\ request[r].pc = "assessed" /\ ~Refused(request[r]) /\ x \in Symbols
        /\ screened' = screened
    BY <1>4, OrderType DEF Approve
  <2>2. Purchase(request[r].order) /\ ~history.of[r].raced => NoneWaits /\ Room(r)
    BY <2>1, CalmStep DEF RoomsHold, RoomHolds, Bought, Refused
  <2>3. ASSUME NEW T \in SUBSET Symbols, NEW limit \in Int, LimitOn(T, limit),
               Room(r) /\ x \in T => SumFunctionOnSet(Worth, T) + Notional[r] <= limit
        PROVE  Committed(T)' <= limit + Excess(T)'
    <3>1. NoneWaits => Waiting(T) = {}
      BY DEF NoneWaits, Waiting
    <3> QED
      BY <1>4, <2>2, <2>3, <3>1, ApproveExposure DEF LimitOn
  <2>4. ASSUME NEW s \in Symbols PROVE LimitOn({s}, MaxPosition)'
    <3>1. {s} \in SUBSET Symbols /\ LimitOn({s}, MaxPosition)
      BY <1>1
    <3>2. Room(r) /\ x \in {s} => SumFunctionOnSet(Worth, {s}) + Notional[r] <= MaxPosition
      BY DEF Room
    <3> QED
      BY <1>2, <2>3, <3>1, <3>2 DEF LimitOn
  <2>5. LimitOn(Symbols, MaxTotalExposure)'
    <3>1. Room(r) => SumFunctionOnSet(Worth, Symbols) + Notional[r] <= MaxTotalExposure
      BY DEF Room
    <3> QED
      BY <1>1, <1>2, <2>3, <3>1 DEF LimitOn
  <2>6. ASSUME NEW s \in Symbols, MaxSectorExposure > 0
        PROVE  LimitOn(Peers(s), MaxSectorExposure)'
    <3>1. PICK T : T = Peers(s)
      OBVIOUS
    <3>2. T \in SUBSET Symbols /\ T = Peers(s)'
      BY <2>1, <3>1 DEF Peers, TypeOK
    <3>3. x \in T => T = Peers(x) /\ x \in screened
      BY <3>1 DEF Peers
    <3>4. Room(r) /\ x \in T => SumFunctionOnSet(Worth, T) + Notional[r] <= MaxSectorExposure
      BY <2>6, <3>3 DEF Room
    <3>5. LimitOn(T, MaxSectorExposure)
      BY <1>1, <2>6, <3>1
    <3>6. Committed(T)' <= MaxSectorExposure + Excess(T)'
      BY <1>2, <2>3, <3>2, <3>4, <3>5
    <3> QED
      BY <3>2, <3>6 DEF LimitOn
  <2> QED
    BY <2>4, <2>5, <2>6
<1> QED
  BY <1>3, <1>4

LEMMA LimitsInit == ASSUME OpensWithinLimits PROVE Init => Limits
<1> SUFFICES ASSUME Init, history.calm
             PROVE  /\ \A s \in Symbols : LimitOn({s}, MaxPosition)
                    /\ LimitOn(Symbols, MaxTotalExposure)
                    /\ MaxSectorExposure > 0
                         => \A s \in Symbols : LimitOn(Peers(s), MaxSectorExposure)
  BY DEF Limits
<1>1. TypeOK /\ Worth = Opening /\ AtCostOrBelow(OpeningBook, OpeningPrices)
  BY InitTyped DEF Init, Worth, Opening
<1>2. \A T : Waiting(T) = {} /\ Raced(T) = {}
  <2>1. \A r \in Requests : ~Approved(r)
    BY RequestType DEF Init, Approved
  <2> QED
    BY <2>1 DEF Waiting, Raced, Outstanding
<1>3. ASSUME NEW T \in SUBSET Symbols, NEW limit \in Int, SumFunctionOnSet(Opening, T) <= limit
      PROVE  LimitOn(T, limit)
  <2>1. SumFunctionOnSet(Notional, {}) = 0
    BY SumEmpty
  <2>2. SumFunctionOnSet(Worth, T) \in Nat
    BY <1>1, ExposureType
  <2> QED
    BY <1>1, <1>2, <1>3, <2>1, <2>2 DEF LimitOn, Committed, Excess
<1>4. MaxPosition \in Int /\ MaxTotalExposure \in Int /\ MaxSectorExposure \in Int
  BY DeskAssumption
<1>5. ASSUME NEW s \in Symbols PROVE LimitOn({s}, MaxPosition)
  <2>1. SumFunctionOnSet(Opening, {s}) = Opening[s]
    <3>1. /\ IsFiniteSet({}) /\ s \notin {} /\ {} \cup {s} = {s}
          /\ \A x \in {} \cup {s} : Opening[x] \in Int
      BY <1>1, WorthType, FS_EmptySet
    <3>2. SumFunctionOnSet(Opening, {} \cup {s}) = Opening[s] + SumFunctionOnSet(Opening, {})
      BY <3>1, SumAdd
    <3> QED
      BY <3>1, <3>2, SumEmpty
  <2> QED
    BY <1>1, <1>3, <1>4, <2>1 DEF OpensWithinLimits
<1>6. LimitOn(Symbols, MaxTotalExposure)
  BY <1>1, <1>3, <1>4 DEF OpensWithinLimits
<1>7. ASSUME NEW s \in Symbols, MaxSectorExposure > 0 PROVE LimitOn(Peers(s), MaxSectorExposure)
  <2>1. PICK P \in SUBSET Symbols : P = {t \in Symbols : Sector[t] = Sector[s]}
    OBVIOUS
  <2>2. Peers(s) \in SUBSET P
    BY <1>1, <2>1 DEF Peers, TypeOK
  <2>3. IsFiniteSet(P) /\ \A t \in P : Opening[t] \in Nat /\ Opening[t] <= Opening[t]
    <3>1. \A t \in P : Worth[t] \in Nat
      BY <1>1, WorthType
    <3> QED
      BY <1>1, <3>1, SetsFinite
  <2>4. SumFunctionOnSet(Opening, Peers(s)) <= SumFunctionOnSet(Opening, P)
    BY <2>2, <2>3, SumBelow
  <2>5. SumFunctionOnSet(Opening, Peers(s)) \in Int /\ SumFunctionOnSet(Opening, P) \in Int
    <3>1. (\A t \in P : Opening[t] \in Int) /\ IsFiniteSet(Peers(s))
      BY <2>2, <2>3, FS_Subset
    <3> QED
      BY <2>2, <2>3, <3>1, SumType
  <2>6. SumFunctionOnSet(Opening, P) <= MaxSectorExposure
    BY <1>1, <1>7, <2>1 DEF OpensWithinLimits
  <2>7. SumFunctionOnSet(Opening, Peers(s)) <= MaxSectorExposure
    BY <1>4, <2>4, <2>5, <2>6
  <2> QED
    BY <1>3, <1>4, <2>2, <2>7
<1> QED
  BY <1>5, <1>6, <1>7

(* From a book within the limits, and until a price rises or a symbol that *)
(* is held or being bought is classified, no interleaving of approvals and *)
(* fills takes a position, a classified sector or the book over its limit  *)
(* by more than the purchases that were assessed while another was on its  *)
(* way (authoritative_risk_verdict, record_approval).                      *)
THEOREM ExposureHolds ==
    ASSUME OpensWithinLimits PROVE Spec => []ExposureWithinLimit
<1>1. TypeOK /\ Limits => ExposureWithinLimit
  <2> SUFFICES ASSUME TypeOK, Limits PROVE ExposureWithinLimit
    OBVIOUS
  <2>1. screened \subseteq Symbols
    BY DEF TypeOK
  <2> QED
    BY <2>1 DEF Limits, LimitOn, ExposureWithinLimit
<1> QED
  BY InitTyped, StepTyped, RequestsInit, RequestsStep, CheapInit, CheapStep, RoomsInit, RoomsStep,
     LimitsInit, LimitsStep, <1>1, PTL DEF Spec

-----------------------------------------------------------------------------
(* The watchlist. *)

(* What the watchlist store holds of one symbol between two scans: the     *)
(* events follow the status whenever one of the two is a tracked one.  A   *)
(* symbol that was never scanned has this, and so has one whose status was *)
(* stored before events were.                                              *)
WatchEvent == [previous : Quant!EventStatuses \cup {None}, new : Quant!EventStatuses]
LastTold(stored) == stored.events[Len(stored.events)].new
Told(stored) ==
    /\ stored.status \in Quant!EventStatuses \cup {None}
    /\ stored.events \in Seq(WatchEvent)
    /\ stored.status = None => stored.events = <<>>
    /\ stored.events # <<>> =>
         (Quant!Tracked \cap {stored.status, LastTold(stored)} # {} => LastTold(stored) = stored.status)
    /\ \A i \in 1..(Len(stored.events) - 1) : stored.events[i].new # stored.events[i + 1].new

(* Appending an event that differs from the last. *)
LEMMA AppendTold ==
    ASSUME NEW told \in Seq(WatchEvent), NEW e \in WatchEvent,
           told # <<>> => told[Len(told)].new # e.new,
           \A i \in 1..(Len(told) - 1) : told[i].new # told[i + 1].new,
           NEW all, all = Append(told, e)
    PROVE  /\ all \in Seq(WatchEvent) /\ all # <<>> /\ all[Len(all)] = e
           /\ \A i \in 1..(Len(all) - 1) : all[i].new # all[i + 1].new
<1>1. /\ all \in Seq(WatchEvent) /\ Len(all) = Len(told) + 1 /\ all[Len(told) + 1] = e
      /\ \A i \in 1..Len(told) : all[i] = told[i]
  OBVIOUS
<1>2. all # <<>> /\ all[Len(all)] = e
  BY <1>1
<1>3. ASSUME NEW i \in 1..(Len(all) - 1) PROVE all[i].new # all[i + 1].new
  <2>1. i \in 1..Len(told) /\ all[i] = told[i]
    BY <1>1
  <2>2. CASE i = Len(told)
    <3>1. told # <<>>
      BY <2>1
    <3> QED
      BY <1>1, <2>1, <2>2, <3>1
  <2>3. CASE i # Len(told)
    <3>1. i \in 1..(Len(told) - 1) /\ i + 1 \in 1..Len(told)
      BY <2>1, <2>3
    <3> QED
      BY <1>1, <2>1, <3>1
  <2> QED
    BY <2>2, <2>3
<1> QED
  BY <1>1, <1>2, <1>3

(* However a symbol goes from scan to scan, an alert that is stored was the *)
(* last thing told of it, and nothing is told twice in a row: each scan    *)
(* leaves it so if it finds it so (should_record_transition and            *)
(* should_backfill_current_alert).                                         *)
THEOREM AlertsTold ==
    ASSUME None \notin Quant!EventStatuses, NEW stored, Told(stored),
           NEW new \in Quant!EventStatuses
    PROVE  LET after == Quant!Saved(stored, new) IN
           /\ Told(after)
           /\ new \in Quant!InitialAlerts => after.events # <<>> /\ LastTold(after) = new
<1> DEFINE after == Quant!Saved(stored, new)
           told == stored.events
           first == [previous |-> stored.status, new |-> new]
           late == [previous |-> None, new |-> new]
           Fine == /\ Told(after)
                   /\ new \in Quant!InitialAlerts => after.events # <<>> /\ LastTold(after) = new
<1>1. after.status = new
  BY DEF Quant!Saved
<1>2. /\ told \in Seq(WatchEvent) /\ first \in WatchEvent /\ late \in WatchEvent
      /\ first.new = new /\ late.new = new
  BY DEF Told, WatchEvent
<1>3. ASSUME Quant!Transition(stored.status, new) PROVE Fine
  <2>1. after.events = told \o <<first>>
    BY <1>3 DEF Quant!Saved
  <2>2. after.events = Append(told, first)
    <3> HIDE DEF after, first
    <3> QED
      BY <2>1, <1>2
  <2>3. told # <<>> => LastTold(stored) # new
    BY <1>3 DEF Told, Quant!Transition, Quant!Tracked, Quant!InitialAlerts
  <2> HIDE DEF after, first, late
  <2>4. /\ after.events \in Seq(WatchEvent) /\ after.events # <<>> /\ LastTold(after) = new
        /\ \A i \in 1..(Len(after.events) - 1) : after.events[i].new # after.events[i + 1].new
    BY <1>2, <2>2, <2>3, AppendTold DEF Told, LastTold
  <2> QED
    BY <1>1, <2>4 DEF Told, Fine
<1>4. ASSUME ~Quant!Transition(stored.status, new), Quant!Backfilled(stored, new) PROVE Fine
  <2>1. new = stored.status /\ after.events = told \o <<late>>
    BY <1>4 DEF Quant!Saved, Quant!Backfilled
  <2>2. after.events = Append(told, late)
    <3> HIDE DEF after, late
    <3> QED
      BY <2>1, <1>2
  <2>3. told # <<>> => LastTold(stored) # new
    BY <1>4, <1>2 DEF LastTold, Quant!Backfilled
  <2> HIDE DEF after, first, late
  <2>4. /\ after.events \in Seq(WatchEvent) /\ after.events # <<>> /\ LastTold(after) = new
        /\ \A i \in 1..(Len(after.events) - 1) : after.events[i].new # after.events[i + 1].new
    <3>1. /\ told # <<>> => told[Len(told)].new # late.new
          /\ \A i \in 1..(Len(told) - 1) : told[i].new # told[i + 1].new
      BY <1>2, <2>3 DEF Told, LastTold
    <3> HIDE DEF told
    <3> QED
      BY <1>2, <2>2, <3>1, AppendTold DEF LastTold
  <2> QED
    BY <1>1, <2>4 DEF Told, Fine
<1>5. ASSUME ~Quant!Transition(stored.status, new), ~Quant!Backfilled(stored, new) PROVE Fine
  <2>1. after.events = told
    BY <1>5, <1>2 DEF Quant!Saved
  <2>2. \/ stored.status = new
        \/ stored.status = None /\ new \notin Quant!InitialAlerts
        \/ stored.status \notin Quant!Tracked /\ new \notin Quant!Tracked
    BY <1>5 DEF Quant!Transition
  <2>3. stored.status = new /\ new \in Quant!InitialAlerts => told # <<>>
    BY <1>5, <1>2 DEF Quant!Backfilled
  <2>4. Quant!InitialAlerts \subseteq Quant!Tracked
    BY DEF Quant!InitialAlerts, Quant!Tracked
  <2> HIDE DEF after, first, late
  <2> QED
    BY <1>1, <1>2, <2>1, <2>2, <2>3, <2>4 DEF Told, LastTold, Fine
<1> QED
  BY <1>3, <1>4, <1>5 DEF Fine, after

-----------------------------------------------------------------------------
(* Options. *)

(* A quotient is the largest factor that fits. *)
LEMMA Division ==
    ASSUME NEW a \in Nat, NEW b \in Nat \ {0}, NEW n \in Int
    PROVE  n <= a \div b <=> n * b <= a
<1> DEFINE q == a \div b
<1>1. q \in Int /\ q * b <= a /\ a < (q + 1) * b
  OBVIOUS
<1> HIDE DEF q
<1>2. CASE n <= q
  <2>1. n * b <= q * b
    BY <1>1, <1>2
  <2> QED
    BY <1>1, <1>2, <2>1
<1>3. CASE ~(n <= q)
  <2>1. q + 1 <= n
    BY <1>1, <1>3
  <2>2. (q + 1) * b <= n * b
    BY <1>1, <2>1
  <2> QED
    BY <1>1, <1>3, <2>2
<1> QED
  BY <1>2, <1>3 DEF q

(* What the broker says of the account that backs an option. *)
Backing(broker) ==
    broker.shares \in Nat /\ broker.cash \in Nat /\ broker.uses_margin = FALSE

(* The size that _select gives an option is exactly the largest that       *)
(* check_structure lets through for the same account, within the ceiling:  *)
(* no choice is refused for its backing unless the account has changed,    *)
(* and none leaves backing unused.                                         *)
THEOREM ChoiceIsBacked ==
    ASSUME SharesPerContract \in Nat \ {0}, None \notin Int,
           NEW strategy \in Option!Structures, NEW chain, NEW spot, NEW broker, Backing(broker),
           NEW ceiling \in Nat \cup {None},
           LET choice == Option!Select(strategy, chain, spot, broker, ceiling)
           IN  choice.status = "SELECTED" /\ choice.row.strike \in Nat \ {0}
    PROVE  LET choice == Option!Select(strategy, chain, spot, broker, ceiling) IN
           \A n \in Nat :
               n <= choice.contracts <=>
                   /\ Option!CheckStructure(strategy, choice.row, n, broker, TRUE)
                   /\ ceiling # None => n <= ceiling
<1> DEFINE choice == Option!Select(strategy, chain, spot, broker, ceiling)
           row == choice.row
           size == Option!Capacity(strategy, broker, row.strike)
<1>1. choice.status = "SELECTED" /\ row.strike \in Nat \ {0}
  OBVIOUS
<1>2. choice.contracts = Option!Capped(size, ceiling)
  BY <1>1 DEF Option!Select, Option!Refusal
<1> HIDE DEF choice
<1>3. ASSUME NEW n \in Nat
      PROVE  n <= size <=> Option!CheckStructure(strategy, row, n, broker, TRUE)
  <2>1. CASE strategy = "COVERED_CALL"
    <3>1. size = broker.shares \div SharesPerContract
      BY <2>1 DEF Option!Capacity
    <3>2. n <= broker.shares \div SharesPerContract <=> n * SharesPerContract <= broker.shares
      BY Division DEF Backing
    <3> QED
      BY <2>1, <3>1, <3>2 DEF Option!CheckStructure, Backing
  <2>2. CASE strategy # "COVERED_CALL"
    <3> DEFINE price == row.strike * SharesPerContract
    <3>1. price \in Nat \ {0} /\ n * SharesPerContract * row.strike = n * price
      BY <1>1
    <3>2. size = broker.cash \div price
      BY <2>2 DEF Option!Capacity
    <3>3. n <= broker.cash \div price <=> n * price <= broker.cash
      <4> HIDE DEF price
      <4> QED
        BY <3>1, Division DEF Backing
    <3>4. ~Option!Missing(row.strike)
      BY <1>1 DEF Option!Missing
    <3> HIDE DEF price, size, row
    <3> QED
      BY <2>2, <3>1, <3>2, <3>3, <3>4 DEF Option!CheckStructure, Backing
  <2> QED
    BY <2>1, <2>2
<1>4. size \in Int
  BY <1>1 DEF Option!Capacity, Backing
<1> HIDE DEF size, row
<1>5. ASSUME NEW n \in Nat
      PROVE  n <= choice.contracts <=> n <= size /\ (ceiling # None => n <= ceiling)
  BY <1>2, <1>4 DEF Option!Capped
<1>6. \A n \in Nat : n <= choice.contracts <=>
          /\ Option!CheckStructure(strategy, row, n, broker, TRUE)
          /\ ceiling # None => n <= ceiling
  BY <1>3, <1>5
<1> QED
  BY <1>6 DEF choice, row
=============================================================================
