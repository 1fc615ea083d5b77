----------------------------- MODULE P3BookProofs -----------------------------
(***************************************************************************)
(* Proofs about P3Book for every set of orders, requests and prices.       *)
(***************************************************************************)
EXTENDS P3Book, SequenceTheorems, FiniteSums

(* What a request has established before each of its steps. *)
JobsOK ==
    \A w \in Workers :
        /\ pc[w] \notin {"idle", "insert"} =>
             job[w].order \in Orders /\ orders[job[w].order].status # "NONE"
        /\ pc[w] \in {"appraise", "fund", "book", "close"} =>
             orders[job[w].order].status \in {"APPROVED", "EXECUTED"}
        /\ pc[w] \in {"fund", "book"} => job[w].price \in Prices
        /\ pc[w] = "book" => job[w].new_cash >= 0
        /\ pc[w] = "close" => fills[job[w].order] # <<>>

Inv == TypeOK /\ SolventBook /\ FilledWasApproved /\ ExecutedIsFilled /\ JobsOK

THEOREM InitInv == Init => Inv
<1> SUFFICES ASSUME Init PROVE Inv
  OBVIOUS
<1>1. TypeOK
  BY BookAssumption DEF Init, TypeOK, NoOrder, NoJob, Statuses, Sides, Steps
<1>2. SolventBook /\ FilledWasApproved /\ ExecutedIsFilled /\ JobsOK
  BY BookAssumption DEF Init, SolventBook, FilledWasApproved, ExecutedIsFilled, JobsOK, NoOrder
<1> QED
  BY <1>1, <1>2 DEF Inv

(* Steps that read the tables and move one request on. *)
LEMMA ReadStep ==
    ASSUME Inv, NEW w \in Workers, UNCHANGED tables, NEW s \in Steps,
           NEW j \in [order : Orders \cup {None}, side : Sides, size : Nat,
                      price : Prices \cup {0}, new_cash : Int],
           Goto(w, s, j),
           s \notin {"idle", "insert"} => j.order \in Orders /\ orders[j.order].status # "NONE",
           s \in {"appraise", "fund", "book", "close"} =>
               orders[j.order].status \in {"APPROVED", "EXECUTED"},
           s \in {"fund", "book"} => j.price \in Prices,
           s = "book" => j.new_cash >= 0,
           s # "close"
    PROVE  Inv'
<1>1. TypeOK'
  BY DEF Inv, TypeOK, Goto, tables
<1>2. JobsOK'
  BY DEF Inv, TypeOK, JobsOK, Goto, tables
<1> QED
  BY <1>1, <1>2 DEF Inv, tables, SolventBook, FilledWasApproved, ExecutedIsFilled

(* A request that ends leaves every other where it was. *)
LEMMA ReturnStep ==
    ASSUME Inv, NEW w \in Workers, UNCHANGED tables,
           pc' = [pc EXCEPT ![w] = "idle"], job' = [job EXCEPT ![w] = NoJob],
           faults' \in 0..FaultBudget
    PROVE  Inv'
<1>1. TypeOK'
  BY DEF Inv, TypeOK, tables, NoJob, Sides, Steps
<1>2. JobsOK'
  BY DEF Inv, TypeOK, JobsOK, tables
<1> QED
  BY <1>1, <1>2 DEF Inv, tables, SolventBook, FilledWasApproved, ExecutedIsFilled

(* A compare-and-set along the state machine, by a request that then ends. *)
LEMMA MoveStep ==
    ASSUME Inv, NEW w \in Workers, NEW o \in Orders, NEW from, NEW to,
           Move(o, from, to), Return(w), UNCHANGED <<current_cash, quantity, fills>>,
           \/ from = "PROPOSED" /\ to \in {"APPROVED", "REJECTED"}
           \/ from = "APPROVED" /\ to = "EXECUTED" /\ fills[o] # <<>>
    PROVE  Inv'
<1> USE DEF Move, Return, Goto
<1>1. /\ orders' \in [Orders -> [status : Statuses, side : Sides, size : Nat]]
      /\ \A p \in Orders : p # o => orders'[p] = orders[p]
      /\ orders'[o].status \in {orders[o].status, to}
      /\ orders'[o].status = to => orders[o].status \in {from, to}
  BY DEF Inv, TypeOK, Statuses
<1>2. TypeOK'
  BY <1>1 DEF Inv, TypeOK, NoJob, Sides, Steps
<1>3. \A p \in Orders :
        /\ orders[p].status # "NONE" => orders'[p].status # "NONE"
        /\ orders[p].status \in {"APPROVED", "EXECUTED"} =>
             orders'[p].status \in {"APPROVED", "EXECUTED"}
        /\ orders'[p].status = "EXECUTED" =>
             orders[p].status = "EXECUTED" \/ fills[p] # <<>>
  BY DEF Inv, TypeOK
<1>4. JobsOK'
  BY <1>3 DEF Inv, TypeOK, JobsOK
<1>5. FilledWasApproved' /\ ExecutedIsFilled' /\ SolventBook'
  BY <1>3 DEF Inv, FilledWasApproved, ExecutedIsFilled, SolventBook
<1> QED
  BY <1>2, <1>4, <1>5 DEF Inv

LEMMA BookStep ==
    ASSUME Inv, NEW w \in Workers, ExecuteBook(w)
    PROVE  Inv'
<1> DEFINE j == job[w]
<1> USE DEF Return, Goto
<1>1. CASE j.side = "SELL" /\ quantity < j.size
  BY <1>1, ReturnStep DEF ExecuteBook, Inv, TypeOK
<1>2. CASE ~(j.side = "SELL" /\ quantity < j.size)
  <2>1. /\ current_cash' = job[w].new_cash /\ quantity' = QuantityAfter(job[w], quantity)
        /\ fills' = [fills EXCEPT ![job[w].order] = Append(fills[job[w].order], job[w].price)]
        /\ pc' = [pc EXCEPT ![w] = "close"] /\ job' = [job EXCEPT ![w] = job[w]]
        /\ UNCHANGED <<orders, faults>> /\ pc[w] = "book"
    BY <1>2 DEF ExecuteBook
  <2>2. /\ job[w].order \in Orders /\ job[w].new_cash >= 0 /\ job[w].new_cash \in Int
        /\ orders[job[w].order].status \in {"APPROVED", "EXECUTED"}
        /\ job[w].size \in Nat /\ job[w].side \in Sides
    BY <2>1 DEF Inv, TypeOK, JobsOK
  <2>3. quantity' \in Int /\ quantity' >= 0
    BY <1>2, <2>1, <2>2 DEF QuantityAfter, Inv, TypeOK, SolventBook, Sides
  <2>4. job' = job
    BY <2>1 DEF Inv, TypeOK
  <2>5. /\ fills' \in [Orders -> Seq(Prices)] /\ fills'[job[w].order] # <<>>
        /\ \A p \in Orders : p # job[w].order => fills'[p] = fills[p]
    <3>1. job[w].price \in Prices /\ fills[job[w].order] \in Seq(Prices)
      BY <2>1, <2>2 DEF Inv, TypeOK, JobsOK
    <3>2. Append(fills[job[w].order], job[w].price) \in Seq(Prices)
      BY <3>1
    <3>3. Append(fills[job[w].order], job[w].price) # <<>>
      BY <3>1, AppendProperties
    <3> QED
      BY <2>1, <2>2, <3>2, <3>3 DEF Inv, TypeOK
  <2>6. TypeOK'
    BY <2>1, <2>2, <2>3, <2>4, <2>5 DEF Inv, TypeOK, Steps
  <2>7. JobsOK'
    BY <2>1, <2>2, <2>4, <2>5 DEF Inv, TypeOK, JobsOK
  <2>8. FilledWasApproved' /\ ExecutedIsFilled' /\ SolventBook'
    BY <2>1, <2>2, <2>3, <2>5 DEF Inv, FilledWasApproved, ExecutedIsFilled, SolventBook
  <2> QED
    BY <2>6, <2>7, <2>8 DEF Inv
<1> QED
  BY <1>1, <1>2

LEMMA InsertStep ==
    ASSUME Inv, NEW w \in Workers, NEW o \in Orders, ProposeInsert(w, o)
    PROVE  Inv'
<1> USE DEF ProposeInsert, Return, Goto
<1>1. /\ orders' \in [Orders -> [status : Statuses, side : Sides, size : Nat]]
      /\ \A p \in Orders : p # o => orders'[p] = orders[p]
      /\ orders[o].status = "NONE" /\ orders'[o].status = "PROPOSED"
  BY DEF Inv, TypeOK, Statuses
<1>2. TypeOK'
  BY <1>1 DEF Inv, TypeOK, NoJob, Sides, Steps
<1>3. JobsOK'
  BY <1>1 DEF Inv, TypeOK, JobsOK
<1>4. FilledWasApproved' /\ ExecutedIsFilled' /\ SolventBook'
  BY <1>1 DEF Inv, FilledWasApproved, ExecutedIsFilled, SolventBook
<1> QED
  BY <1>2, <1>3, <1>4 DEF Inv

LEMMA StepInv == Inv /\ [Next]_vars => Inv'
<1> SUFFICES ASSUME Inv, [Next]_vars PROVE Inv'
  OBVIOUS
<1> USE BookAssumption
<1>1. ASSUME NEW w \in Workers, NEW side \in Sides, ProposeReview(w, side) PROVE Inv'
  <2>1. PICK p \in Prices : \E n \in ProposedSizes(side, p) :
          Goto(w, "insert", [NoJob EXCEPT !.side = side, !.size = n])
    BY <1>1 DEF ProposeReview
  <2>2. PICK n \in ProposedSizes(side, p) :
          Goto(w, "insert", [NoJob EXCEPT !.side = side, !.size = n])
    BY <2>1
  <2>3. n \in Nat
    BY DEF ProposedSizes, Maximum, Inv, TypeOK, SolventBook
  <2>4. [NoJob EXCEPT !.side = side, !.size = n] \in
          [order : Orders \cup {None}, side : Sides, size : Nat,
           price : Prices \cup {0}, new_cash : Int]
    <3>1. NoJob \in [order : Orders \cup {None}, side : Sides, size : Nat,
                     price : Prices \cup {0}, new_cash : Int]
      BY DEF NoJob, Sides
    <3> QED
      BY <2>3, <3>1
  <2>5. "insert" \in Steps
    BY DEF Steps
  <2> QED
    BY <1>1, <2>2, <2>4, <2>5, ReadStep DEF ProposeReview
<1>2. ASSUME NEW w \in Workers, NEW o \in Orders, ApproveLoad(w, o) \/ ExecuteLoad(w, o) PROVE Inv'
  <2> DEFINE j == [NoJob EXCEPT !.order = o]
  <2>1. /\ j \in [order : Orders \cup {None}, side : Sides, size : Nat,
                  price : Prices \cup {0}, new_cash : Int]
        /\ j.order = o /\ {"review", "appraise"} \subseteq Steps
    BY DEF NoJob, Sides, Steps
  <2>2. CASE ApproveLoad(w, o)
    <3>1. Goto(w, "review", j) /\ UNCHANGED tables /\ orders[o].status = "PROPOSED"
      BY <2>2 DEF ApproveLoad
    <3> HIDE DEF j
    <3> QED
      BY <2>1, <3>1, ReadStep
  <2>3. CASE ExecuteLoad(w, o)
    <3>1. Goto(w, "appraise", j) /\ UNCHANGED tables /\ orders[o].status = "APPROVED"
      BY <2>3 DEF ExecuteLoad
    <3> HIDE DEF j
    <3> QED
      BY <2>1, <3>1, ReadStep
  <2> QED
    BY <1>2, <2>2, <2>3
<1>3. ASSUME NEW w \in Workers, ApprovePasses(w) \/ ApproveBlocked(w) PROVE Inv'
  <2>1. /\ UNCHANGED tables /\ (Goto(w, "promote", job[w]) \/ Goto(w, "demote", job[w]))
        /\ job[w].order \in Orders /\ orders[job[w].order].status # "NONE"
        /\ job[w] \in [order : Orders \cup {None}, side : Sides, size : Nat,
                       price : Prices \cup {0}, new_cash : Int]
        /\ {"promote", "demote"} \subseteq Steps
    BY <1>3 DEF ApprovePasses, ApproveBlocked, Inv, JobsOK, TypeOK, Steps
  <2> QED
    BY <2>1, ReadStep
<1>4. ASSUME NEW w \in Workers, Promote(w) \/ Demote(w) PROVE Inv'
  BY <1>4, MoveStep DEF Promote, Demote, Inv, JobsOK
<1>5. ASSUME NEW w \in Workers, ExecuteReview(w) PROVE Inv'
  <2> DEFINE order == orders[job[w].order]
             j(p) == [job[w] EXCEPT !.side = order.side, !.size = order.size, !.price = p]
  <2>1. PICK p \in Prices : Goto(w, "fund", j(p))
    BY <1>5 DEF ExecuteReview
  <2>2. /\ job[w].order \in Orders /\ order.status \in {"APPROVED", "EXECUTED"}
        /\ UNCHANGED tables
    BY <1>5 DEF ExecuteReview, Inv, JobsOK
  <2>3. /\ j(p) \in [order : Orders \cup {None}, side : Sides, size : Nat,
                     price : Prices \cup {0}, new_cash : Int]
        /\ j(p).order = job[w].order /\ j(p).price \in Prices /\ "fund" \in Steps
    BY <2>2 DEF Inv, TypeOK, Steps
  <2> HIDE DEF j
  <2> QED
    BY <2>1, <2>2, <2>3, ReadStep
<1>6. ASSUME NEW w \in Workers, ExecuteBlocked(w) PROVE Inv'
  BY <1>6, ReturnStep DEF ExecuteBlocked, Return, Goto, Inv, TypeOK
<1>7. ASSUME NEW w \in Workers, ExecuteFund(w) PROVE Inv'
  <2> DEFINE cash == CashAfter(job[w], current_cash)
             j == [job[w] EXCEPT !.new_cash = cash]
  <2>1. CASE Unaffordable(cash)
    BY <1>7, <2>1, ReturnStep DEF ExecuteFund, Return, Goto, Inv, TypeOK
  <2>2. CASE ~Unaffordable(cash)
    <3>1. Goto(w, "book", j) /\ UNCHANGED tables /\ pc[w] = "fund"
      BY <1>7, <2>2 DEF ExecuteFund
    <3>2. /\ job[w].order \in Orders /\ orders[job[w].order].status \in {"APPROVED", "EXECUTED"}
          /\ job[w].price \in Prices
      BY <3>1 DEF Inv, JobsOK
    <3>3. job[w].size * job[w].price \in Int
      <4>1. job[w].size \in Nat
        BY DEF Inv, TypeOK
      <4>2. job[w].price \in Nat
        BY <3>2 DEF BookAssumption
      <4> QED
        BY <4>1, <4>2
    <3>4. cash \in Int
      BY <3>3 DEF CashAfter, Inv, TypeOK
    <3>5. cash >= 0
      BY <2>2, <3>4 DEF Unaffordable
    <3>6. /\ j \in [order : Orders \cup {None}, side : Sides, size : Nat,
                    price : Prices \cup {0}, new_cash : Int]
          /\ j.order = job[w].order /\ j.price = job[w].price /\ j.new_cash = cash
          /\ "book" \in Steps
      BY <3>4 DEF Inv, TypeOK, Steps
    <3> HIDE DEF j, cash
    <3> QED
      BY <3>1, <3>2, <3>5, <3>6, ReadStep
  <2> QED
    BY <2>1, <2>2
<1>8. ASSUME NEW w \in Workers, ExecuteClose(w) PROVE Inv'
  <2>1. job[w].order \in Orders /\ fills[job[w].order] # <<>>
    BY <1>8 DEF ExecuteClose, Inv, JobsOK
  <2> QED
    BY <1>8, <2>1, MoveStep DEF ExecuteClose
<1>9. ASSUME NEW w \in Workers, Die(w) PROVE Inv'
  <2>1. faults' \in 0..FaultBudget
    BY <1>9 DEF Die, Inv, TypeOK, BookAssumption
  <2> QED
    BY <1>9, <2>1, ReturnStep DEF Die
<1>10. CASE UNCHANGED vars
  BY <1>10 DEF vars, tables, Inv, TypeOK, JobsOK, SolventBook, FilledWasApproved, ExecutedIsFilled
<1> QED
  BY <1>1, <1>2, <1>3, <1>4, <1>5, <1>6, <1>7, <1>8, <1>9, <1>10, InsertStep, BookStep
  DEF Next, Work

(* Orders, fills and requests keep their types. *)
THEOREM TypeCorrect == Spec => []TypeOK
<1>1. Inv => TypeOK
  BY DEF Inv
<1> QED
  BY InitInv, StepInv, <1>1, PTL DEF Spec

(* Racing requests, crashes between the two commits and stale readings     *)
(* never drive the stored cash or the position below zero.                 *)
THEOREM BookStaysSolvent == Spec => []SolventBook
<1>1. Inv => SolventBook
  BY DEF Inv
<1> QED
  BY InitInv, StepInv, <1>1, PTL DEF Spec

(* A fill is booked only for an order that was approved and stays so, and  *)
(* an order is EXECUTED only with a fill in the book.                      *)
THEOREM FillsFollowApproval == Spec => []FilledAsOrdered
<1>1. Inv => FilledAsOrdered
  BY DEF Inv, FilledAsOrdered
<1> QED
  BY InitInv, StepInv, <1>1, PTL DEF Spec

(* The compare-and-set of update_order_status keeps every order on the     *)
(* documented state machine, whichever requests race.                      *)
THEOREM StatusAdvances == Spec => StatusOnlyAdvances
<1>1. Inv /\ [Next]_vars =>
        [\A o \in Orders : orders'[o].status # orders[o].status =>
            orders'[o].status \in Successors[orders[o].status]]_vars
  <2> SUFFICES ASSUME Inv, Next, NEW o \in Orders, orders'[o].status # orders[o].status
      PROVE  orders'[o].status \in Successors[orders[o].status]
    OBVIOUS
  <2> USE DEF Successors
  <2>1. PICK w \in Workers : Work(w) \/ Die(w)
    BY DEF Next
  <2>2. CASE \E p \in Orders : ProposeInsert(w, p)
    BY <2>2 DEF ProposeInsert, Inv, TypeOK
  <2>3. CASE Promote(w) \/ Demote(w) \/ ExecuteClose(w)
    BY <2>3 DEF Promote, Demote, ExecuteClose, Move, Inv, TypeOK
  <2>4. CASE ExecuteBook(w)
    BY <2>4 DEF ExecuteBook, tables
  <2> QED
    BY <2>1, <2>2, <2>3, <2>4 DEF Work, Die, ProposeReview, ApproveLoad, ExecuteLoad,
       ApprovePasses, ApproveBlocked, ExecuteReview, ExecuteBlocked, ExecuteFund, tables
<1> QED
  BY InitInv, StepInv, <1>1, PTL DEF Spec, StatusOnlyAdvances

-----------------------------------------------------------------------------
(* Once an order exists its side and size are final, so a request that has *)
(* reviewed it trades what the order says.                                 *)
JobsSized ==
    \A w \in Workers : pc[w] \in {"fund", "book"} =>
        /\ job[w].side = orders[job[w].order].side
        /\ job[w].size = orders[job[w].order].size

LEMMA TermsFinal ==
    ASSUME Inv, [Next]_vars, NEW o \in Orders
    PROVE  orders[o].status # "NONE" =>
               orders'[o].side = orders[o].side /\ orders'[o].size = orders[o].size
<1>1. ASSUME NEW w \in Workers, NEW p \in Orders, ProposeInsert(w, p), orders[o].status # "NONE"
      PROVE  orders'[o].side = orders[o].side /\ orders'[o].size = orders[o].size
  BY <1>1 DEF ProposeInsert, Inv, TypeOK
<1>2. ASSUME NEW w \in Workers, Promote(w) \/ Demote(w) \/ ExecuteClose(w)
      PROVE  orders'[o].side = orders[o].side /\ orders'[o].size = orders[o].size
  <2>1. PICK from, to : Move(job[w].order, from, to)
    BY <1>2 DEF Promote, Demote, ExecuteClose
  <2>2. orders[o] \in [status : Statuses, side : Sides, size : Nat] /\ o \in DOMAIN orders
    BY DEF Inv, TypeOK
  <2>3. orders'[o] \in {orders[o], [orders[o] EXCEPT !.status = to]}
    BY <2>1, <2>2 DEF Move
  <2> QED
    BY <2>2, <2>3
<1>3. ASSUME NEW w \in Workers, ExecuteBook(w) PROVE UNCHANGED orders
  BY <1>3 DEF ExecuteBook, tables
<1>4. CASE UNCHANGED vars
  BY <1>4 DEF vars, tables
<1>5. CASE Next
  BY <1>1, <1>2, <1>3, <1>5 DEF Next, Work, Die, ProposeReview, ApproveLoad, ExecuteLoad,
     ApprovePasses, ApproveBlocked, ExecuteReview, ExecuteBlocked, ExecuteFund, tables, Inv, TypeOK
<1> QED
  BY <1>4, <1>5

(* A request comes to fund and book only through its review. *)
LEMMA Sizing ==
    ASSUME Inv, [Next]_vars, NEW w \in Workers, pc'[w] \in {"fund", "book"}
    PROVE  \/ ExecuteReview(w)
           \/ /\ pc[w] \in {"fund", "book"}
              /\ job'[w].order = job[w].order
              /\ job'[w].side = job[w].side /\ job'[w].size = job[w].size
<1> USE DEF Goto, Return, Inv, TypeOK
<1>1. CASE UNCHANGED vars
  BY <1>1 DEF vars
<1>2. ASSUME NEW v \in Workers, Work(v) \/ Die(v), v # w PROVE pc'[w] = pc[w] /\ job'[w] = job[w]
  BY <1>2 DEF Work, Die, ProposeReview, ProposeInsert, ApproveLoad, ExecuteLoad, ApprovePasses,
     ApproveBlocked, Promote, Demote, ExecuteReview, ExecuteBlocked, ExecuteFund, ExecuteBook,
     ExecuteClose
<1>3. CASE Work(w) \/ Die(w)
  <2>1. CASE ExecuteFund(w)
    BY <2>1 DEF ExecuteFund
  <2>2. CASE ExecuteReview(w)
    BY <2>2
  <2> QED
    BY <1>3, <2>1, <2>2 DEF Work, Die, ProposeReview, ProposeInsert, ApproveLoad, ExecuteLoad,
       ApprovePasses, ApproveBlocked, Promote, Demote, ExecuteBlocked, ExecuteBook, ExecuteClose
<1> QED
  BY <1>1, <1>2, <1>3 DEF Next

LEMMA SizedStep == Inv /\ JobsSized /\ [Next]_vars => JobsSized'
<1> SUFFICES ASSUME Inv, JobsSized, [Next]_vars, NEW w \in Workers, pc'[w] \in {"fund", "book"}
    PROVE  /\ job'[w].side = orders'[job'[w].order].side
           /\ job'[w].size = orders'[job'[w].order].size
  BY DEF JobsSized
<1>1. CASE ExecuteReview(w)
  <2>1. PICK p \in Prices : job' = [job EXCEPT ![w] = [job[w] EXCEPT
            !.side = orders[job[w].order].side, !.size = orders[job[w].order].size, !.price = p]]
    BY <1>1 DEF ExecuteReview, Goto
  <2>2. orders' = orders
    BY <1>1 DEF ExecuteReview, tables
  <2> QED
    BY <2>1, <2>2 DEF Inv, TypeOK
<1>2. CASE /\ pc[w] \in {"fund", "book"}
           /\ job'[w].order = job[w].order
           /\ job'[w].side = job[w].side /\ job'[w].size = job[w].size
  <2>1. job[w].order \in Orders /\ orders[job[w].order].status # "NONE"
    BY <1>2 DEF Inv, JobsOK
  <2> QED
    BY <1>2, <2>1, TermsFinal DEF JobsSized
<1> QED
  BY <1>1, <1>2, Sizing

(* A step that books a fill moves the position by what the fills now say;  *)
(* no other step changes either.                                           *)
LEMMA SharesType ==
    ASSUME Inv, NEW o \in Orders
    PROVE  /\ SharesFilled[o] \in Int
           /\ fills[o] = <<>> => SharesFilled[o] = 0
<1>1. fills[o] \in Seq(Prices) /\ orders[o].size \in Nat
  BY DEF Inv, TypeOK
<1>2. Len(fills[o]) \in Nat /\ (fills[o] = <<>> => Len(fills[o]) = 0)
  BY <1>1
<1>3. orders[o].size * Len(fills[o]) \in Nat /\ orders[o].size * 0 = 0
  BY <1>1, <1>2
<1> QED
  BY <1>2, <1>3 DEF SharesFilled, Signed

LEMMA SharesStill ==
    ASSUME Inv, [Next]_vars, fills' = fills, NEW o \in Orders
    PROVE  SharesFilled'[o] = SharesFilled[o]
<1>1. CASE orders[o].status = "NONE"
  <2>1. fills[o] = <<>>
    BY <1>1 DEF Inv, FilledWasApproved
  <2>2. Inv' /\ fills'[o] = <<>>
    BY <2>1, StepInv
  <2>3. SharesFilled'[o] = 0
    <3>1. fills'[o] \in Seq(Prices) /\ orders'[o].size \in Nat /\ Len(fills'[o]) = 0
      BY <2>2 DEF Inv, TypeOK
    <3> QED
      BY <3>1 DEF SharesFilled, Signed
  <2> QED
    BY <2>1, <2>3, SharesType
<1>2. CASE orders[o].status # "NONE"
  BY <1>2, TermsFinal DEF SharesFilled, Signed
<1> QED
  BY <1>1, <1>2

(* Only ExecuteBook writes the position and the fills. *)
LEMMA PositionWriters ==
    ASSUME Inv, [Next]_vars
    PROVE  \/ UNCHANGED <<quantity, fills>>
           \/ \E w \in Workers : ExecuteBook(w)
BY DEF Next, Work, Die, ProposeReview, ProposeInsert, ApproveLoad, ExecuteLoad, ApprovePasses,
   ApproveBlocked, Promote, Demote, ExecuteReview, ExecuteBlocked, ExecuteFund, ExecuteClose,
   tables, vars

LEMMA PositionStep ==
    Inv /\ JobsSized /\ PositionMatchesFills /\ [Next]_vars => PositionMatchesFills'
<1> SUFFICES ASSUME Inv, JobsSized, PositionMatchesFills, [Next]_vars PROVE PositionMatchesFills'
  OBVIOUS
<1> USE BookAssumption
<1>1. CASE UNCHANGED <<quantity, fills>>
  <2>1. ASSUME NEW f, NEW g, f = SharesFilled, g = SharesFilled'
        PROVE  SumFunctionOnSet(g, Orders) = SumFunctionOnSet(f, Orders)
    <3>1. \A o \in Orders : g[o] = f[o]
      BY <1>1, <2>1, SharesStill
    <3> QED
      BY <3>1, SumSame
  <2> QED
    BY <1>1, <2>1 DEF PositionMatchesFills
<1>2. ASSUME NEW w \in Workers, ExecuteBook(w), ~ UNCHANGED <<quantity, fills>>
      PROVE  PositionMatchesFills'
  <2> DEFINE o == job[w].order
             n == job[w].size
             moved == IF job[w].side = "BUY" THEN n ELSE -n
  <2>1. /\ pc[w] = "book" /\ orders' = orders
        /\ fills' = [fills EXCEPT ![o] = Append(@, job[w].price)]
        /\ quantity' = QuantityAfter(job[w], quantity)
    BY <1>2 DEF ExecuteBook, tables
  <2>2. /\ o \in Orders /\ n \in Nat /\ job[w].price \in Prices
        /\ job[w].side = orders[o].side /\ n = orders[o].size
        /\ fills[o] \in Seq(Prices) /\ quantity \in Int
    BY <2>1 DEF Inv, JobsOK, JobsSized, TypeOK
  <2>3. /\ fills'[o] = Append(fills[o], job[w].price)
        /\ \A p \in Orders : p # o => fills'[p] = fills[p]
    BY <2>1, <2>2 DEF Inv, TypeOK
  <2>4. Len(fills'[o]) = Len(fills[o]) + 1 /\ Len(fills[o]) \in Nat
    BY <2>2, <2>3
  <2>5. SharesFilled'[o] = SharesFilled[o] + moved
    <3>1. n * (Len(fills[o]) + 1) = n * Len(fills[o]) + n /\ n * Len(fills[o]) \in Nat
      BY <2>2, <2>4
    <3>2. /\ SharesFilled[o] = IF orders[o].side = "BUY" THEN n * Len(fills[o]) ELSE -(n * Len(fills[o]))
          /\ SharesFilled'[o] = IF orders[o].side = "BUY" THEN n * (Len(fills[o]) + 1)
                                                      ELSE -(n * (Len(fills[o]) + 1))
      BY <2>1, <2>2, <2>4 DEF SharesFilled, Signed
    <3> DEFINE k == n * Len(fills[o])
    <3>3. k \in Nat /\ n * (Len(fills[o]) + 1) = k + n
      BY <3>1
    <3> HIDE DEF k, n, o
    <3> QED
      BY <2>2, <3>2, <3>3 DEF k
  <2>6. \A p \in Orders \ {o} : SharesFilled'[p] = SharesFilled[p]
    BY <2>1, <2>3 DEF SharesFilled, Signed
  <2>7. moved \in Int /\ quantity' = quantity + moved
    BY <2>1, <2>2 DEF QuantityAfter
  <2>8. ASSUME NEW f, NEW g, f = SharesFilled, g = SharesFilled'
        PROVE  /\ SumFunctionOnSet(g, Orders) = SumFunctionOnSet(f, Orders) + moved
               /\ SumFunctionOnSet(f, Orders) \in Int
    <3> HIDE DEF moved, o
    <3>1. \A p \in Orders : f[p] \in Int
      BY <2>8, SharesType
    <3>2. o \in Orders /\ f[o] \in Int /\ g[o] \in Int /\ g[o] = f[o] + moved
      BY <2>2, <2>5, <2>7, <2>8, <3>1
    <3>3. \A p \in Orders \ {o} : g[p] = f[p]
      BY <2>6, <2>8
    <3>4. SumFunctionOnSet(g, Orders) = SumFunctionOnSet(f, Orders) - f[o] + g[o]
      BY <3>1, <3>2, <3>3, SumChange
    <3>5. SumFunctionOnSet(f, Orders) \in Int
      BY <3>1, SumType
    <3> QED
      BY <2>7, <3>2, <3>4, <3>5
  <2> HIDE DEF moved
  <2> QED
    BY <2>2, <2>7, <2>8 DEF PositionMatchesFills
<1> QED
  BY <1>1, <1>2, PositionWriters

(* The position is what the fills add up to, sales and purchases alike, for *)
(* every overlap of executions and every crash between the two commits: it  *)
(* is read inside the transaction that writes it.                          *)
THEOREM PositionFollows == Spec => []PositionMatchesFills
<1>1. Init => JobsSized
  BY DEF Init, JobsSized
<1>2. Init => PositionMatchesFills
  <2> SUFFICES ASSUME Init PROVE PositionMatchesFills
    OBVIOUS
  <2>1. \A o \in Orders : SharesFilled[o] = 0
    BY InitInv, SharesType DEF Init
  <2>2. SumFunctionOnSet(SharesFilled, Orders) = 0
    BY <2>1, SumZero, BookAssumption
  <2> QED
    BY <2>2, BookAssumption DEF Init, PositionMatchesFills
<1> QED
  BY InitInv, StepInv, SizedStep, PositionStep, <1>1, <1>2, PTL DEF Spec

-----------------------------------------------------------------------------
(* "Execution is fully atomic" is refuted by requests that overlap.  One   *)
(* request at a time keeps the cash exact even if it dies half way, and    *)
(* fills no order twice unless it dies between the two commits.            *)
OneRequestAtATime == \A v, w \in Workers : v = w

LEMMA Distribute ==
    ASSUME NEW a \in Int, NEW b \in Int, NEW c \in Int
    PROVE  a * b \in Int /\ a * (b + c) = a * b + a * c
OBVIOUS

(* What is paid for the fills of one order. *)
LEMMA FillsSum ==
    ASSUME NEW s \in Seq(Prices)
    PROVE  /\ SumFunctionOnSet(s, DOMAIN s) \in Int
           /\ s = <<>> => SumFunctionOnSet(s, DOMAIN s) = 0
           /\ \A p \in Prices :
                SumFunctionOnSet(Append(s, p), DOMAIN Append(s, p)) = SumFunctionOnSet(s, DOMAIN s) + p
<1>1. /\ DOMAIN s = 1..Len(s) /\ Len(s) \in Nat /\ IsFiniteSet(DOMAIN s)
      /\ \A x \in DOMAIN s : s[x] \in Int
  <2>1. DOMAIN s = 1..Len(s) /\ Len(s) \in Nat /\ \A x \in 1..Len(s) : s[x] \in Prices
    OBVIOUS
  <2>2. IsFiniteSet(1..Len(s))
    BY <2>1, FS_Interval
  <2>3. \A x \in Prices : x \in Int
    BY BookAssumption
  <2>4. IsFiniteSet(DOMAIN s)
    BY <2>1, <2>2, Zenon
  <2> QED
    BY <2>1, <2>3, <2>4
<1>2. SumFunctionOnSet(s, DOMAIN s) \in Int
  BY <1>1, SumType
<1>3. s = <<>> => SumFunctionOnSet(s, DOMAIN s) = 0
  <2>1. s = <<>> => DOMAIN s = {}
    OBVIOUS
  <2> QED
    BY <2>1, SumEmpty
<1>4. ASSUME NEW p \in Prices
      PROVE  SumFunctionOnSet(Append(s, p), DOMAIN Append(s, p)) = SumFunctionOnSet(s, DOMAIN s) + p
  <2> DEFINE t == Append(s, p)
             e == Len(s) + 1
  <2>1. /\ DOMAIN t = DOMAIN s \cup {e} /\ e \notin DOMAIN s
        /\ t[e] = p /\ \A x \in DOMAIN s : t[x] = s[x]
    BY <1>1
  <2>2. p \in Int
    BY BookAssumption
  <2> HIDE DEF t, e
  <2>3. \A x \in DOMAIN s \cup {e} : t[x] \in Int
    BY <1>1, <2>1, <2>2
  <2>4. SumFunctionOnSet(t, DOMAIN s \cup {e}) = t[e] + SumFunctionOnSet(t, DOMAIN s)
    BY <1>1, <2>1, <2>3, SumAdd
  <2>5. SumFunctionOnSet(t, DOMAIN s) = SumFunctionOnSet(s, DOMAIN s)
    BY <1>1, <2>1, SumSame
  <2>6. SumFunctionOnSet(t, DOMAIN t) = SumFunctionOnSet(s, DOMAIN s) + p
    BY <1>2, <2>1, <2>2, <2>4, <2>5
  <2> QED
    BY <2>6 DEF t
<1> QED
  BY <1>2, <1>3, <1>4

LEMMA CashType ==
    ASSUME Inv, NEW o \in Orders
    PROVE  /\ CashFilled[o] \in Int
           /\ fills[o] = <<>> => CashFilled[o] = 0
<1> DEFINE paid == SumFunctionOnSet(fills[o], DOMAIN fills[o])
<1>1. fills[o] \in Seq(Prices) /\ orders[o].size \in Int
  BY DEF Inv, TypeOK
<1>2. paid \in Int /\ (fills[o] = <<>> => paid = 0)
  BY <1>1, FillsSum
<1>3. CashFilled[o] = IF orders[o].side = "BUY" THEN orders[o].size * paid ELSE -(orders[o].size * paid)
  BY DEF CashFilled, Signed
<1> HIDE DEF paid
<1>4. orders[o].size * paid \in Int /\ orders[o].size * 0 = 0
  BY <1>1, <1>2
<1> QED
  BY <1>2, <1>3, <1>4

LEMMA CashStill ==
    ASSUME Inv, [Next]_vars, NEW o \in Orders, fills'[o] = fills[o]
    PROVE  CashFilled'[o] = CashFilled[o]
<1>1. CASE orders[o].status = "NONE"
  <2>1. fills[o] = <<>> /\ fills'[o] = <<>>
    BY <1>1 DEF Inv, FilledWasApproved
  <2>2. fills'[o] \in Seq(Prices) /\ orders'[o].size \in Int
    BY StepInv DEF Inv, TypeOK
  <2>3. SumFunctionOnSet(fills'[o], DOMAIN fills'[o]) = 0
    BY <2>1, <2>2, FillsSum
  <2>4. CashFilled'[o] = 0
    BY <2>2, <2>3 DEF CashFilled, Signed
  <2> QED
    BY <2>1, <2>4, CashType
<1>2. CASE orders[o].status # "NONE"
  BY <1>2, TermsFinal DEF CashFilled, Signed
<1> QED
  BY <1>1, <1>2

(* Only ExecuteBook writes the cash, and a request comes to it only by     *)
(* reading the cash.                                                       *)
CashHeld ==
    \A w \in Workers : pc[w] = "book" => job[w].new_cash = CashAfter(job[w], current_cash)

LEMMA CashWriters ==
    ASSUME Inv, [Next]_vars
    PROVE  \/ UNCHANGED <<current_cash, fills>>
           \/ \E w \in Workers : ExecuteBook(w)
BY DEF Next, Work, Die, ProposeReview, ProposeInsert, ApproveLoad, ExecuteLoad, ApprovePasses,
   ApproveBlocked, Promote, Demote, ExecuteReview, ExecuteBlocked, ExecuteFund, ExecuteClose,
   tables, vars

LEMMA HeldStep == OneRequestAtATime /\ Inv /\ CashHeld /\ [Next]_vars => CashHeld'
<1> SUFFICES ASSUME OneRequestAtATime, Inv, CashHeld, [Next]_vars, NEW w \in Workers, pc'[w] = "book"
    PROVE  job'[w].new_cash = CashAfter(job'[w], current_cash')
  BY DEF CashHeld, CashAfter
<1> USE DEF Goto, Return, Inv, TypeOK
<1>1. CASE ExecuteFund(w)
  <2>1. /\ job'[w] = [job[w] EXCEPT !.new_cash = CashAfter(job[w], current_cash)]
        /\ current_cash' = current_cash
    BY <1>1 DEF ExecuteFund, tables
  <2> QED
    BY <2>1 DEF CashAfter
<1>2. CASE UNCHANGED vars
  BY <1>2 DEF vars, tables, CashHeld
<1>3. CASE (Work(w) \/ Die(w)) /\ ~ExecuteFund(w)
  BY <1>3 DEF Work, Die, ProposeReview, ProposeInsert, ApproveLoad, ExecuteLoad, ApprovePasses,
     ApproveBlocked, Promote, Demote, ExecuteReview, ExecuteBlocked, ExecuteBook, ExecuteClose
<1> QED
  BY <1>1, <1>2, <1>3 DEF Next, OneRequestAtATime

LEMMA CashStep ==
    Inv /\ JobsSized /\ CashHeld /\ CashMatchesFills /\ [Next]_vars => CashMatchesFills'
<1> SUFFICES ASSUME Inv, JobsSized, CashHeld, CashMatchesFills, [Next]_vars PROVE CashMatchesFills'
  OBVIOUS
<1> USE BookAssumption
<1>1. CASE UNCHANGED <<current_cash, fills>>
  <2>1. ASSUME NEW f, NEW g, f = CashFilled, g = CashFilled'
        PROVE  SumFunctionOnSet(g, Orders) = SumFunctionOnSet(f, Orders)
    <3>1. \A o \in Orders : g[o] = f[o]
      BY <1>1, <2>1, CashStill
    <3> QED
      BY <3>1, SumSame
  <2> QED
    BY <1>1, <2>1 DEF CashMatchesFills
<1>2. ASSUME NEW w \in Workers, ExecuteBook(w), ~ UNCHANGED <<current_cash, fills>>
      PROVE  CashMatchesFills'
  <2> DEFINE o == job[w].order
             n == job[w].size
             p == job[w].price
             spent == IF job[w].side = "BUY" THEN n * p ELSE -(n * p)
             paid == SumFunctionOnSet(fills[o], DOMAIN fills[o])
  <2>1. /\ pc[w] = "book" /\ orders' = orders
        /\ fills' = [fills EXCEPT ![o] = Append(@, p)]
        /\ current_cash' = job[w].new_cash
    BY <1>2 DEF ExecuteBook, tables
  <2>2. /\ o \in Orders /\ n \in Nat /\ p \in Prices /\ p \in Int
        /\ job[w].side = orders[o].side /\ n = orders[o].size
        /\ fills[o] \in Seq(Prices) /\ current_cash \in Int
    <3>1. o \in Orders /\ p \in Prices
      BY <2>1 DEF Inv, JobsOK
    <3>2. job[w].side = orders[o].side /\ n = orders[o].size
      BY <2>1 DEF JobsSized
    <3>3. n \in Nat /\ fills[o] \in Seq(Prices) /\ current_cash \in Int
      BY <3>1 DEF Inv, TypeOK
    <3>4. p \in Int
      <4> HIDE DEF p
      <4> QED
        BY <3>1
    <3> QED
      BY <3>1, <3>2, <3>3, <3>4
  <2>3. /\ fills'[o] = Append(fills[o], p)
        /\ \A q \in Orders : q # o => fills'[q] = fills[q]
    BY <2>1, <2>2 DEF Inv, TypeOK
  <2>4. paid \in Int /\ SumFunctionOnSet(fills'[o], DOMAIN fills'[o]) = paid + p
    BY <2>2, <2>3, FillsSum
  <2>5. /\ n * paid \in Int /\ n * p \in Int
        /\ n * (paid + p) = n * paid + n * p
    <3> HIDE DEF n, p, paid
    <3> QED
      BY <2>2, <2>4, Distribute
  <2>6. CashFilled'[o] = CashFilled[o] + spent
    <3>1. /\ CashFilled[o] = IF orders[o].side = "BUY" THEN n * paid ELSE -(n * paid)
          /\ CashFilled'[o] = IF orders[o].side = "BUY" THEN n * (paid + p) ELSE -(n * (paid + p))
      BY <2>1, <2>2, <2>4 DEF CashFilled, Signed
    <3> DEFINE k == n * paid
               m == n * p
    <3>2. k \in Int /\ m \in Int /\ n * (paid + p) = k + m
      BY <2>5
    <3>3. spent = IF orders[o].side = "BUY" THEN m ELSE -m
      BY <2>2
    <3> HIDE DEF k, m, n, p, paid, o, spent
    <3> QED
      BY <3>1, <3>2, <3>3 DEF k
  <2>7. \A q \in Orders \ {o} : CashFilled'[q] = CashFilled[q]
    BY <2>3, CashStill
  <2>8. spent \in Int /\ current_cash' = current_cash - spent
    <3>1. current_cash' = CashAfter(job[w], current_cash)
      BY <2>1 DEF CashHeld
    <3> DEFINE m == n * p
    <3>2. /\ current_cash' = IF job[w].side = "BUY" THEN current_cash - m ELSE current_cash + m
          /\ spent = IF job[w].side = "BUY" THEN m ELSE -m
          /\ m \in Int
      BY <2>5, <3>1 DEF CashAfter
    <3> HIDE DEF m, spent
    <3> QED
      BY <2>2, <3>2
  <2>9. ASSUME NEW f, NEW g, f = CashFilled, g = CashFilled'
        PROVE  /\ SumFunctionOnSet(g, Orders) = SumFunctionOnSet(f, Orders) + spent
               /\ SumFunctionOnSet(f, Orders) \in Int
    <3> HIDE DEF spent, o
    <3>1. \A q \in Orders : f[q] \in Int
      BY <2>9, CashType
    <3>2. o \in Orders /\ f[o] \in Int /\ g[o] \in Int /\ g[o] = f[o] + spent
      BY <2>2, <2>6, <2>8, <2>9, <3>1
    <3>3. \A q \in Orders \ {o} : g[q] = f[q]
      BY <2>7, <2>9
    <3>4. SumFunctionOnSet(g, Orders) = SumFunctionOnSet(f, Orders) - f[o] + g[o]
      BY <3>1, <3>2, <3>3, SumChange
    <3>5. SumFunctionOnSet(f, Orders) \in Int
      BY <3>1, SumType
    <3> QED
      BY <2>8, <3>2, <3>4, <3>5
  <2> HIDE DEF spent
  <2> QED
    BY <2>2, <2>8, <2>9 DEF CashMatchesFills
<1> QED
  BY <1>1, <1>2, CashWriters

(* Requests that do not overlap keep the cash exactly what the fills leave *)
(* of it, even when they die between the two commits: the promise that     *)
(* requests which overlap break at once with the other one.                *)
THEOREM CashAlone == OneRequestAtATime => (Spec => [](CashMatchesFills /\ AtomicInPart))
<1> SUFFICES ASSUME OneRequestAtATime PROVE Spec => [](CashMatchesFills /\ AtomicInPart)
  OBVIOUS
<1>1. Init => JobsSized /\ CashHeld
  BY DEF Init, JobsSized, CashHeld
<1>2. Init => CashMatchesFills
  <2> SUFFICES ASSUME Init PROVE CashMatchesFills
    OBVIOUS
  <2>1. \A o \in Orders : CashFilled[o] = 0
    BY InitInv, CashType DEF Init
  <2>2. SumFunctionOnSet(CashFilled, Orders) = 0
    BY <2>1, SumZero, BookAssumption
  <2> QED
    BY <2>2, BookAssumption DEF Init, CashMatchesFills
<1>3. Inv /\ CashHeld /\ [Next]_vars => CashHeld'
  BY HeldStep
<1>4. CashMatchesFills => CashMatchesFills /\ AtomicInPart
  BY DEF AtomicInPart
<1> QED
  BY InitInv, StepInv, SizedStep, CashStep, <1>1, <1>2, <1>3, <1>4, PTL DEF Spec

(* An execution under way: an approved order is filled exactly between the *)
(* two commits of the request that executes it.                            *)
Executing(w, o) == pc[w] = "close" /\ job[w].order = o

MidExecution ==
    /\ OneFillPerOrder
    /\ \A o \in Orders :
         orders[o].status = "APPROVED" /\ fills[o] # <<>> => \E w \in Workers : Executing(w, o)
    /\ \A w \in Workers :
         pc[w] \in {"appraise", "fund", "book"} => orders[job[w].order].status = "APPROVED"

(* A step short of the two commits, by the one request there is. *)
LEMMA QuietStep ==
    ASSUME OneRequestAtATime, Inv, MidExecution, NEW w \in Workers, pc[w] # "close",
           fills' = fills, NEW s \in Steps, NEW j, Goto(w, s, j),
           \A o \in Orders : orders'[o].status = "APPROVED" =>
               orders[o].status \in {"PROPOSED", "APPROVED"},
           s \in {"appraise", "fund", "book"} => orders'[j.order].status = "APPROVED"
    PROVE  MidExecution'
<1>1. \A o \in Orders : orders[o].status = "APPROVED" => fills[o] = <<>>
  BY DEF MidExecution, Executing, OneRequestAtATime
<1>2. \A o \in Orders : orders'[o].status = "APPROVED" => fills'[o] = <<>>
  BY <1>1 DEF Inv, FilledWasApproved
<1>3. \A v \in Workers : pc'[v] = s /\ job'[v] = j
  BY DEF Goto, OneRequestAtATime, Inv, TypeOK
<1>4. OneFillPerOrder'
  BY DEF MidExecution, OneFillPerOrder
<1> QED
  BY <1>2, <1>3, <1>4 DEF MidExecution

LEMMA MidStep ==
    ASSUME OneRequestAtATime, FaultBudget = 0, Inv, MidExecution, [Next]_vars
    PROVE  MidExecution'
<1>1. CASE UNCHANGED vars
  BY <1>1 DEF vars, tables, MidExecution, OneFillPerOrder, Executing
<1>2. ASSUME NEW w \in Workers, Die(w) PROVE MidExecution'
  BY <1>2 DEF Die, Inv, TypeOK
<1>3. ASSUME NEW w \in Workers, Work(w) PROVE MidExecution'
  <2> DEFINE o == job[w].order
  <2>0. /\ Steps = {"idle", "insert", "review", "promote", "demote", "appraise", "fund", "book", "close"}
        /\ orders \in [Orders -> [status : Statuses, side : Sides, size : Nat]]
    BY DEF Steps, Inv, TypeOK
  <2>1. ASSUME NEW s \in Steps \ {"appraise", "fund", "book"}, NEW j, Goto(w, s, j),
               UNCHANGED tables, pc[w] # "close"
        PROVE  MidExecution'
    BY <2>1, QuietStep DEF tables
  <2>2. CASE \/ \E side \in Sides : ProposeReview(w, side)
             \/ \E p \in Orders : ApproveLoad(w, p)
             \/ ApprovePasses(w) \/ ApproveBlocked(w)
    BY <2>0, <2>1, <2>2 DEF ProposeReview, ApproveLoad, ApprovePasses, ApproveBlocked
  <2>3. CASE ExecuteBlocked(w)
    BY <2>0, <2>1, <2>3 DEF ExecuteBlocked, Return
  <2>4. ASSUME NEW p \in Orders, ProposeInsert(w, p) PROVE MidExecution'
    <3>1. /\ Goto(w, "idle", NoJob) /\ fills' = fills /\ pc[w] # "close"
          /\ orders' = [orders EXCEPT ![p] =
                 [status |-> "PROPOSED", side |-> job[w].side, size |-> job[w].size]]
      BY <2>4 DEF ProposeInsert, Return
    <3>2. \A q \in Orders : orders'[q].status = "APPROVED" => orders[q].status = "APPROVED"
      BY <2>0, <3>1
    <3> QED
      BY <2>0, <3>1, <3>2, QuietStep
  <2>5. CASE Promote(w) \/ Demote(w)
    <3>1. /\ Goto(w, "idle", NoJob) /\ fills' = fills /\ pc[w] # "close"
          /\ \E to : Move(o, "PROPOSED", to)
      BY <2>5 DEF Promote, Demote, Return
    <3>2. \A q \in Orders : orders'[q].status = "APPROVED" =>
                                orders[q].status \in {"PROPOSED", "APPROVED"}
      BY <2>0, <3>1 DEF Move
    <3> QED
      BY <2>0, <3>1, <3>2, QuietStep
  <2>6. ASSUME NEW p \in Orders, ExecuteLoad(w, p) PROVE MidExecution'
    <3> DEFINE j == [NoJob EXCEPT !.order = p]
    <3>1. /\ Goto(w, "appraise", j) /\ UNCHANGED tables /\ pc[w] # "close"
          /\ orders[p].status = "APPROVED" /\ j.order = p
      BY <2>6 DEF ExecuteLoad, NoJob
    <3> HIDE DEF j
    <3> QED
      BY <2>0, <3>1, QuietStep DEF tables
  <2>7. CASE ExecuteReview(w) \/ ExecuteFund(w)
    <3>0. PICK s \in {"idle", "fund", "book"} : \E j :
              /\ Goto(w, s, j) /\ UNCHANGED tables /\ pc[w] \in {"appraise", "fund"}
              /\ s # "idle" => j.order = o
      <4>1. CASE ExecuteReview(w)
        <5>1. PICK p \in Prices : Goto(w, "fund", [job[w] EXCEPT
                 !.side = orders[o].side, !.size = orders[o].size, !.price = p])
          BY <4>1 DEF ExecuteReview
        <5>2. [job[w] EXCEPT !.side = orders[o].side, !.size = orders[o].size,
                             !.price = p].order = o
          BY DEF Inv, TypeOK
        <5> QED
          BY <4>1, <5>1, <5>2 DEF ExecuteReview
      <4>2. CASE ExecuteFund(w)
        <5> DEFINE cash == CashAfter(job[w], current_cash)
        <5>1. [job[w] EXCEPT !.new_cash = cash].order = o
          BY DEF Inv, TypeOK
        <5> QED
          BY <4>2, <5>1 DEF ExecuteFund, Return
      <4> QED
        BY <2>7, <4>1, <4>2
    <3>1. PICK j :
            /\ Goto(w, s, j) /\ UNCHANGED tables /\ pc[w] \in {"appraise", "fund"}
            /\ s # "idle" => j.order = o
      BY <3>0
    <3>2. orders[o].status = "APPROVED"
      BY <3>1 DEF MidExecution
    <3> QED
      BY <2>0, <3>1, <3>2, QuietStep DEF tables
  <2>8. CASE ExecuteBook(w)
    <3>1. /\ pc[w] = "book" /\ orders[o].status = "APPROVED" /\ o \in Orders
          /\ job[w].price \in Prices
      BY <2>8 DEF ExecuteBook, MidExecution, Inv, JobsOK
    <3>2. \A q \in Orders : orders[q].status = "APPROVED" => fills[q] = <<>>
      BY <3>1 DEF MidExecution, Executing, OneRequestAtATime
    <3>3. CASE UNCHANGED tables
      <4>1. fills' = fills /\ orders' = orders /\ pc[w] # "close"
        BY <3>1, <3>3 DEF tables
      <4>2. Goto(w, "idle", NoJob) \/ fills' # fills
        <5>1. fills[o] \in Seq(Prices) /\ fills \in [Orders -> Seq(Prices)]
          BY <3>1 DEF Inv, TypeOK
        <5>2. Append(fills[o], job[w].price) # fills[o]
          BY <3>1, <5>1
        <5>3. fills' = [fills EXCEPT ![o] = Append(@, job[w].price)] => fills' # fills
          BY <3>1, <5>1, <5>2
        <5> QED
          BY <2>8, <5>3 DEF ExecuteBook, Return
      <4> QED
        BY <2>0, <4>1, <4>2, QuietStep
    <3>4. CASE ~UNCHANGED tables
      <4>1. /\ fills' = [fills EXCEPT ![o] = Append(@, job[w].price)]
            /\ orders' = orders /\ Goto(w, "close", job[w])
        BY <2>8, <3>4 DEF ExecuteBook
      <4>2. fills \in [Orders -> Seq(Prices)] /\ fills[o] = <<>>
        BY <3>1, <3>2 DEF Inv, TypeOK
      <4>3. Len(fills'[o]) = 1 /\ \A q \in Orders : q # o => fills'[q] = fills[q]
        BY <3>1, <4>1, <4>2
      <4>4. OneFillPerOrder'
        <5>1. ASSUME NEW q \in Orders PROVE Len(fills'[q]) <= 1
          <6>1. CASE q = o
            <7>1. Len(fills'[q]) = 1
              BY <4>3, <6>1, Zenon
            <7> QED
              BY <7>1
          <6>2. CASE q # o
            BY <4>3, <6>2 DEF MidExecution, OneFillPerOrder
          <6> QED
            BY <6>1, <6>2
        <5> QED
          BY <5>1 DEF OneFillPerOrder
      <4>5. \A v \in Workers : pc'[v] = "close" /\ job'[v] = job[w]
        BY <4>1 DEF Goto, OneRequestAtATime, Inv, TypeOK
      <4>6. \A q \in Orders : orders'[q].status = "APPROVED" /\ fills'[q] # <<>> => q = o
        BY <3>2, <4>1, <4>3
      <4> QED
        BY <4>4, <4>5, <4>6 DEF MidExecution, Executing
    <3> QED
      BY <3>3, <3>4
  <2>9. CASE ExecuteClose(w)
    <3>1. /\ Move(o, "APPROVED", "EXECUTED") /\ fills' = fills /\ pc[w] = "close"
          /\ o \in Orders /\ Goto(w, "idle", NoJob)
      BY <2>9 DEF ExecuteClose, Return, Inv, JobsOK
    <3>2. \A v \in Workers : pc'[v] = "idle"
      BY <3>1 DEF Goto, OneRequestAtATime, Inv, TypeOK
    <3>3. /\ orders'[o].status # "APPROVED"
          /\ \A q \in Orders : q # o => orders'[q] = orders[q]
      BY <2>0, <3>1 DEF Move
    <3>4. \A q \in Orders : orders'[q].status = "APPROVED" => fills'[q] = <<>>
      BY <3>1, <3>3 DEF MidExecution, Executing, OneRequestAtATime
    <3> QED
      BY <3>1, <3>2, <3>4 DEF MidExecution, OneFillPerOrder
  <2> QED
    BY <1>3, <2>2, <2>3, <2>4, <2>5, <2>6, <2>7, <2>8, <2>9 DEF Work
<1> QED
  BY <1>1, <1>2, <1>3 DEF Next

(* Requests that neither overlap nor die fill no order twice, so the two   *)
(* together are all that "Double execution (DB transactions prevent it)"   *)
(* overlooks.                                                              *)
THEOREM OneFillAlone ==
    OneRequestAtATime /\ FaultBudget = 0 => (Spec => []OneFillPerOrder)
<1> SUFFICES ASSUME OneRequestAtATime, FaultBudget = 0 PROVE Spec => []OneFillPerOrder
  OBVIOUS
<1>1. Init => MidExecution
  BY DEF Init, MidExecution, OneFillPerOrder
<1>2. Inv /\ MidExecution /\ [Next]_vars => MidExecution'
  BY MidStep
<1>3. MidExecution => OneFillPerOrder
  BY DEF MidExecution
<1> QED
  BY InitInv, StepInv, <1>1, <1>2, <1>3, PTL DEF Spec

=============================================================================
