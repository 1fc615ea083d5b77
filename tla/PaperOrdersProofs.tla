-------------------------- MODULE PaperOrdersProofs --------------------------
(***************************************************************************)
(* Proofs about PaperOrders for every set of rows, handlers and orders.    *)
(***************************************************************************)
EXTENDS PaperOrders, FiniteSums

(* The domain of lifecycle_status is the set of broker statuses. *)
LEMMA LifecycleType == lifecycle_status \in [OrderStates -> Lifecycles]
BY DEF lifecycle_status, Lifecycles, OrderStates, WorkingStates, ClosedStates

LEMMA PayloadType == NoPayload \in Payload /\ NoReconciliation \in Reconciliation
BY DEF NoPayload, Payload, NoReconciliation, Reconciliation

LEMMA JobType == NoJob \in Job
BY PayloadType DEF NoJob, Job

-----------------------------------------------------------------------------
(* What an active handler holds: a row of the queue, a refusal once one is *)
(* due, and a reconciliation once the broker has been asked.               *)
HandlersOK ==
    \A h \in Handlers :
        /\ pc[h] # "idle" => job[h].row \in Rows
        /\ pc[h] = "refuse" => job[h].status \in Refusals
        /\ pc[h] \in {"note", "noted"} => job[h].recon.status \in Lifecycles \cup ReconcileErrors

Typed == TypeOK /\ HandlersOK

THEOREM InitTyped == Init => Typed
<1> SUFFICES ASSUME Init PROVE Typed
  OBVIOUS
<1> USE ConstantsAssumption DEF Init
<1>1. verdict \in [Rows -> Verdict]
  BY DEF Verdict
<1>2. payload \in [Rows -> Payload] /\ job \in [Handlers -> Job]
  BY PayloadType, JobType
<1>3. execution_status \in
        [Rows -> Refusals \cup Lifecycles \cup ReconcileErrors \cup {"NOT_EXECUTED"}]
  OBVIOUS
<1>4. /\ broker_submission \in [Rows -> BOOLEAN] /\ order_row \in [Orders -> Rows \cup {None}]
      /\ order_state \in [Orders -> OrderStates] /\ order_filled \in [Orders -> Nat]
      /\ fills \in [Rows -> Nat] /\ position \in Nat /\ pc \in [Handlers -> Steps]
      /\ faults \in 0..FaultBudget
  BY DEF OrderStates, WorkingStates, Steps
<1>5. HandlersOK
  BY DEF HandlersOK
<1> QED
  BY <1>1, <1>2, <1>3, <1>4, <1>5 DEF Typed, TypeOK

(* A handler that moves to step s with a job that suits s stays typed. *)
LEMMA GotoTyped ==
    ASSUME Typed, NEW h \in Handlers, NEW s \in Steps, NEW j \in Job, Goto(h, s, j),
           s # "idle" => j.row \in Rows,
           s = "refuse" => j.status \in Refusals,
           s \in {"note", "noted"} => j.recon.status \in Lifecycles \cup ReconcileErrors
    PROVE  HandlersOK' /\ pc' \in [Handlers -> Steps] /\ job' \in [Handlers -> Job]
BY DEF Typed, TypeOK, HandlersOK, Goto

LEMMA ReturnTyped ==
    ASSUME Typed, NEW h \in Handlers, Return(h)
    PROVE  HandlersOK' /\ pc' \in [Handlers -> Steps] /\ job' \in [Handlers -> Job]
BY GotoTyped, JobType DEF Return, Steps

LEMMA FaultTyped ==
    ASSUME Typed, Fault \/ NoFault
    PROVE  faults' \in 0..FaultBudget
BY ConstantsAssumption DEF Typed, TypeOK, Fault, NoFault

(* Every step of the specification keeps the types. *)
LEMMA ExecuteTyped ==
    ASSUME Typed, NEW h \in Handlers, Execute(h)
    PROVE  Typed'
<1> USE ConstantsAssumption DEF queueVars, brokerVars, ledgerVars
<1>1. ASSUME NEW r \in Rows, ExecutePasses(h, r) PROVE Typed'
  <2>1. [NoJob EXCEPT !.row = r] \in Job /\ "probe" \in Steps
    BY JobType DEF Job, Steps, NoJob
  <2> QED
    BY <1>1, <2>1, GotoTyped, FaultTyped DEF ExecutePasses, Typed, TypeOK, Job, NoJob
<1>2. ASSUME NEW r \in Rows, ExecuteFails(h, r) PROVE Typed'
  <2>s. PICK s \in SettingsSeen : \E i \in FailedGates(r, s) :
          Goto(h, "refuse", [NoJob EXCEPT !.row = r, !.status = Gates(r, s)[i].refusal])
    BY <1>2 DEF ExecuteFails
  <2>1. PICK i \in FailedGates(r, s) :
          Goto(h, "refuse", [NoJob EXCEPT !.row = r, !.status = Gates(r, s)[i].refusal])
    BY <2>s
  <2>2. Gates(r, s)[i].refusal \in Refusals
    BY DEF FailedGates, Gates, Refusals
  <2>3. [NoJob EXCEPT !.row = r, !.status = Gates(r, s)[i].refusal] \in Job /\ "refuse" \in Steps
    BY <2>2, JobType DEF Job, Steps, NoJob
  <2> QED
    BY <1>2, <2>1, <2>2, <2>3, GotoTyped, FaultTyped
    DEF ExecuteFails, Typed, TypeOK, Job, NoJob
<1>3. ASSUME BrokerNotReady(h) PROVE Typed'
  BY <1>3, GotoTyped, FaultTyped
  DEF BrokerNotReady, Typed, TypeOK, HandlersOK, Job, Steps, Refusals
<1>4. ASSUME Probe(h) PROVE Typed'
  BY <1>4, GotoTyped, FaultTyped
  DEF Probe, Typed, TypeOK, HandlersOK, Job, Steps, Refusals
<1>5. ASSUME NEW o \in Orders, SendAccepted(h, o) PROVE Typed'
  BY <1>5, GotoTyped, FaultTyped
  DEF SendAccepted, Accept, Typed, TypeOK, HandlersOK, Job, Steps
<1>6. ASSUME NEW o \in Orders, SendUnparsed(h, o) PROVE Typed'
  BY <1>6, GotoTyped, FaultTyped
  DEF SendUnparsed, Accept, Typed, TypeOK, HandlersOK, Job, Steps
<1>7. ASSUME NEW o \in Orders, SendLost(h, o) PROVE Typed'
  BY <1>7, GotoTyped, FaultTyped
  DEF SendLost, Accept, Typed, TypeOK, HandlersOK, Job, Steps, Refusals
<1>8. ASSUME SendRefused(h) PROVE Typed'
  BY <1>8, GotoTyped, FaultTyped
  DEF SendRefused, Typed, TypeOK, HandlersOK, Job, Steps, Refusals
<1>9. ASSUME Refuse(h) PROVE Typed'
  BY <1>9, ReturnTyped, FaultTyped DEF Refuse, Typed, TypeOK, HandlersOK
<1>10. ASSUME KeepRead(h) PROVE Typed'
  BY <1>10, GotoTyped, FaultTyped
  DEF KeepRead, Typed, TypeOK, HandlersOK, Job, Steps
<1>11. ASSUME KeepWrite(h) PROVE Typed'
  <2>1. "BROKER_SUBMITTED" \in Lifecycles
    BY DEF Lifecycles, lifecycle_status, OrderStates, WorkingStates
  <2> QED
    BY <1>11, <2>1, ReturnTyped, FaultTyped DEF KeepWrite, Typed, TypeOK, HandlersOK, Job, Payload
<1> QED
  BY <1>1, <1>2, <1>3, <1>4, <1>5, <1>6, <1>7, <1>8, <1>9, <1>10, <1>11 DEF Execute

LEMMA ReconcileTyped ==
    ASSUME Typed, NEW h \in Handlers, Reconcile(h)
    PROVE  Typed'
<1> USE ConstantsAssumption DEF queueVars, brokerVars, ledgerVars
<1>1. ASSUME NEW r \in Rows, ReconcileLoad(h, r) PROVE Typed'
  <2>1. [NoJob EXCEPT !.row = r, !.order = payload[r].order] \in Job /\ "ask" \in Steps
    BY JobType DEF Typed, TypeOK, Job, Payload, Steps, NoJob
  <2>2. [NoJob EXCEPT !.row = r, !.order = payload[r].order].row = r
    BY DEF NoJob
  <2> QED
    BY <1>1, <2>1, <2>2, GotoTyped, FaultTyped DEF ReconcileLoad, Typed, TypeOK
<1>2. ASSUME ReconcileAnswer(h) PROVE Typed'
  <2>1. job[h].order \in Orders
    BY <1>2 DEF ReconcileAnswer, Typed, TypeOK, Job
  <2>2. [status |-> lifecycle_status[order_state[job[h].order]],
         dealt |-> order_filled[job[h].order]] \in Reconciliation
    BY <2>1, LifecycleType DEF Typed, TypeOK, Reconciliation
  <2> QED
    BY <1>2, <2>1, <2>2, LifecycleType, GotoTyped, FaultTyped
    DEF ReconcileAnswer, Typed, TypeOK, HandlersOK, Job, Steps
<1>3. ASSUME ReconcileNoId(h) PROVE Typed'
  BY <1>3, GotoTyped, FaultTyped
  DEF ReconcileNoId, Typed, TypeOK, HandlersOK, Job, Steps, Reconciliation, ReconcileErrors
<1>4. ASSUME ReconcileError(h) PROVE Typed'
  BY <1>4, GotoTyped, FaultTyped
  DEF ReconcileError, Typed, TypeOK, HandlersOK, Job, Steps, Reconciliation, ReconcileErrors
<1>5. ASSUME NoteRead(h) PROVE Typed'
  BY <1>5, GotoTyped, FaultTyped
  DEF NoteRead, Typed, TypeOK, HandlersOK, Job, Steps
<1>6. ASSUME NoteWrite(h) PROVE Typed'
  <2>1. NotedPayload(job[h]) \in Payload
    BY DEF NotedPayload, Typed, TypeOK, Job, Payload
  <2>2. HandlersOK' /\ pc' \in [Handlers -> Steps] /\ job' \in [Handlers -> Job]
    <3>1. CASE job[h].recon.status = "BROKER_FILLED"
      BY <1>6, <3>1, GotoTyped, JobType
      DEF NoteWrite, Typed, TypeOK, HandlersOK, Job, Steps, NoJob
    <3>2. CASE job[h].recon.status # "BROKER_FILLED"
      BY <1>6, <3>2, ReturnTyped DEF NoteWrite
    <3> QED
      BY <3>1, <3>2
  <2> QED
    BY <1>6, <2>1, <2>2, FaultTyped DEF NoteWrite, Typed, TypeOK, HandlersOK
<1>7. ASSUME SyncLoad(h) PROVE Typed'
  <2>1. HandlersOK' /\ pc' \in [Handlers -> Steps] /\ job' \in [Handlers -> Job]
    <3>1. CASE payload[job[h].row].recon.status = "BROKER_FILLED"
      <4> DEFINE j == [job[h] EXCEPT !.recon = payload[job[h].row].recon]
      <4>1. job[h] \in Job /\ job[h].row \in Rows
        BY <1>7 DEF SyncLoad, Typed, TypeOK, HandlersOK
      <4>2. payload[job[h].row].recon \in Reconciliation
        BY <4>1 DEF Typed, TypeOK, Payload
      <4>3. j \in Job /\ j.row \in Rows
        BY <4>1, <4>2 DEF Job
      <4>4. Goto(h, "check", j)
        BY <1>7, <3>1 DEF SyncLoad
      <4>5. "check" \in Steps /\ "check" \notin {"idle", "refuse", "note", "noted"}
        BY DEF Steps
      <4> HIDE DEF j
      <4> QED
        BY <4>3, <4>4, <4>5, GotoTyped
    <3>2. CASE payload[job[h].row].recon.status # "BROKER_FILLED"
      BY <1>7, <3>2, ReturnTyped DEF SyncLoad
    <3> QED
      BY <3>1, <3>2
  <2> QED
    BY <1>7, <2>1, FaultTyped DEF SyncLoad, Typed, TypeOK
<1>8. ASSUME SyncCheck(h) PROVE Typed'
  BY <1>8, GotoTyped, ReturnTyped, FaultTyped
  DEF SyncCheck, Typed, TypeOK, HandlersOK, Job, Steps
<1>9. ASSUME SyncBook(h) PROVE Typed'
  <2>1. job[h].row \in Rows /\ job[h].recon.dealt \in Nat
    BY <1>9 DEF SyncBook, Typed, TypeOK, HandlersOK, Job, Reconciliation
  <2>2. PositionAfter(job[h].row, position, job[h].recon.dealt) \in Nat
    BY <2>1 DEF PositionAfter, Typed, TypeOK
  <2>3. fills' \in [Rows -> Nat] /\ position' \in Nat
    BY <1>9, <2>1, <2>2 DEF SyncBook, Typed, TypeOK
  <2> QED
    BY <1>9, <2>3, ReturnTyped, FaultTyped DEF SyncBook, Typed, TypeOK
<1> QED
  BY <1>1, <1>2, <1>3, <1>4, <1>5, <1>6, <1>7, <1>8, <1>9 DEF Reconcile

LEMMA OtherTyped ==
    ASSUME Typed,
           \/ \E r \in Rows : RecordApproval(r)
           \/ \E h \in Handlers : Crash(h)
           \/ \E o \in Orders : Broker(o)
    PROVE  Typed'
<1> USE ConstantsAssumption DEF queueVars, brokerVars, ledgerVars
<1>1. ASSUME NEW r \in Rows, RecordApproval(r) PROVE Typed'
  <2>1. \A v \in Reviews :
          [approval_status |-> ReviewStatus(v), owner |-> v.owner, shariah |-> v.shariah,
           risk |-> v.risk, audit |-> v.audit] \in Verdict
    BY DEF Review, Verdict, ReviewStatus
  <2> QED
    BY <1>1, <2>1 DEF RecordApproval, Typed, TypeOK, HandlersOK
<1>2. ASSUME NEW h \in Handlers, Crash(h) PROVE Typed'
  BY <1>2, ReturnTyped, FaultTyped DEF Crash, Typed, TypeOK
<1>3. ASSUME NEW o \in Orders, Broker(o) PROVE Typed'
  <2>1. CASE BrokerFill(o)
    BY <2>1 DEF BrokerFill, Working, OrderStates, WorkingStates, Typed, TypeOK, HandlersOK
  <2>2. CASE BrokerPendCancel(o)
    BY <2>2 DEF BrokerPendCancel, OrderStates, WorkingStates, Typed, TypeOK, HandlersOK
  <2>3. CASE BrokerClose(o)
    BY <2>3 DEF BrokerClose, OrderStates, Typed, TypeOK, HandlersOK
  <2> QED
    BY <1>3, <2>1, <2>2, <2>3 DEF Broker
<1> QED
  BY <1>1, <1>2, <1>3

LEMMA StepTyped == Typed /\ [Next]_vars => Typed'
<1> SUFFICES ASSUME Typed, [Next]_vars PROVE Typed'
  OBVIOUS
<1>1. CASE Next
  BY <1>1, ExecuteTyped, ReconcileTyped, OtherTyped DEF Next
<1>2. CASE UNCHANGED vars
  BY <1>2 DEF vars, queueVars, brokerVars, ledgerVars, Typed, TypeOK, HandlersOK
<1> QED
  BY <1>1, <1>2

(* Every reachable state is well typed. *)
THEOREM TypeCorrect == Spec => []TypeOK
<1>1. Typed => TypeOK
  BY DEF Typed
<1> QED
  BY InitTyped, StepTyped, <1>1, PTL DEF Spec

-----------------------------------------------------------------------------
(* What a step can do to the broker's orders: one handler has an order     *)
(* accepted, or one order of the broker moves, or neither.                 *)
LEMMA BrokerStep ==
    ASSUME [Next]_vars
    PROVE  \/ UNCHANGED brokerVars
           \/ \E h \in Handlers : \E o \in Orders : pc[h] = "send" /\ Accept(job[h].row, o)
           \/ \E o \in Orders : Broker(o)
<1>1. ASSUME NEW h \in Handlers, Execute(h)
      PROVE  \/ UNCHANGED brokerVars
             \/ \E o \in Orders : pc[h] = "send" /\ Accept(job[h].row, o)
  BY <1>1 DEF Execute, ExecutePasses, ExecuteFails, BrokerNotReady, Probe, SendAccepted,
              SendUnparsed, SendLost, SendRefused, Refuse, KeepRead, KeepWrite, brokerVars
<1>2. ASSUME NEW h \in Handlers, Reconcile(h) PROVE UNCHANGED brokerVars
  BY <1>2 DEF Reconcile, ReconcileLoad, ReconcileAnswer, ReconcileNoId, ReconcileError,
              NoteRead, NoteWrite, SyncLoad, SyncCheck, SyncBook, brokerVars
<1>3. ASSUME NEW h \in Handlers, Crash(h) PROVE UNCHANGED brokerVars
  BY <1>3 DEF Crash
<1>4. ASSUME NEW r \in Rows, RecordApproval(r) PROVE UNCHANGED brokerVars
  BY <1>4 DEF RecordApproval
<1>5. CASE UNCHANGED vars
  BY <1>5 DEF vars, brokerVars
<1> QED
  BY <1>1, <1>2, <1>3, <1>4, <1>5 DEF Next

LEMMA OneOrderStep ==
    Adapter = "alpaca" /\ Typed /\ OneOrderPerRow /\ [Next]_vars => OneOrderPerRow'
<1> SUFFICES ASSUME Adapter = "alpaca", Typed, OneOrderPerRow, [Next]_vars PROVE OneOrderPerRow'
  OBVIOUS
<1>1. CASE UNCHANGED brokerVars
  BY <1>1 DEF brokerVars, OneOrderPerRow
<1>2. ASSUME NEW h \in Handlers, NEW o \in Orders, pc[h] = "send", Accept(job[h].row, o)
      PROVE  OneOrderPerRow'
  <2>1. job[h].row \in Rows /\ job[h].row # None
    BY <1>2, ConstantsAssumption DEF Typed, HandlersOK
  <2>2. \A p \in Orders : order_row[p] # job[h].row
    BY <1>2, <2>1 DEF Accept, KeyTaken, ClientOrderId
  <2> QED
    BY <1>2, <2>1, <2>2 DEF Accept, OneOrderPerRow, Typed, TypeOK
<1>3. ASSUME NEW o \in Orders, Broker(o) PROVE OneOrderPerRow'
  BY <1>3 DEF Broker, BrokerFill, BrokerPendCancel, BrokerClose, OneOrderPerRow
<1> QED
  BY <1>1, <1>2, <1>3, BrokerStep

(* With Alpaca's client_order_id, no row ever has two orders at the broker:*)
(* execute_paper_order may overlap with itself, time out and be retried.   *)
THEOREM OneOrder == Adapter = "alpaca" => (Spec => []OneOrderPerRow)
<1> SUFFICES ASSUME Adapter = "alpaca" PROVE Spec => []OneOrderPerRow
  OBVIOUS
<1>1. Init => OneOrderPerRow
  BY DEF Init, OneOrderPerRow
<1>2. Typed /\ OneOrderPerRow /\ [Next]_vars => OneOrderPerRow'
  BY OneOrderStep
<1> QED
  BY InitTyped, StepTyped, <1>1, <1>2, PTL DEF Spec

-----------------------------------------------------------------------------
(* Clearance: what the gates have established for a row, kept up to the    *)
(* broker.  The row's verdicts are final once it is recorded, so a gate    *)
(* passed on an old reading of the row still holds when the order is sent. *)
Clear(r) ==
    /\ verdict[r].approval_status = "APPROVED_PAPER_READY"
    /\ verdict[r].owner
    /\ verdict[r].shariah = "PASS" /\ verdict[r].risk = "PASS" /\ verdict[r].audit = "PASS"

Clearance ==
    /\ \A r \in Rows : verdict[r].approval_status = "APPROVED_PAPER_READY" => verdict[r].owner
    /\ \A h \in Handlers : pc[h] \in {"probe", "send"} => Clear(job[h].row)
    /\ \A o \in Orders : order_row[o] # None => Clear(order_row[o])

(* Only RecordApproval writes a verdict, and only a row that has none. *)
LEMMA VerdictStep ==
    ASSUME [Next]_vars
    PROVE  \/ UNCHANGED verdict
           \/ \E r \in Rows : RecordApproval(r)
<1>1. ASSUME NEW h \in Handlers, Execute(h) PROVE UNCHANGED verdict
  BY <1>1 DEF Execute, ExecutePasses, ExecuteFails, BrokerNotReady, Probe, SendAccepted,
              SendUnparsed, SendLost, SendRefused, Refuse, KeepRead, KeepWrite, queueVars
<1>2. ASSUME NEW h \in Handlers, Reconcile(h) PROVE UNCHANGED verdict
  BY <1>2 DEF Reconcile, ReconcileLoad, ReconcileAnswer, ReconcileNoId, ReconcileError,
              NoteRead, NoteWrite, SyncLoad, SyncCheck, SyncBook, queueVars
<1>3. ASSUME NEW h \in Handlers, Crash(h) PROVE UNCHANGED verdict
  BY <1>3 DEF Crash, queueVars
<1>4. ASSUME NEW o \in Orders, Broker(o) PROVE UNCHANGED verdict
  BY <1>4 DEF Broker, BrokerFill, BrokerPendCancel, BrokerClose, queueVars
<1>5. CASE UNCHANGED vars
  BY <1>5 DEF vars, queueVars
<1> QED
  BY <1>1, <1>2, <1>3, <1>4, <1>5 DEF Next

LEMMA ClearStays ==
    ASSUME Typed, Clearance, [Next]_vars
    PROVE  /\ \A r \in Rows : Clear(r) => Clear(r)'
           /\ \A r \in Rows :
                verdict'[r].approval_status = "APPROVED_PAPER_READY" => verdict'[r].owner
<1>1. CASE UNCHANGED verdict
  BY <1>1 DEF Clear, Clearance
<1>2. ASSUME NEW r \in Rows, RecordApproval(r)
      PROVE  /\ \A q \in Rows : Clear(q) => Clear(q)'
             /\ \A q \in Rows :
                  verdict'[q].approval_status = "APPROVED_PAPER_READY" => verdict'[q].owner
  BY <1>2 DEF RecordApproval, ReviewStatus, Clear, Clearance, Typed, TypeOK
<1> QED
  BY <1>1, <1>2, VerdictStep

(* A handler's step leaves every other handler where it was. *)
LEMMA OthersStill ==
    ASSUME Typed, NEW g \in Handlers, NEW h \in Handlers, g # h,
           Execute(g) \/ Reconcile(g) \/ Crash(g)
    PROVE  job'[h] = job[h] /\ pc'[h] = pc[h]
<1> USE DEF Goto, Return, Typed, TypeOK
<1>1. CASE Execute(g)
  BY <1>1 DEF Execute, ExecutePasses, ExecuteFails, BrokerNotReady, Probe, SendAccepted,
              SendUnparsed, SendLost, SendRefused, Refuse, KeepRead, KeepWrite
<1>2. CASE Reconcile(g)
  BY <1>2 DEF Reconcile, ReconcileLoad, ReconcileAnswer, ReconcileNoId, ReconcileError,
              NoteRead, NoteWrite, SyncLoad, SyncCheck, SyncBook
<1>3. CASE Crash(g)
  BY <1>3 DEF Crash
<1> QED
  BY <1>1, <1>2, <1>3

LEMMA OthersWait ==
    ASSUME Typed, [Next]_vars, NEW h \in Handlers
    PROVE  Execute(h) \/ Reconcile(h) \/ Crash(h) \/ (job'[h] = job[h] /\ pc'[h] = pc[h])
<1>1. CASE (\E r \in Rows : RecordApproval(r)) \/ (\E o \in Orders : Broker(o)) \/ UNCHANGED vars
  BY <1>1 DEF RecordApproval, Broker, BrokerFill, BrokerPendCancel, BrokerClose, vars
<1> QED
  BY <1>1, OthersStill DEF Next

(* A handler comes to probe and send only through the gates. *)
LEMMA GatesPassed ==
    ASSUME Typed, Clearance, [Next]_vars, NEW h \in Handlers, pc'[h] \in {"probe", "send"}
    PROVE  job'[h].row \in Rows /\ Clear(job'[h].row)
<1> USE DEF Goto, Return, Typed, TypeOK
<1>1. CASE \E r \in Rows : ExecutePasses(h, r)
  <2>1. PICK r \in Rows : ExecutePasses(h, r)
    BY <1>1
  <2>2. PICK s \in SettingsSeen : FailedGates(r, s) = {}
    BY <2>1 DEF ExecutePasses
  <2>3. \A i \in 1..8 : Gates(r, s)[i].ok
    BY <2>2 DEF FailedGates, Gates
  <2>4. Gates(r, s)[1].ok /\ Gates(r, s)[5].ok /\ Gates(r, s)[6].ok /\ Gates(r, s)[7].ok
    BY <2>3
  <2>5. Clear(r)
    BY <2>4 DEF Gates, Clear, Clearance
  <2> QED
    BY <2>1, <2>5 DEF ExecutePasses, NoJob
<1>2. CASE Probe(h)
  BY <1>2 DEF Probe, Clearance, HandlersOK
<1>3. CASE job'[h] = job[h] /\ pc'[h] = pc[h]
  BY <1>3 DEF Clearance, HandlersOK
<1>4. CASE Execute(h)
  BY <1>4, <1>1, <1>2 DEF Execute, ExecuteFails, BrokerNotReady, SendAccepted, SendUnparsed,
              SendLost, SendRefused, Refuse, KeepRead, KeepWrite
<1>5. CASE Reconcile(h) \/ Crash(h)
  BY <1>5 DEF Reconcile, ReconcileLoad, ReconcileAnswer, ReconcileNoId, ReconcileError,
              NoteRead, NoteWrite, SyncLoad, SyncCheck, SyncBook, Crash
<1> QED
  BY <1>3, <1>4, <1>5, OthersWait

LEMMA ClearanceStep == Typed /\ Clearance /\ [Next]_vars => Clearance'
<1> SUFFICES ASSUME Typed, Clearance, [Next]_vars PROVE Clearance'
  OBVIOUS
<1>1. ASSUME NEW h \in Handlers PROVE (pc[h] \in {"probe", "send"} => Clear(job[h].row))'
  BY GatesPassed, ClearStays DEF Clear
<1>2. ASSUME NEW p \in Orders PROVE (order_row[p] # None => Clear(order_row[p]))'
  <2>1. CASE order_row'[p] = order_row[p]
    BY <2>1, ClearStays DEF Clearance, Clear, Typed, TypeOK
  <2>2. CASE order_row'[p] # order_row[p]
    <3>1. PICK h \in Handlers : pc[h] = "send" /\ order_row'[p] = job[h].row
      BY <2>2, BrokerStep DEF Accept, Typed, TypeOK, brokerVars,
                              Broker, BrokerFill, BrokerPendCancel, BrokerClose
    <3>2. job[h].row \in Rows /\ Clear(job[h].row)
      BY <3>1 DEF Clearance, Typed, HandlersOK
    <3> QED
      BY <3>1, <3>2, ClearStays DEF Clear
  <2> QED
    BY <2>1, <2>2
<1> QED
  BY <1>1, <1>2, ClearStays DEF Clearance

(* No order reaches the broker for a row without the owner's approval and  *)
(* four passing verdicts, whatever settings change while it is on its way. *)
THEOREM OnlyCleared == Spec => []OnlyClearedOrders
<1>1. Init => Clearance
  BY DEF Init, Clearance
<1>2. Typed /\ Clearance => OnlyClearedOrders
  BY DEF Clearance, Clear, OnlyClearedOrders
<1> QED
  BY InitTyped, StepTyped, ClearanceStep, <1>1, <1>2, PTL DEF Spec

-----------------------------------------------------------------------------
(* Provenance: every order id and every fill that a row or a handler holds *)
(* came from the row's own order, and a fill was complete when it was read.*)
FilledFor(r, recon) ==
    recon.status = "BROKER_FILLED" =>
        /\ recon.dealt = Qty[r]
        /\ \E o \in Orders : order_row[o] = r /\ order_state[o] = "FILLED"

Owns(r, o) == o # None => order_row[o] = r

(* What a handler holds of the order and the fill of row r. *)
Holds(r, j) ==
    /\ Owns(r, j.order) /\ FilledFor(r, j.recon)
    /\ Owns(r, j.seen.order) /\ FilledFor(r, j.seen.recon)

Provenance ==
    /\ \A o \in Orders : order_state[o] = "FILLED" =>
         order_row[o] \in Rows /\ order_filled[o] = Qty[order_row[o]]
    /\ \A r \in Rows : Owns(r, payload[r].order) /\ FilledFor(r, payload[r].recon)
    /\ \A h \in Handlers : pc[h] # "idle" => Holds(job[h].row, job[h])
    /\ \A h \in Handlers : pc[h] \in {"check", "book"} => job[h].recon.status = "BROKER_FILLED"

(* BROKER_FILLED stands for a filled order and for nothing else. *)
LEMMA FilledOnly ==
    \A s \in OrderStates : lifecycle_status[s] = "BROKER_FILLED" => s = "FILLED"
BY DEF lifecycle_status, OrderStates, WorkingStates, ClosedStates

(* An order keeps its row, and a filled one stays filled. *)
LEMMA OrdersGrow ==
    ASSUME Typed, Provenance, [Next]_vars
    PROVE  /\ \A o \in Orders : order_row[o] # None => order_row'[o] = order_row[o]
           /\ \A o \in Orders : order_state[o] = "FILLED" =>
                /\ order_state'[o] = "FILLED" /\ order_filled'[o] = order_filled[o]
                /\ order_row'[o] = order_row[o]
           /\ \A o \in Orders : order_state'[o] = "FILLED" =>
                order_row'[o] \in Rows /\ order_filled'[o] = Qty[order_row'[o]]
<1> USE ConstantsAssumption DEF Typed, TypeOK
<1>1. CASE UNCHANGED brokerVars
  BY <1>1 DEF brokerVars, Provenance
<1>2. CASE \E h \in Handlers : \E o \in Orders : pc[h] = "send" /\ Accept(job[h].row, o)
  BY <1>2 DEF Accept, Provenance
<1>3. ASSUME NEW o \in Orders, BrokerFill(o)
      PROVE  /\ order_row' = order_row
             /\ \A p \in Orders : order_state[p] = "FILLED" =>
                  order_state'[p] = "FILLED" /\ order_filled'[p] = order_filled[p]
             /\ \A p \in Orders : order_state'[p] = "FILLED" =>
                  order_row'[p] \in Rows /\ order_filled'[p] = Qty[order_row'[p]]
  <2>1. order_row' = order_row /\ order_row[o] \in Rows /\ order_state[o] # "FILLED"
    BY <1>3 DEF BrokerFill, Working, WorkingStates
  <2>2. PICK n \in 1..Qty[order_row[o]] :
          /\ order_filled' = [order_filled EXCEPT ![o] = n]
          /\ order_state' = [order_state EXCEPT ![o] =
                IF n = Qty[order_row[o]] THEN "FILLED" ELSE "PARTIALLY_FILLED"]
    BY <1>3 DEF BrokerFill
  <2> QED
    BY <2>1, <2>2 DEF Provenance
<1>4. ASSUME NEW o \in Orders, BrokerPendCancel(o) \/ BrokerClose(o)
      PROVE  /\ UNCHANGED <<order_row, order_filled>>
             /\ \A p \in Orders : order_state[p] = "FILLED" <=> order_state'[p] = "FILLED"
  BY <1>4 DEF BrokerPendCancel, BrokerClose, Working, WorkingStates, ClosedStates
<1>5. ASSUME NEW o \in Orders, BrokerPendCancel(o) \/ BrokerClose(o)
      PROVE  /\ order_row' = order_row
             /\ \A p \in Orders : order_state[p] = "FILLED" =>
                  order_state'[p] = "FILLED" /\ order_filled'[p] = order_filled[p]
             /\ \A p \in Orders : order_state'[p] = "FILLED" =>
                  order_row'[p] \in Rows /\ order_filled'[p] = Qty[order_row'[p]]
  BY <1>4, <1>5 DEF Provenance
<1> QED
  BY <1>1, <1>2, <1>3, <1>5, BrokerStep DEF Broker

LEMMA ProvenanceStays ==
    ASSUME Typed, Provenance, [Next]_vars, NEW r \in Rows
    PROVE  /\ \A o \in Orders \cup {None} : Owns(r, o) => Owns(r, o)'
           /\ \A recon \in Reconciliation : FilledFor(r, recon) => FilledFor(r, recon)'
BY OrdersGrow, ConstantsAssumption DEF Owns, FilledFor

LEMMA HoldsStays ==
    ASSUME Typed, Provenance, [Next]_vars, NEW r \in Rows
    PROVE  \A j \in Job : Holds(r, j) => Holds(r, j)'
BY ProvenanceStays DEF Holds, Job, Payload

LEMMA ExecuteHolds ==
    ASSUME Typed, Provenance, NEW h \in Handlers, Execute(h), [Next]_vars, pc'[h] # "idle"
    PROVE  Holds(job[h].row, job[h])' /\ pc'[h] \notin {"check", "book"}
<1> USE DEF Typed, TypeOK, Goto, Return
<1>1. pc'[h] \notin {"check", "book"}
  BY DEF Execute, ExecutePasses, ExecuteFails, BrokerNotReady, Probe, SendAccepted,
         SendUnparsed, SendLost, SendRefused, Refuse, KeepRead, KeepWrite
<1>2. CASE \E r \in Rows : ExecutePasses(h, r) \/ ExecuteFails(h, r)
  <2>1. job'[h].order = None /\ job'[h].recon = NoReconciliation /\ job'[h].seen = NoPayload
    <3>1. ASSUME NEW r \in Rows, ExecutePasses(h, r)
          PROVE  job'[h] = [NoJob EXCEPT !.row = r]
      BY <3>1 DEF ExecutePasses
    <3>2. ASSUME NEW r \in Rows, ExecuteFails(h, r)
          PROVE  \E status : job'[h] = [NoJob EXCEPT !.row = r, !.status = status]
      <4>1. PICK s \in SettingsSeen : \E i \in FailedGates(r, s) :
              Goto(h, "refuse", [NoJob EXCEPT !.row = r, !.status = Gates(r, s)[i].refusal])
        BY <3>2 DEF ExecuteFails
      <4> QED
        BY <4>1
    <3> QED
      BY <1>2, <3>1, <3>2 DEF NoJob
  <2> QED
    BY <1>1, <2>1 DEF Holds, NoPayload, NoReconciliation, Owns, FilledFor
<1>3. CASE Refuse(h) \/ KeepWrite(h)
  BY <1>3 DEF Refuse, KeepWrite
<1>4. ASSUME pc[h] # "idle" PROVE job[h].row \in Rows /\ Holds(job[h].row, job[h])
  BY <1>4 DEF Provenance, HandlersOK
<1>5. ASSUME NEW r \in Rows, NEW j \in Job, Holds(r, j) PROVE Holds(r, j)'
  BY <1>5, HoldsStays
<1>6. CASE BrokerNotReady(h) \/ Probe(h) \/ SendRefused(h)
           \/ \E o \in Orders : SendLost(h, o) \/ SendUnparsed(h, o)
  <2>1. pc[h] # "idle" /\ job[h].row \in Rows
    BY <1>4, <1>6 DEF BrokerNotReady, Probe, SendRefused, SendLost, SendUnparsed
  <2>2. /\ job'[h].row = job[h].row /\ job'[h].order = job[h].order
        /\ job'[h].recon = job[h].recon /\ job'[h].seen = job[h].seen
    BY <1>6 DEF BrokerNotReady, Probe, SendRefused, SendLost, SendUnparsed, Job
  <2> QED
    BY <1>1, <1>4, <1>5, <2>1, <2>2 DEF Holds, Owns, FilledFor
<1>7. ASSUME NEW o \in Orders, SendAccepted(h, o) PROVE Holds(job[h].row, job[h])'
  <2>1. pc[h] # "idle" /\ job[h].row \in Rows
    BY <1>4, <1>7 DEF SendAccepted
  <2>2. /\ job'[h].row = job[h].row /\ job'[h].order = o /\ order_row'[o] = job[h].row
        /\ job'[h].recon = job[h].recon /\ job'[h].seen = job[h].seen
    BY <1>7 DEF SendAccepted, Accept, Job
  <2> QED
    BY <1>4, <1>5, <2>1, <2>2 DEF Holds, Owns, FilledFor
<1>8. CASE KeepRead(h)
  <2>1. pc[h] # "idle" /\ job[h].row \in Rows
    BY <1>4, <1>8 DEF KeepRead
  <2>2. /\ job'[h].row = job[h].row /\ job'[h].order = job[h].order
        /\ job'[h].recon = job[h].recon /\ job'[h].seen = payload[job[h].row]
    BY <1>8 DEF KeepRead, Job
  <2>3. /\ Owns(job[h].row, payload[job[h].row].order)
        /\ FilledFor(job[h].row, payload[job[h].row].recon)
        /\ payload[job[h].row] \in Payload
    BY <2>1 DEF Provenance
  <2>4. UNCHANGED <<order_row, order_state>>
    BY <1>8 DEF KeepRead, brokerVars
  <2> QED
    BY <1>1, <1>4, <2>1, <2>2, <2>3, <2>4 DEF Holds, Owns, FilledFor
<1> QED
  BY <1>1, <1>2, <1>3, <1>6, <1>7, <1>8 DEF Execute

LEMMA ReconcileHolds ==
    ASSUME Typed, Provenance, NEW h \in Handlers, Reconcile(h), [Next]_vars, pc'[h] # "idle"
    PROVE  /\ Holds(job[h].row, job[h])'
           /\ pc'[h] \in {"check", "book"} => job'[h].recon.status = "BROKER_FILLED"
<1> USE DEF Typed, TypeOK, Goto, Return
<1>1. UNCHANGED <<order_row, order_state, order_filled>>
  BY DEF Reconcile, ReconcileLoad, ReconcileAnswer, ReconcileNoId, ReconcileError,
         NoteRead, NoteWrite, SyncLoad, SyncCheck, SyncBook, brokerVars
<1>2. ASSUME pc[h] # "idle" PROVE job[h].row \in Rows /\ Holds(job[h].row, job[h])
  BY <1>2 DEF Provenance, HandlersOK
<1>3. CASE \E r \in Rows : ReconcileLoad(h, r)
  <2>1. PICK r \in Rows : ReconcileLoad(h, r)
    BY <1>3
  <2>2. /\ job'[h].row = r /\ job'[h].order = payload[r].order /\ pc'[h] = "ask"
        /\ job'[h].recon = NoReconciliation /\ job'[h].seen = NoPayload
    <3>1. job'[h] = [NoJob EXCEPT !.row = r, !.order = payload[r].order] /\ pc'[h] = "ask"
      BY <2>1 DEF ReconcileLoad
    <3> QED
      BY <3>1 DEF NoJob
  <2> QED
    BY <1>1, <2>2 DEF Provenance, Holds, NoPayload, NoReconciliation, Owns, FilledFor
<1>4. CASE ReconcileAnswer(h)
  <2>1. job[h].order \in Orders /\ order_row[job[h].order] = job[h].row
    BY <1>2, <1>4 DEF ReconcileAnswer, Job, Holds, Owns
  <2>2. /\ job'[h].recon.status = lifecycle_status[order_state[job[h].order]]
        /\ job'[h].recon.dealt = order_filled[job[h].order]
        /\ job'[h].row = job[h].row /\ job'[h].order = job[h].order
        /\ job'[h].seen = job[h].seen /\ pc'[h] = "note"
    BY <1>4 DEF ReconcileAnswer, Job
  <2>3. FilledFor(job[h].row, job'[h].recon)
    <3>1. SUFFICES ASSUME job'[h].recon.status = "BROKER_FILLED"
          PROVE  /\ job'[h].recon.dealt = Qty[job[h].row]
                 /\ order_row[job[h].order] = job[h].row /\ order_state[job[h].order] = "FILLED"
      BY <2>1 DEF FilledFor
    <3>2. order_state[job[h].order] \in OrderStates
      BY <2>1
    <3>3. order_state[job[h].order] = "FILLED"
      BY <2>2, <3>1, <3>2, FilledOnly
    <3> QED
      BY <2>1, <2>2, <3>3 DEF Provenance
  <2> QED
    BY <1>1, <1>2, <1>4, <2>2, <2>3 DEF ReconcileAnswer, Holds, Owns, FilledFor
<1>5. CASE ReconcileNoId(h) \/ ReconcileError(h)
  <2>1. /\ job'[h].recon.status \in ReconcileErrors /\ job'[h].row = job[h].row
        /\ job'[h].order = job[h].order /\ job'[h].seen = job[h].seen /\ pc'[h] = "note"
    <3>1. CASE ReconcileNoId(h)
      BY <3>1 DEF ReconcileNoId, Job, Reconciliation, ReconcileErrors
    <3>2. CASE ReconcileError(h)
      BY <3>2 DEF ReconcileError, Job, Reconciliation, ReconcileErrors
    <3> QED
      BY <1>5, <3>1, <3>2
  <2> QED
    BY <1>1, <1>2, <1>5, <2>1
    DEF ReconcileNoId, ReconcileError, ReconcileErrors, Holds, Owns, FilledFor
<1>6. CASE NoteRead(h)
  <2>1. /\ job'[h].row = job[h].row /\ job'[h].order = job[h].order
        /\ job'[h].recon = job[h].recon /\ job'[h].seen = payload[job[h].row] /\ pc'[h] = "noted"
    BY <1>6 DEF NoteRead, Job
  <2> QED
    BY <1>1, <1>2, <1>6, <2>1 DEF NoteRead, Provenance, Holds, Owns, FilledFor
<1>7. CASE NoteWrite(h)
  BY <1>1, <1>7 DEF NoteWrite, Holds, NoJob, NoPayload, NoReconciliation, Owns, FilledFor
<1>8. CASE SyncLoad(h)
  <2>1. /\ job'[h].row = job[h].row /\ job'[h].order = job[h].order
        /\ job'[h].recon = payload[job[h].row].recon /\ job'[h].seen = job[h].seen
        /\ job'[h].recon.status = "BROKER_FILLED"
    <3>1. payload[job[h].row].recon.status = "BROKER_FILLED" /\ pc[h] = "sync"
      BY <1>8 DEF SyncLoad
    <3>2. job' = [job EXCEPT ![h] = [job[h] EXCEPT !.recon = payload[job[h].row].recon]]
      BY <1>8, <3>1 DEF SyncLoad
    <3> QED
      BY <3>1, <3>2 DEF Job
  <2>2. FilledFor(job[h].row, payload[job[h].row].recon)
    BY <1>2, <1>8 DEF SyncLoad, Provenance
  <2> QED
    BY <1>1, <1>2, <1>8, <2>1, <2>2 DEF SyncLoad, Holds, Owns, FilledFor
<1>9. CASE SyncCheck(h)
  BY <1>1, <1>2, <1>9 DEF SyncCheck, Provenance, Holds, Owns, FilledFor
<1>10. CASE SyncBook(h)
  BY <1>10 DEF SyncBook
<1> QED
  BY <1>3, <1>4, <1>5, <1>6, <1>7, <1>8, <1>9, <1>10 DEF Reconcile

(* The payload of a row changes only when a handler writes back one it has *)
(* read, with the order or the reconciliation it holds.                    *)
LEMMA PayloadStep ==
    ASSUME [Next]_vars
    PROVE  \/ UNCHANGED payload
           \/ \E h \in Handlers : KeepWrite(h) \/ NoteWrite(h)
<1>1. ASSUME NEW h \in Handlers, Execute(h) PROVE UNCHANGED payload \/ KeepWrite(h)
  BY <1>1 DEF Execute, ExecutePasses, ExecuteFails, BrokerNotReady, Probe, SendAccepted,
              SendUnparsed, SendLost, SendRefused, Refuse, KeepRead, queueVars
<1>2. ASSUME NEW h \in Handlers, Reconcile(h) PROVE UNCHANGED payload \/ NoteWrite(h)
  BY <1>2 DEF Reconcile, ReconcileLoad, ReconcileAnswer, ReconcileNoId, ReconcileError,
              NoteRead, SyncLoad, SyncCheck, SyncBook, queueVars
<1>3. ASSUME NEW h \in Handlers, Crash(h) PROVE UNCHANGED payload
  BY <1>3 DEF Crash, queueVars
<1>4. ASSUME NEW o \in Orders, Broker(o) PROVE UNCHANGED payload
  BY <1>4 DEF Broker, BrokerFill, BrokerPendCancel, BrokerClose, queueVars
<1>5. ASSUME NEW r \in Rows, RecordApproval(r) PROVE UNCHANGED payload
  BY <1>5 DEF RecordApproval
<1>6. CASE UNCHANGED vars
  BY <1>6 DEF vars, queueVars
<1> QED
  BY <1>1, <1>2, <1>3, <1>4, <1>5, <1>6 DEF Next

(* Only SyncBook writes the ledger. *)
LEMMA LedgerStep ==
    ASSUME [Next]_vars
    PROVE  UNCHANGED ledgerVars \/ \E h \in Handlers : SyncBook(h)
<1>1. ASSUME NEW h \in Handlers, Execute(h) PROVE UNCHANGED ledgerVars
  BY <1>1 DEF Execute, ExecutePasses, ExecuteFails, BrokerNotReady, Probe, SendAccepted,
              SendUnparsed, SendLost, SendRefused, Refuse, KeepRead, KeepWrite
<1>2. ASSUME NEW h \in Handlers, Reconcile(h) PROVE UNCHANGED ledgerVars \/ SyncBook(h)
  BY <1>2 DEF Reconcile, ReconcileLoad, ReconcileAnswer, ReconcileNoId, ReconcileError,
              NoteRead, NoteWrite, SyncLoad, SyncCheck
<1>3. ASSUME NEW h \in Handlers, Crash(h) PROVE UNCHANGED ledgerVars
  BY <1>3 DEF Crash
<1>4. ASSUME NEW o \in Orders, Broker(o) PROVE UNCHANGED ledgerVars
  BY <1>4 DEF Broker, BrokerFill, BrokerPendCancel, BrokerClose, ledgerVars
<1>5. ASSUME NEW r \in Rows, RecordApproval(r) PROVE UNCHANGED ledgerVars
  BY <1>5 DEF RecordApproval, ledgerVars
<1>6. CASE UNCHANGED vars
  BY <1>6 DEF vars, ledgerVars
<1> QED
  BY <1>1, <1>2, <1>3, <1>4, <1>5, <1>6 DEF Next

LEMMA PayloadHolds ==
    ASSUME Typed, Provenance, [Next]_vars, NEW r \in Rows
    PROVE  (Owns(r, payload[r].order) /\ FilledFor(r, payload[r].recon))'
<1> USE DEF Typed, TypeOK
<1>1. CASE payload'[r] = payload[r]
  <2>1. payload[r].order \in Orders \cup {None} /\ payload[r].recon \in Reconciliation
    BY DEF Payload
  <2> QED
    BY <1>1, <2>1, ProvenanceStays DEF Provenance, Owns, FilledFor
<1>2. ASSUME NEW h \in Handlers, KeepWrite(h) \/ NoteWrite(h), payload'[r] # payload[r]
      PROVE  (Owns(r, payload[r].order) /\ FilledFor(r, payload[r].recon))'
  <2>1. r = job[h].row /\ pc[h] # "idle"
    BY <1>2 DEF KeepWrite, NoteWrite
  <2>2. Holds(r, job[h])
    BY <2>1 DEF Provenance
  <2>3. UNCHANGED <<order_row, order_state>>
    BY <1>2 DEF KeepWrite, NoteWrite, brokerVars
  <2>4. \/ payload'[r].order = job[h].order /\ payload'[r].recon = job[h].seen.recon
        \/ payload'[r].order = job[h].seen.order /\ payload'[r].recon = job[h].recon
    BY <1>2, <2>1 DEF KeepWrite, NoteWrite, NotedPayload, Job, Payload
  <2> QED
    BY <2>2, <2>3, <2>4 DEF Holds, Owns, FilledFor
<1> QED
  BY <1>1, <1>2, PayloadStep

LEMMA ProvenanceStep == Typed /\ Provenance /\ [Next]_vars => Provenance'
<1> SUFFICES ASSUME Typed, Provenance, [Next]_vars PROVE Provenance'
  OBVIOUS
<1>1. ASSUME NEW h \in Handlers
      PROVE  /\ (pc[h] # "idle" => Holds(job[h].row, job[h]))'
             /\ (pc[h] \in {"check", "book"} => job[h].recon.status = "BROKER_FILLED")'
  <2>1. CASE Execute(h)
    BY <2>1, ExecuteHolds
  <2>2. CASE Reconcile(h)
    BY <2>2, ReconcileHolds
  <2>3. CASE Crash(h)
    BY <2>3 DEF Crash, Return, Goto, Typed, TypeOK
  <2>4. CASE job'[h] = job[h] /\ pc'[h] = pc[h]
    <3>1. pc[h] # "idle" => job[h].row \in Rows /\ job[h] \in Job /\ Holds(job[h].row, job[h])
      BY DEF Typed, TypeOK, HandlersOK, Provenance
    <3>2. \A r \in Rows : \A j \in Job : Holds(r, j) => Holds(r, j)'
      BY HoldsStays
    <3> QED
      BY <2>4, <3>1, <3>2 DEF Provenance, Holds, Owns, FilledFor
  <2> QED
    BY <2>1, <2>2, <2>3, <2>4, OthersWait
<1> QED
  BY <1>1, PayloadHolds, OrdersGrow DEF Provenance

LEMMA BookedStep == Typed /\ Provenance /\ BookedIsFilled /\ [Next]_vars => BookedIsFilled'
<1> SUFFICES ASSUME Typed, Provenance, BookedIsFilled, [Next]_vars, NEW r \in Rows, fills'[r] # 0
    PROVE  fills'[r] = Qty[r] /\ \E o \in Orders : order_row'[o] = r /\ order_state'[o] = "FILLED"
  BY DEF BookedIsFilled
<1>1. fills'[r] = Qty[r] /\ \E o \in Orders : order_row[o] = r /\ order_state[o] = "FILLED"
  <2>1. CASE fills'[r] = fills[r]
    BY <2>1 DEF BookedIsFilled
  <2>2. CASE fills'[r] # fills[r]
    <3>1. PICK h \in Handlers : SyncBook(h)
      BY <2>2, LedgerStep DEF ledgerVars
    <3>2. r = job[h].row /\ fills'[r] = job[h].recon.dealt /\ pc[h] = "book"
      BY <2>2, <3>1 DEF SyncBook, ledgerVars, Typed, TypeOK
    <3> QED
      BY <3>2 DEF Provenance, Holds, FilledFor
  <2> QED
    BY <2>1, <2>2
<1> QED
  BY <1>1, OrdersGrow

(* Whatever reconciliations overlap, arrive late or crash, the ledger books*)
(* a row only when its own order is filled at the broker, and in full.     *)
THEOREM BookedOnlyFilled == Spec => []BookedIsFilled
<1>1. Init => Provenance /\ BookedIsFilled
  BY DEF Init, Provenance, BookedIsFilled, Owns, FilledFor, NoPayload, NoReconciliation
<1> QED
  BY InitTyped, StepTyped, ProvenanceStep, BookedStep, <1>1, PTL DEF Spec

-----------------------------------------------------------------------------
(* Custody: who may write the order id of a row.  Until the one handler    *)
(* whose order was accepted has recorded it nobody reconciles the row, and *)
(* from then on every handler that rewrites the payload has read that id.  *)
Sent(r) == \E o \in Orders : order_row[o] = r
Keeping(h) == pc[h] \in {"keep", "kept"}

Custody ==
    /\ \A o \in Orders : order_row[o] = None => order_state[o] = "NEW"
    /\ \A r \in Rows : payload[r].order # None => broker_submission[r]
    /\ \A r \in Rows : broker_submission[r] => Sent(r)
    /\ \A h \in Handlers : Keeping(h) => Sent(job[h].row) /\ ~broker_submission[job[h].row]
    /\ \A g, h \in Handlers : Keeping(g) /\ Keeping(h) /\ job[g].row = job[h].row => g = h
    /\ \A h \in Handlers : pc[h] \in {"ask", "note", "noted"} => broker_submission[job[h].row]
    /\ \A h \in Handlers : pc[h] = "noted" => job[h].seen.order = payload[job[h].row].order

(* How a handler comes to each of the steps that Custody speaks of. *)
LEMMA Arrivals ==
    ASSUME Typed, [Next]_vars, NEW h \in Handlers
    PROVE  /\ Keeping(h)' =>
                \/ Keeping(h) /\ job'[h].row = job[h].row
                \/ /\ pc[h] = "send" /\ job'[h].row = job[h].row
                   /\ UNCHANGED <<payload, broker_submission>>
                   /\ \E o \in Orders : Accept(job[h].row, o)
           /\ pc'[h] \in {"ask", "note", "noted"} =>
                \/ pc[h] \in {"ask", "note", "noted"} /\ job'[h].row = job[h].row
                \/ broker_submission[job'[h].row] /\ UNCHANGED broker_submission
           /\ pc'[h] = "noted" =>
                \/ pc[h] = "noted" /\ job'[h] = job[h]
                \/ /\ pc[h] = "note" /\ job'[h].row = job[h].row /\ UNCHANGED payload
                   /\ job'[h].seen.order = payload[job[h].row].order
<1> USE DEF Typed, TypeOK, Goto, Return, Keeping, queueVars
<1>1. CASE job'[h] = job[h] /\ pc'[h] = pc[h]
  BY <1>1
<1>2. CASE Execute(h)
  <2>1. CASE \E r \in Rows : ExecutePasses(h, r) \/ ExecuteFails(h, r)
    BY <2>1 DEF ExecutePasses, ExecuteFails
  <2>2. CASE BrokerNotReady(h) \/ Probe(h) \/ SendRefused(h) \/ Refuse(h) \/ KeepWrite(h)
    BY <2>2 DEF BrokerNotReady, Probe, SendRefused, Refuse, KeepWrite
  <2>3. ASSUME NEW o \in Orders, SendAccepted(h, o) \/ SendUnparsed(h, o)
        PROVE  /\ pc[h] = "send" /\ pc'[h] = "keep" /\ job'[h].row = job[h].row
               /\ UNCHANGED <<payload, broker_submission>> /\ Accept(job[h].row, o)
    BY <2>3 DEF SendAccepted, SendUnparsed, Job
  <2>4. CASE \E o \in Orders : SendLost(h, o)
    BY <2>4 DEF SendLost
  <2>5. CASE KeepRead(h)
    BY <2>5 DEF KeepRead, Job
  <2> QED
    BY <1>2, <2>1, <2>2, <2>3, <2>4, <2>5 DEF Execute
<1>3. CASE Reconcile(h)
  <2>1. ASSUME NEW r \in Rows, ReconcileLoad(h, r)
        PROVE  /\ pc'[h] = "ask" /\ broker_submission[job'[h].row]
               /\ UNCHANGED broker_submission
    BY <2>1 DEF ReconcileLoad, NoJob
  <2>2. CASE ReconcileAnswer(h) \/ ReconcileNoId(h) \/ ReconcileError(h)
    BY <2>2 DEF ReconcileAnswer, ReconcileNoId, ReconcileError, Job
  <2>3. CASE NoteRead(h)
    BY <2>3 DEF NoteRead, Job
  <2>4. CASE NoteWrite(h) \/ SyncLoad(h) \/ SyncCheck(h) \/ SyncBook(h)
    BY <2>4 DEF NoteWrite, SyncLoad, SyncCheck, SyncBook
  <2> QED
    BY <1>3, <2>1, <2>2, <2>3, <2>4 DEF Reconcile
<1>4. CASE Crash(h)
  BY <1>4 DEF Crash
<1> QED
  BY <1>1, <1>2, <1>3, <1>4, OthersWait

LEMMA SubmissionStep ==
    ASSUME [Next]_vars
    PROVE  UNCHANGED broker_submission \/ \E h \in Handlers : KeepWrite(h)
<1>1. ASSUME NEW h \in Handlers, Execute(h) PROVE UNCHANGED broker_submission \/ KeepWrite(h)
  BY <1>1 DEF Execute, ExecutePasses, ExecuteFails, BrokerNotReady, Probe, SendAccepted,
              SendUnparsed, SendLost, SendRefused, Refuse, KeepRead, queueVars
<1>2. ASSUME NEW h \in Handlers, Reconcile(h) PROVE UNCHANGED broker_submission
  BY <1>2 DEF Reconcile, ReconcileLoad, ReconcileAnswer, ReconcileNoId, ReconcileError,
              NoteRead, NoteWrite, SyncLoad, SyncCheck, SyncBook, queueVars
<1>3. ASSUME NEW h \in Handlers, Crash(h) PROVE UNCHANGED broker_submission
  BY <1>3 DEF Crash, queueVars
<1>4. ASSUME NEW o \in Orders, Broker(o) PROVE UNCHANGED broker_submission
  BY <1>4 DEF Broker, BrokerFill, BrokerPendCancel, BrokerClose, queueVars
<1>5. ASSUME NEW r \in Rows, RecordApproval(r) PROVE UNCHANGED broker_submission
  BY <1>5 DEF RecordApproval
<1>6. CASE UNCHANGED vars
  BY <1>6 DEF vars, queueVars
<1> QED
  BY <1>1, <1>2, <1>3, <1>4, <1>5, <1>6 DEF Next

LEMMA CustodyStep ==
    Adapter = "alpaca" /\ Typed /\ Provenance /\ Custody /\ [Next]_vars => Custody'
<1> SUFFICES ASSUME Adapter = "alpaca", Typed, Provenance, Custody, [Next]_vars PROVE Custody'
  OBVIOUS
<1> USE ConstantsAssumption
<1>1. \A r \in Rows : Sent(r) => Sent(r)'
  BY OrdersGrow DEF Sent
<1>2. ASSUME NEW r \in Rows, NEW o \in Orders, Accept(r, o) PROVE ~Sent(r) /\ Sent(r)'
  BY <1>2 DEF Accept, KeyTaken, ClientOrderId, Sent, Typed, TypeOK
<1>3. ASSUME NEW h \in Handlers, KeepWrite(h) PROVE Keeping(h) /\ job[h].row \in Rows /\ pc'[h] = "idle"
  BY <1>3 DEF KeepWrite, Keeping, Return, Goto, Typed, TypeOK, HandlersOK
<1>4. ASSUME NEW r \in Rows
      PROVE  /\ broker_submission[r] => broker_submission'[r]
             /\ broker_submission'[r] => Sent(r)
             /\ broker_submission'[r] /\ ~broker_submission[r] =>
                  \E h \in Handlers : KeepWrite(h) /\ job[h].row = r
  <2>1. CASE UNCHANGED broker_submission
    BY <2>1 DEF Custody
  <2>2. ASSUME NEW h \in Handlers, KeepWrite(h)
        PROVE  /\ Sent(job[h].row)
               /\ broker_submission' = [broker_submission EXCEPT ![job[h].row] = TRUE]
    BY <1>3, <2>2 DEF KeepWrite, Custody
  <2>3. broker_submission \in [Rows -> BOOLEAN]
    BY DEF Typed, TypeOK
  <2>4. ASSUME NEW h \in Handlers, KeepWrite(h)
        PROVE  /\ broker_submission[r] => broker_submission'[r]
               /\ broker_submission'[r] => Sent(r)
               /\ broker_submission'[r] /\ ~broker_submission[r] => job[h].row = r
    <3>1. CASE job[h].row = r
      BY <2>2, <2>3, <2>4, <3>1
    <3>2. CASE job[h].row # r
      BY <2>2, <2>3, <2>4, <3>2 DEF Custody
    <3> QED
      BY <3>1, <3>2
  <2> QED
    BY <2>1, <2>4, SubmissionStep
<1>5. ASSUME NEW r \in Rows
      PROVE  payload'[r].order = payload[r].order \/ \E h \in Handlers : KeepWrite(h) /\ job[h].row = r
  <2>1. ASSUME NEW h \in Handlers, NoteWrite(h) PROVE payload'[r].order = payload[r].order
    <3>1. pc[h] = "noted" /\ job[h] \in Job /\ job[h].seen.order = payload[job[h].row].order
      BY <2>1 DEF NoteWrite, Custody, Typed, TypeOK
    <3>2. payload' = [payload EXCEPT ![job[h].row] = NotedPayload(job[h])]
      BY <2>1 DEF NoteWrite
    <3>3. NotedPayload(job[h]).order = payload[job[h].row].order
      BY <3>1 DEF NotedPayload, Job, Payload
    <3> QED
      BY <3>2, <3>3 DEF Typed, TypeOK
  <2>2. ASSUME NEW h \in Handlers, KeepWrite(h), job[h].row # r
        PROVE  payload'[r].order = payload[r].order
    BY <2>2 DEF KeepWrite, Typed, TypeOK
  <2> QED
    BY <2>1, <2>2, PayloadStep
<1>6. ASSUME NEW o \in Orders PROVE (order_row[o] = None => order_state[o] = "NEW")'
  BY BrokerStep DEF Custody, Typed, TypeOK, HandlersOK, brokerVars, Accept, Broker, BrokerFill,
                    BrokerPendCancel, BrokerClose, Working
<1>7. ASSUME NEW r \in Rows PROVE (payload[r].order # None => broker_submission[r])'
  <2>1. ASSUME NEW h \in Handlers, KeepWrite(h), job[h].row = r PROVE broker_submission'[r]
    BY <2>1 DEF KeepWrite, Typed, TypeOK
  <2> QED
    BY <1>4, <1>5, <2>1 DEF Custody
<1>8. ASSUME NEW r \in Rows PROVE (broker_submission[r] => Sent(r))'
  BY <1>1, <1>4
<1>9. ASSUME NEW h \in Handlers, Keeping(h)'
      PROVE  /\ job'[h].row = job[h].row /\ job[h].row \in Rows
             /\ Sent(job[h].row)' /\ ~broker_submission'[job[h].row]
  <2>1. CASE Keeping(h) /\ job'[h].row = job[h].row
    <3>1. job[h].row \in Rows /\ Sent(job[h].row) /\ ~broker_submission[job[h].row]
      BY <2>1 DEF Keeping, Custody, Typed, HandlersOK
    <3>2. ASSUME NEW g \in Handlers, KeepWrite(g) PROVE job[g].row # job[h].row
      BY <1>3, <1>9, <2>1, <3>2 DEF Custody, Keeping
    <3> QED
      BY <1>1, <1>4, <2>1, <3>1, <3>2
  <2>2. ASSUME NEW o \in Orders, pc[h] = "send", job'[h].row = job[h].row,
               UNCHANGED <<payload, broker_submission>>, Accept(job[h].row, o)
        PROVE  /\ job'[h].row = job[h].row /\ job[h].row \in Rows
               /\ Sent(job[h].row)' /\ ~broker_submission'[job[h].row]
    <3>1. job[h].row \in Rows
      BY <2>2 DEF Typed, HandlersOK
    <3> QED
      BY <1>2, <2>2, <3>1 DEF Custody
  <2> QED
    BY <1>9, <2>1, <2>2, Arrivals
<1>10. ASSUME NEW g \in Handlers, NEW h \in Handlers, Keeping(g)', Keeping(h)',
              job'[g].row = job'[h].row
       PROVE  g = h
  <2>1. ASSUME NEW f \in Handlers, ~Keeping(f), Keeping(f)'
        PROVE  ~Sent(job[f].row) /\ \A e \in Handlers : e # f => pc'[e] = pc[e]
    <3>1. pc'[f] # pc[f]
      BY <2>1 DEF Keeping
    <3>2. Execute(f) \/ Reconcile(f) \/ Crash(f)
      BY <3>1, OthersWait
    <3>3. pc[f] = "send" /\ \E o \in Orders : Accept(job[f].row, o)
      BY <2>1, Arrivals
    <3>4. job[f].row \in Rows
      BY <3>3 DEF Typed, HandlersOK
    <3> QED
      BY <1>2, <3>2, <3>3, <3>4, OthersStill
  <2>2. job[g].row = job[h].row
    BY <1>9, <1>10
  <2>3. CASE Keeping(g) /\ Keeping(h)
    BY <2>2, <2>3 DEF Custody
  <2>4. ASSUME NEW e \in Handlers, NEW f \in Handlers, Keeping(e), ~Keeping(f), Keeping(f)',
               job[e].row = job[f].row
        PROVE  FALSE
    BY <2>1, <2>4 DEF Custody
  <2>5. CASE ~Keeping(g) /\ ~Keeping(h)
    BY <1>10, <2>1, <2>5 DEF Keeping
  <2> QED
    BY <1>10, <2>2, <2>3, <2>4, <2>5
<1>11. ASSUME NEW h \in Handlers, pc'[h] \in {"ask", "note", "noted"}
       PROVE  job'[h].row \in Rows /\ broker_submission'[job'[h].row]
  <2>1. job'[h].row \in Rows
    BY <1>11, StepTyped DEF Typed, HandlersOK
  <2>2. CASE pc[h] \in {"ask", "note", "noted"} /\ job'[h].row = job[h].row
    BY <1>4, <2>1, <2>2 DEF Custody
  <2> QED
    BY <1>4, <1>11, <2>1, <2>2, Arrivals
<1>12. ASSUME NEW h \in Handlers, pc'[h] = "noted"
       PROVE  job'[h].seen.order = payload'[job'[h].row].order
  <2>1. CASE pc[h] = "noted" /\ job'[h] = job[h]
    <3>1. /\ job[h].row \in Rows /\ broker_submission[job[h].row]
          /\ job[h].seen.order = payload[job[h].row].order
      BY <2>1 DEF Custody, Typed, HandlersOK
    <3>2. ASSUME NEW g \in Handlers, KeepWrite(g) PROVE job[g].row # job[h].row
      BY <1>3, <3>1, <3>2 DEF Custody
    <3> QED
      BY <1>5, <2>1, <3>1, <3>2
  <2> QED
    BY <1>12, <2>1, Arrivals
<1>13. \A h \in Handlers : (Keeping(h) => Sent(job[h].row) /\ ~broker_submission[job[h].row])'
  BY <1>9 DEF Sent
<1> QED
  <2>1. \A g, h \in Handlers : (Keeping(g) /\ Keeping(h) /\ job[g].row = job[h].row => g = h)'
    BY <1>10 DEF Keeping
  <2> QED
    BY <1>6, <1>7, <1>8, <1>11, <1>12, <1>13, <2>1 DEF Custody

LEMMA InitSafe == Init => Typed /\ Provenance /\ Custody /\ OneOrderPerRow /\ BookedIsFilled
<1> SUFFICES ASSUME Init
    PROVE Typed /\ Provenance /\ Custody /\ OneOrderPerRow /\ BookedIsFilled
  OBVIOUS
<1>1. Provenance /\ BookedIsFilled /\ OneOrderPerRow
  BY DEF Init, Provenance, BookedIsFilled, OneOrderPerRow, Owns, FilledFor,
         NoPayload, NoReconciliation
<1>2. Custody
  BY DEF Init, Custody, Keeping, NoPayload
<1> QED
  BY <1>1, <1>2, InitTyped

(* With Alpaca, a recorded order id is the row's own and is never lost to  *)
(* one of the overlapping read-modify-writes of the payload.               *)
THEOREM NeverForgotten == Adapter = "alpaca" => (Spec => OrderNeverForgotten)
<1> SUFFICES ASSUME Adapter = "alpaca" PROVE Spec => OrderNeverForgotten
  OBVIOUS
<1>1. Typed /\ Provenance /\ Custody /\ [Next]_vars =>
        [\A r \in Rows : payload[r].order # None =>
           payload'[r].order = payload[r].order /\ order_row[payload[r].order] = r]_vars
  <2> SUFFICES ASSUME Typed, Provenance, Custody, [Next]_vars,
                      NEW r \in Rows, payload[r].order # None
      PROVE  payload'[r].order = payload[r].order /\ order_row[payload[r].order] = r
    OBVIOUS
  <2>1. broker_submission[r]
    BY DEF Custody
  <2>2. ASSUME NEW h \in Handlers, KeepWrite(h) PROVE payload'[r] = payload[r]
    <3>1. job[h].row # r
      BY <2>1, <2>2 DEF KeepWrite, Keeping, Custody
    <3> QED
      BY <2>2, <3>1 DEF KeepWrite, Typed, TypeOK
  <2>3. ASSUME NEW h \in Handlers, NoteWrite(h) PROVE payload'[r].order = payload[r].order
    <3>1. pc[h] = "noted" /\ job[h] \in Job /\ job[h].seen.order = payload[job[h].row].order
      BY <2>3 DEF NoteWrite, Custody, Typed, TypeOK
    <3>2. payload' = [payload EXCEPT ![job[h].row] = NotedPayload(job[h])]
      BY <2>3 DEF NoteWrite
    <3>3. NotedPayload(job[h]).order = payload[job[h].row].order
      BY <3>1 DEF NotedPayload, Job, Payload
    <3> QED
      BY <3>2, <3>3 DEF Typed, TypeOK
  <2> QED
    BY <2>2, <2>3, PayloadStep DEF Provenance, Owns
<1>2. Adapter = "alpaca" /\ Typed /\ Provenance /\ Custody /\ [Next]_vars => Custody'
  BY CustodyStep
<1> QED
  BY InitSafe, StepTyped, ProvenanceStep, <1>1, <1>2, PTL DEF Spec, OrderNeverForgotten

-----------------------------------------------------------------------------
(* Refinement: what the one order of a row tells about its stage.          *)
StageName(state) ==
    IF state = "FILLED" THEN "FILLED" ELSE IF state \in ClosedStates THEN "CLOSED" ELSE "WORKING"

StageFacts ==
    \A r \in Rows :
        /\ \A o \in Orders : order_row[o] = r => StageOf(r) = StageName(order_state[o])
        /\ ~Sent(r) => StageOf(r) = "QUEUED"

LEMMA StagesKnown == OneOrderPerRow => StageFacts
<1> SUFFICES ASSUME OneOrderPerRow, NEW r \in Rows
    PROVE  /\ \A o \in Orders : order_row[o] = r => StageOf(r) = StageName(order_state[o])
           /\ ~Sent(r) => StageOf(r) = "QUEUED"
  BY DEF StageFacts
<1>1. ASSUME NEW o \in Orders, order_row[o] = r PROVE StageOf(r) = StageName(order_state[o])
  <2> DEFINE chosen == CHOOSE p \in Orders : order_row[p] = r
  <2>1. chosen \in Orders /\ order_row[chosen] = r
    BY <1>1
  <2>2. chosen = o
    BY <1>1, <2>1, ConstantsAssumption DEF OneOrderPerRow
  <2> QED
    BY <1>1, <2>2 DEF StageOf, StageName
<1> QED
  BY <1>1 DEF StageOf, Sent

(* One row moves along the stages of OrderPromise, or none does. *)
Advances(q) ==
    /\ \A r \in Rows : r # q => StageOf(r)' = StageOf(r)
    /\ \/ StageOf(q) = "QUEUED" /\ StageOf(q)' = "WORKING"
       \/ StageOf(q) = "WORKING" /\ StageOf(q)' \in {"WORKING", "FILLED", "CLOSED"}

LEMMA StagesStep ==
    ASSUME Adapter = "alpaca", Typed, Provenance, Custody, OneOrderPerRow, [Next]_vars,
           StageFacts, StageFacts'
    PROVE  \/ \A r \in Rows : StageOf(r)' = StageOf(r)
           \/ \E q \in Rows : Advances(q)
<1> USE ConstantsAssumption DEF StageFacts, Sent
<1>1. ASSUME UNCHANGED brokerVars, NEW r \in Rows PROVE StageOf(r)' = StageOf(r)
  BY <1>1 DEF brokerVars, StageOf
<1>2. ASSUME NEW q \in Rows, NEW o \in Orders, Accept(q, o) PROVE Advances(q)
  <2>1. q # None /\ \A p \in Orders : order_row[p] # q
    BY <1>2 DEF Accept, KeyTaken, ClientOrderId
  <2>2. /\ order_row[o] = None /\ order_state[o] = "NEW" /\ order_state' = order_state
        /\ order_row'[o] = q /\ \A p \in Orders : p # o => order_row'[p] = order_row[p]
    BY <1>2 DEF Accept, Custody, Typed, TypeOK
  <2>3. StageOf(q) = "QUEUED"
    BY <2>1
  <2>4. StageOf(q)' = "WORKING"
    BY <2>2 DEF StageName, ClosedStates
  <2>5. ASSUME NEW r \in Rows, r # q PROVE StageOf(r)' = StageOf(r)
    <3>1. ASSUME NEW p \in Orders, order_row[p] = r PROVE StageOf(r)' = StageOf(r)
      BY <2>2, <2>5, <3>1 DEF StageName
    <3>2. CASE \A p \in Orders : order_row[p] # r
      BY <2>2, <2>5, <3>2
    <3> QED
      BY <3>1, <3>2
  <2> QED
    BY <2>3, <2>4, <2>5 DEF Advances
<1>3. ASSUME NEW o \in Orders, Broker(o) PROVE \E q \in Rows : Advances(q)
  <2>1. PICK q \in Rows : order_row[o] = q /\ order_state[o] \in WorkingStates
    BY <1>3 DEF Broker, BrokerFill, BrokerPendCancel, BrokerClose, Working, Typed, TypeOK
  <2>2. /\ order_row' = order_row /\ order_state'[o] \in OrderStates
        /\ \A p \in Orders : p # o => order_state'[p] = order_state[p]
    BY <1>3 DEF Broker, BrokerFill, BrokerPendCancel, BrokerClose, OrderStates, WorkingStates,
                Typed, TypeOK
  <2>3. StageOf(q) = "WORKING"
    BY <2>1 DEF StageName, WorkingStates, ClosedStates
  <2>4. StageOf(q)' \in {"WORKING", "FILLED", "CLOSED"}
    BY <2>1, <2>2 DEF StageName
  <2>5. ASSUME NEW r \in Rows, r # q PROVE StageOf(r)' = StageOf(r)
    <3>1. ASSUME NEW p \in Orders, order_row[p] = r PROVE StageOf(r)' = StageOf(r)
      BY <2>1, <2>2, <2>5, <3>1 DEF StageName
    <3>2. CASE \A p \in Orders : order_row[p] # r
      BY <2>2, <3>2
    <3> QED
      BY <3>1, <3>2
  <2> QED
    BY <2>3, <2>4, <2>5 DEF Advances
<1>4. ASSUME NEW h \in Handlers, pc[h] = "send" PROVE job[h].row \in Rows
  BY <1>4 DEF Typed, HandlersOK
<1> QED
  BY <1>1, <1>2, <1>3, <1>4, BrokerStep

LEMMA PromiseStep ==
    ASSUME Adapter = "alpaca", Typed, Provenance, Custody, OneOrderPerRow, BookedIsFilled,
           [Next]_vars, StageFacts, StageFacts'
    PROVE  [Promise!Next]_(Promise!promiseVars)
<1> USE DEF Promise!Next, Promise!Place, Promise!Fill, Promise!Close, Promise!Book,
            Promise!promiseVars
<1>1. CASE UNCHANGED ledgerVars
  <2>1. CASE \A r \in Rows : StageOf(r)' = StageOf(r)
    BY <1>1, <2>1 DEF ledgerVars
  <2>2. ASSUME NEW q \in Rows, Advances(q) PROVE [Promise!Next]_(Promise!promiseVars)
    BY <1>1, <2>2 DEF ledgerVars, Advances
  <2> QED
    BY <2>1, <2>2, StagesStep
<1>2. ASSUME NEW h \in Handlers, SyncBook(h), ~UNCHANGED ledgerVars
      PROVE  [Promise!Next]_(Promise!promiseVars)
  <2>1. PICK q \in Rows : q = job[h].row
    BY <1>2 DEF SyncBook, Typed, HandlersOK
  <2>2. fills[q] = 0 /\ fills' = [fills EXCEPT ![q] = job[h].recon.dealt]
    BY <1>2, <2>1 DEF SyncBook, InsertAllowed
  <2>3. /\ job[h].recon.dealt = Qty[q]
        /\ \E o \in Orders : order_row[o] = q /\ order_state[o] = "FILLED"
    BY <1>2, <2>1 DEF SyncBook, Provenance, Holds, FilledFor
  <2>4. StageOf(q) = "FILLED"
    BY <2>3 DEF StageFacts, StageName
  <2>5. \A r \in Rows : StageOf(r)' = StageOf(r)
    BY <1>2 DEF SyncBook, brokerVars, StageOf
  <2> QED
    BY <2>2, <2>3, <2>4, <2>5
<1> QED
  BY <1>1, <1>2, LedgerStep

(* With Alpaca the whole path implements OrderPromise: each row goes to the*)
(* broker at most once and is booked at most once, in full, after it fills.*)
THEOREM KeepsPromise == Adapter = "alpaca" => (Spec => PromiseKept)
<1> SUFFICES ASSUME Adapter = "alpaca" PROVE Spec => PromiseKept
  OBVIOUS
<1> DEFINE Safe == Typed /\ Provenance /\ Custody /\ OneOrderPerRow /\ BookedIsFilled
<1>1. Init => Safe
  BY InitSafe
<1>2. Safe /\ [Next]_vars => Safe'
  BY StepTyped, ProvenanceStep, CustodyStep, OneOrderStep, BookedStep
<1>3. Safe => StageFacts
  BY StagesKnown
<1>4. Init => Promise!Init
  BY ConstantsAssumption DEF Init, Promise!Init, StageOf
<1>5. Safe /\ StageFacts /\ StageFacts' /\ [Next]_vars => [Promise!Next]_(Promise!promiseVars)
  BY PromiseStep
<1> QED
  BY <1>1, <1>2, <1>3, <1>4, <1>5, PTL DEF Spec, PromiseKept, Promise!Spec

-----------------------------------------------------------------------------
(* What a fill booked for row r does to the totals of the two sides: that  *)
(* of its own side grows by the quantity, the other stays.                 *)
LEMMA SideChange ==
    ASSUME NEW f \in [Rows -> Nat], NEW r \in Rows, f[r] = 0, NEW q \in Nat,
           NEW g \in [Rows -> Nat], g[r] = q, \A x \in Rows : x # r => g[x] = f[x],
           NEW S \in SUBSET Rows
    PROVE  /\ SumFunctionOnSet(f, S) \in Nat
           /\ SumFunctionOnSet(g, S) =
                 IF r \in S THEN SumFunctionOnSet(f, S) + q ELSE SumFunctionOnSet(f, S)
<1>1. IsFiniteSet(S) /\ \A x \in S : f[x] \in Nat
  BY ConstantsAssumption, FS_Subset
<1>2. SumFunctionOnSet(f, S) \in Nat
  BY <1>1, SumPart
<1>3. CASE r \in S
  <2>1. SumFunctionOnSet(g, S) = SumFunctionOnSet(f, S) - f[r] + g[r]
    BY <1>1, <1>3, SumChange
  <2> QED
    BY <1>2, <1>3, <2>1
<1>4. CASE r \notin S
  BY <1>1, <1>2, <1>4, SumSame
<1> QED
  BY <1>2, <1>3, <1>4

LEMMA BookedChange ==
    ASSUME Typed, NEW r \in Rows, fills[r] = 0, NEW q \in Nat, fills' = [fills EXCEPT ![r] = q],
           NEW side
    PROVE  /\ Booked(side) \in Nat
           /\ Booked(side)' = IF Side[r] = side THEN Booked(side) + q ELSE Booked(side)
<1> DEFINE S == {x \in Rows : Side[x] = side}
<1>1. /\ fills \in [Rows -> Nat] /\ fills' \in [Rows -> Nat]
      /\ fills'[r] = q /\ \A x \in Rows : x # r => fills'[x] = fills[x]
  BY DEF Typed, TypeOK
<1>2. Booked(side) = SumFunctionOnSet(fills, S) /\ Booked(side)' = SumFunctionOnSet(fills', S)
  BY DEF Booked
<1>3. r \in S <=> Side[r] = side
  OBVIOUS
<1>4. S \in SUBSET Rows
  OBVIOUS
<1> HIDE DEF S
<1>5. /\ SumFunctionOnSet(fills, S) \in Nat
      /\ SumFunctionOnSet(fills', S) =
            IF r \in S THEN SumFunctionOnSet(fills, S) + q ELSE SumFunctionOnSet(fills, S)
  <2>1. ASSUME NEW f, f = fills, NEW g, g = fills'
        PROVE  /\ SumFunctionOnSet(f, S) \in Nat
               /\ SumFunctionOnSet(g, S) =
                    IF r \in S THEN SumFunctionOnSet(f, S) + q ELSE SumFunctionOnSet(f, S)
    <3>1. /\ f \in [Rows -> Nat] /\ g \in [Rows -> Nat]
          /\ f[r] = 0 /\ g[r] = q /\ \A x \in Rows : x # r => g[x] = f[x]
      BY <1>1, <2>1
    <3> QED
      BY <1>4, <3>1, SideChange
  <2> QED
    BY <2>1
<1> QED
  BY <1>2, <1>3, <1>5

LEMMA PositionStep == Typed /\ PositionMatchesFills /\ [Next]_vars => PositionMatchesFills'
<1> SUFFICES ASSUME Typed, PositionMatchesFills, [Next]_vars PROVE PositionMatchesFills'
  OBVIOUS
<1>1. CASE UNCHANGED ledgerVars
  BY <1>1 DEF ledgerVars, PositionMatchesFills, Booked
<1>2. ASSUME NEW h \in Handlers, SyncBook(h), ~ UNCHANGED ledgerVars PROVE PositionMatchesFills'
  <2> DEFINE r == job[h].row
             q == job[h].recon.dealt
  <2>1. /\ r \in Rows /\ q \in Nat /\ fills[r] = 0
        /\ fills' = [fills EXCEPT ![r] = q] /\ position' = PositionAfter(r, position, q)
    BY <1>2 DEF SyncBook, InsertAllowed, Typed, TypeOK, HandlersOK, Job, Reconciliation
  <2>2. \A side \in {"BUY", "SELL"} :
          /\ Booked(side) \in Nat
          /\ Booked(side)' = IF Side[r] = side THEN Booked(side) + q ELSE Booked(side)
    <3> HIDE DEF r, q
    <3> QED
      BY <2>1, BookedChange
  <2>3. position \in Nat /\ Opening \in Nat /\ Side[r] \in {"BUY", "SELL"}
    BY <2>1, ConstantsAssumption DEF Typed, TypeOK
  <2> HIDE DEF r, q
  <2> QED
    BY <2>1, <2>2, <2>3 DEF PositionAfter, PositionMatchesFills
<1> QED
  BY <1>1, <1>2, LedgerStep

LEMMA BookedType == ASSUME Typed, NEW side PROVE Booked(side) \in Nat
<1> DEFINE S == {x \in Rows : Side[x] = side}
<1>1. IsFiniteSet(S) /\ \A x \in S : fills[x] \in Nat
  BY ConstantsAssumption, FS_Subset DEF Typed, TypeOK
<1>2. SumFunctionOnSet(fills, S) \in Nat
  <2> HIDE DEF S
  <2> QED
    BY <1>1, SumPart
<1> QED
  BY <1>2 DEF Booked

LEMMA NothingBooked == ASSUME Init, NEW side PROVE Booked(side) = 0
<1> DEFINE S == {x \in Rows : Side[x] = side}
<1>1. IsFiniteSet(S) /\ \A x \in S : fills[x] = 0
  BY ConstantsAssumption, FS_Subset DEF Init
<1>2. SumFunctionOnSet(fills, S) = 0
  <2> HIDE DEF S
  <2> QED
    BY <1>1, SumZero
<1> QED
  BY <1>2 DEF Booked

(* The fills account for the position, whichever requests book them and in  *)
(* whatever order: UNIQUE(queue_id) lets each row move it once, and only the *)
(* clamp of a sale leaves more shares than the fills do.                    *)
THEOREM PositionFollows == Spec => []PositionMatchesFills
<1>1. Init => PositionMatchesFills
  <2> SUFFICES ASSUME Init PROVE PositionMatchesFills
    OBVIOUS
  <2>1. Booked("BUY") = 0 /\ Booked("SELL") = 0
    BY NothingBooked
  <2>2. position = Opening /\ Opening \in Nat
    BY ConstantsAssumption DEF Init
  <2> QED
    BY <2>1, <2>2 DEF PositionMatchesFills
<1> QED
  BY InitTyped, StepTyped, PositionStep, <1>1, PTL DEF Spec

-----------------------------------------------------------------------------
(* What lets a sale of more than is held be booked is only that requests   *)
(* overlap: one at a time, the position that SyncCheck has compared with   *)
(* the sale is the one SyncBook takes it from, and the clamp never acts.   *)
OneRequestAtATime == \A g, h \in Handlers : g = h

LedgerExact ==
    /\ position = Opening + Booked("BUY") - Booked("SELL")
    /\ \A h \in Handlers : pc[h] = "book" /\ Side[job[h].row] = "SELL" =>
           job[h].recon.dealt <= position

(* A handler comes to book only through its check. *)
LEMMA BookArrival ==
    ASSUME Typed, [Next]_vars, NEW h \in Handlers, pc'[h] = "book"
    PROVE  \/ SyncCheck(h) /\ Bookable(h) /\ job'[h] = job[h]
           \/ pc[h] = "book" /\ job'[h] = job[h]
<1> USE DEF Goto, Return, Typed, TypeOK
<1>1. CASE SyncCheck(h)
  BY <1>1 DEF SyncCheck
<1>2. CASE Execute(h)
  BY <1>2 DEF Execute, ExecutePasses, ExecuteFails, BrokerNotReady, Probe, SendAccepted,
              SendUnparsed, SendLost, SendRefused, Refuse, KeepRead, KeepWrite
<1>3. CASE Reconcile(h) /\ ~SyncCheck(h)
  BY <1>3 DEF Reconcile, ReconcileLoad, ReconcileAnswer, ReconcileNoId, ReconcileError,
              NoteRead, NoteWrite, SyncLoad, SyncBook
<1>4. CASE Crash(h)
  BY <1>4 DEF Crash
<1> QED
  BY <1>1, <1>2, <1>3, <1>4, OthersWait

LEMMA LedgerExactStep ==
    ASSUME OneRequestAtATime, Typed, LedgerExact, [Next]_vars
    PROVE  LedgerExact'
<1>1. CASE UNCHANGED ledgerVars
  <2>1. ASSUME NEW h \in Handlers, pc'[h] = "book", Side[job'[h].row] = "SELL"
        PROVE  job'[h].recon.dealt <= position'
    <3>1. position' = position
      BY <1>1 DEF ledgerVars
    <3>2. CASE SyncCheck(h) /\ Bookable(h) /\ job'[h] = job[h]
      BY <2>1, <3>1, <3>2 DEF Bookable
    <3>3. CASE pc[h] = "book" /\ job'[h] = job[h]
      BY <2>1, <3>1, <3>3 DEF LedgerExact
    <3> QED
      BY <2>1, <3>2, <3>3, BookArrival
  <2>2. position' = position /\ Booked("BUY")' = Booked("BUY") /\ Booked("SELL")' = Booked("SELL")
    BY <1>1 DEF ledgerVars, Booked
  <2> QED
    BY <2>1, <2>2 DEF LedgerExact
<1>2. ASSUME NEW h \in Handlers, SyncBook(h), ~ UNCHANGED ledgerVars PROVE LedgerExact'
  <2> DEFINE r == job[h].row
             q == job[h].recon.dealt
  <2>1. /\ r \in Rows /\ q \in Nat /\ fills[r] = 0
        /\ fills' = [fills EXCEPT ![r] = q] /\ position' = PositionAfter(r, position, q)
        /\ Side[r] = "SELL" => q <= position
    BY <1>2 DEF SyncBook, InsertAllowed, Typed, TypeOK, HandlersOK, Job, Reconciliation, LedgerExact
  <2>2. \A g \in Handlers : pc'[g] = "idle"
    BY <1>2 DEF SyncBook, Return, Goto, OneRequestAtATime, Typed, TypeOK
  <2>3. \A side \in {"BUY", "SELL"} :
          /\ Booked(side) \in Nat
          /\ Booked(side)' = IF Side[r] = side THEN Booked(side) + q ELSE Booked(side)
    <3> HIDE DEF r, q
    <3> QED
      BY <2>1, BookedChange
  <2>4. position \in Nat /\ Opening \in Nat /\ Side[r] \in {"BUY", "SELL"}
    BY <2>1, ConstantsAssumption DEF Typed, TypeOK
  <2> HIDE DEF r, q
  <2>5. position' = Opening + Booked("BUY")' - Booked("SELL")'
    BY <2>1, <2>3, <2>4 DEF PositionAfter, LedgerExact
  <2> QED
    BY <2>2, <2>5 DEF LedgerExact
<1> QED
  BY <1>1, <1>2, LedgerStep

(* Requests that do not overlap never sell what the ledger does not hold,  *)
(* wherever they die and however late the broker's answers are: the refusal*)
(* INVALID_SELL_FILL then covers every sale.                               *)
THEOREM CoveredAlone == OneRequestAtATime => (Spec => []SalesAreCovered)
<1> SUFFICES ASSUME OneRequestAtATime PROVE Spec => []SalesAreCovered
  OBVIOUS
<1>1. Init => LedgerExact
  <2> SUFFICES ASSUME Init PROVE LedgerExact
    OBVIOUS
  <2>1. Booked("BUY") = 0 /\ Booked("SELL") = 0
    BY NothingBooked
  <2> QED
    BY <2>1, ConstantsAssumption DEF Init, LedgerExact
<1>2. Typed /\ LedgerExact /\ [Next]_vars => LedgerExact'
  BY LedgerExactStep
<1>3. Typed /\ LedgerExact => SalesAreCovered
  <2> SUFFICES ASSUME Typed, LedgerExact PROVE SalesAreCovered
    OBVIOUS
  <2>1. \A side \in {"BUY", "SELL"} : Booked(side) \in Nat
    BY BookedType
  <2> QED
    BY <2>1, ConstantsAssumption DEF LedgerExact, SalesAreCovered, Typed, TypeOK
<1> QED
  BY InitTyped, StepTyped, <1>1, <1>2, <1>3, PTL DEF Spec

=============================================================================
