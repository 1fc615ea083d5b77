------------------------- MODULE ScPublicationsProofs -------------------------
(***************************************************************************)
(* What the publication store keeps, for any number of publications,       *)
(* tickers, operators and requests.                                        *)
(***************************************************************************)
EXTENDS ScPublications, FiniteSetTheorems, TLAPS

Flags(r) == r.approved_at \/ r.rejected_at \/ r.activated_at \/ r.deactivated_at

(* What has been written about a publication justifies what follows it. *)
Lifecycle ==
    \A p \in Publications :
        /\ ~Stored(p) => sc_security_status[p] = NoRows /\ ~Flags(sc_publications[p])
        /\ Status(p) = "approved" => sc_publications[p].approved_at
        /\ sc_publications[p].deactivated_at => sc_publications[p].activated_at
        /\ sc_publications[p].activated_at =>
             /\ sc_publications[p].approved_at /\ sc_publications[p].counts_reconcile
             /\ RowsReconcile(p)

(* What a command has established before each of its steps, and nobody     *)
(* else can undo.                                                          *)
Knows(o) ==
    LET p == job[o].pub IN
    /\ pc[o] # "idle" => p \in Publications
    /\ pc[o] = "insert" => ~Flags(job[o].staged)
                           /\ job[o].staged.human_review_status \notin {"NONE", "approved"}
    /\ pc[o] \in {"fill", "rows"} \cup Commands => Stored(p)
    /\ pc[o] = "fill" => sc_security_status[p] = NoRows
    /\ pc[o] \in {"rows", "activate"} =>
         sc_publications[p].approved_at /\ sc_publications[p].counts_reconcile
    /\ pc[o] = "activate" => RowsReconcile(p)
    /\ pc[o] = "deactivate" => sc_publications[p].activated_at

JobsOK == \A o \in Operators : Knows(o)

(* One command inserts the rows of a publication: the one that inserted it. *)
OneFiller ==
    \A o, x \in Operators :
        pc[o] = "fill" /\ pc[x] = "fill" /\ job[o].pub = job[x].pub => o = x

AnswersOK ==
    \A r \in Requests : LET a == answer[r] IN
        a.verdict \in {"READING", "PASS", "REJECT"} =>
            /\ a.pub \in Publications /\ a.ticker \in Tickers
            /\ sc_publications[a.pub].activated_at
            /\ a.verdict = "PASS" => sc_security_status[a.pub][a.ticker] = "COMPLIANT"
            /\ a.verdict = "REJECT" => sc_security_status[a.pub][a.ticker] = "NON_COMPLIANT"

Inv == TypeOK /\ Lifecycle /\ OneActive /\ JobsOK /\ OneFiller /\ AnswersOK

LEMMA Constants ==
    /\ NoPublication \in Publication /\ NoRows \in Listings /\ NoJob \in Job
    /\ NoAnswer \in Answer /\ ~Flags(NoPublication)
  BY DEF NoPublication, Publication, NoRows, Listings, Rulings, NoJob, Job, NoAnswer, Answer,
     Verdicts, Reviews, Flags

LEMMA ParsedTyped ==
    ASSUME NEW review \in {"pending", "needs_reconciliation"}, NEW counts \in BOOLEAN,
           NEW listing \in Listings, NEW repeated \in {0, 1}
    PROVE  LET staged == Parsed(review, counts, Cardinality(Listed(listing)) + repeated) IN
           /\ staged \in Publication /\ ~Flags(staged)
           /\ staged.human_review_status = review
<1>1. Cardinality(Listed(listing)) \in Nat
  <2>1. IsFiniteSet(Tickers) /\ Listed(listing) \subseteq Tickers
    BY ScAssumption DEF ScAssumption, Listed
  <2>2. IsFiniteSet(Listed(listing))
    BY <2>1, FS_Subset
  <2> QED
    BY <2>2, FS_CardinalityType
<1>2. Cardinality(Listed(listing)) + repeated \in Nat
  BY <1>1
<1> QED
  BY <1>2 DEF Parsed, NoPublication, Publication, Reviews, Flags

THEOREM InitInv == Init => Inv
<1> SUFFICES ASSUME Init PROVE Inv
  OBVIOUS
<1>1. TypeOK
  BY Constants, ScAssumption DEF ScAssumption, Init, TypeOK, Steps
<1>2. Lifecycle /\ OneActive
  BY DEF Init, Lifecycle, OneActive, InPlace, Stored, Status, NoPublication, Flags
<1>3. JobsOK /\ OneFiller /\ AnswersOK
  BY DEF Init, JobsOK, Knows, OneFiller, AnswersOK, NoAnswer, Commands
<1> QED
  BY <1>1, <1>2, <1>3 DEF Inv

-----------------------------------------------------------------------------
(* Steps that leave the tables alone. *)

(* A command that moves on to a step whose conditions it has established.  *)
LEMMA MoveStep ==
    ASSUME Inv, NEW o \in Operators, NEW s \in Steps \ {"fill"}, NEW j \in Job, Goto(o, s, j),
           UNCHANGED <<tables, answer>>, faults' \in 0..FaultBudget, Knows(o)'
    PROVE  Inv'
<1>1. /\ pc' = [pc EXCEPT ![o] = s] /\ job' = [job EXCEPT ![o] = j]
      /\ pc \in [Operators -> Steps] /\ job \in [Operators -> Job]
  BY DEF Goto, Inv, TypeOK
<1>2. TypeOK'
  BY <1>1 DEF Inv, TypeOK, tables
<1>3. Lifecycle' /\ OneActive' /\ AnswersOK'
  BY DEF Inv, Lifecycle, OneActive, AnswersOK, tables, InPlace, Stored, Status, RowsReconcile
<1>4. \A x \in Operators : x # o => pc'[x] = pc[x] /\ job'[x] = job[x]
  BY <1>1
<1>5. JobsOK'
  BY <1>4 DEF Inv, JobsOK, Knows, tables, Stored, Status, RowsReconcile
<1>6. OneFiller'
  BY <1>1, <1>4 DEF Inv, OneFiller
<1> QED
  BY <1>2, <1>3, <1>5, <1>6 DEF Inv

LEMMA ReturnStep ==
    ASSUME Inv, NEW o \in Operators, Return(o), UNCHANGED <<tables, answer>>,
           faults' \in 0..FaultBudget
    PROVE  Inv'
<1>1. Goto(o, "idle", NoJob)
  BY DEF Return
<1>2. pc'[o] = "idle"
  BY <1>1 DEF Goto, Inv, TypeOK
<1>3. Knows(o)'
  BY <1>2 DEF Knows, Commands
<1> QED
  BY <1>1, <1>3, MoveStep, Constants DEF Steps

LEMMA ReplyStep ==
    ASSUME Inv, NEW r \in Requests, NEW a \in Answer, Reply(r, a),
           a.verdict \in {"READING", "PASS", "REJECT"} =>
               /\ a.pub \in Publications /\ a.ticker \in Tickers
               /\ sc_publications[a.pub].activated_at
               /\ a.verdict = "PASS" => sc_security_status[a.pub][a.ticker] = "COMPLIANT"
               /\ a.verdict = "REJECT" => sc_security_status[a.pub][a.ticker] = "NON_COMPLIANT"
    PROVE  Inv'
<1>1. TypeOK'
  BY DEF Inv, TypeOK, Reply, tables
<1>2. Lifecycle' /\ OneActive'
  BY DEF Inv, Lifecycle, OneActive, Reply, tables, InPlace, Stored, Status, RowsReconcile
<1>3. JobsOK' /\ OneFiller'
  BY DEF Inv, JobsOK, Knows, OneFiller, Reply, tables, Stored, Status, RowsReconcile
<1>4. AnswersOK'
  BY DEF Inv, TypeOK, AnswersOK, Reply, tables
<1> QED
  BY <1>1, <1>2, <1>3, <1>4 DEF Inv

-----------------------------------------------------------------------------
(* A command that writes flags of publications that are stored: it returns, *)
(* keeps the counts and the rows, takes back no approval and no activation, *)
(* and leaves one publication in place.                                    *)
Keeps(r, s) ==
    /\ s.counts_reconcile = r.counts_reconcile /\ s.expected_rows = r.expected_rows
    /\ r.approved_at => s.approved_at
    /\ r.activated_at => s.activated_at
    /\ r.human_review_status # "NONE" => s.human_review_status # "NONE"

LEMMA WriteStep ==
    ASSUME Inv, NEW o \in Operators, Return(o),
           UNCHANGED <<sc_security_status, answer, faults>>,
           sc_publications' \in [Publications -> Publication],
           \A p \in Publications : Keeps(sc_publications[p], sc_publications'[p]),
           Lifecycle', OneActive'
    PROVE  Inv'
<1>1. /\ pc' = [pc EXCEPT ![o] = "idle"] /\ job' = [job EXCEPT ![o] = NoJob]
      /\ pc \in [Operators -> Steps] /\ job \in [Operators -> Job]
  BY DEF Return, Goto, Inv, TypeOK
<1>2. TypeOK'
  BY <1>1, Constants DEF Inv, TypeOK, Steps
<1>3. \A x \in Operators : x # o => pc'[x] = pc[x] /\ job'[x] = job[x]
  BY <1>1
<1>4. \A p \in Publications : Stored(p) => Stored(p)'
  BY DEF Keeps, Stored, Status
<1>5. \A p \in Publications : RowsReconcile(p) => RowsReconcile(p)'
  BY DEF Keeps, RowsReconcile
<1>6. ASSUME NEW x \in Operators PROVE Knows(x)'
  <2>1. CASE x = o
    BY <1>1, <2>1 DEF Knows, Commands
  <2>2. CASE x # o
    BY <1>3, <1>4, <1>5, <2>2 DEF Inv, JobsOK, Knows, Keeps, Commands
  <2> QED
    BY <2>1, <2>2
<1>7. OneFiller'
  BY <1>1, <1>3 DEF Inv, OneFiller
<1>8. AnswersOK'
  BY DEF Inv, AnswersOK, Keeps
<1> QED
  BY <1>2, <1>6, <1>7, <1>8 DEF Inv, JobsOK

-----------------------------------------------------------------------------
(* Ingestion. *)

LEMMA IngestSteps ==
    ASSUME Inv, NEW o \in Operators, Ingest(o)
    PROVE  Inv'
<1>0. pc \in [Operators -> Steps] /\ job \in [Operators -> Job] /\ faults \in 0..FaultBudget
  BY DEF Inv, TypeOK
<1>1. ASSUME NEW p \in Publications, IngestCheck(o, p) PROVE Inv'
  <2>1. PICK review \in {"pending", "needs_reconciliation"}, counts \in BOOLEAN,
             listing \in Listings : \E repeated \in {0, 1} :
               Goto(o, "insert",
                    [pub |-> p, listing |-> listing,
                     staged |-> Parsed(review, counts, Cardinality(Listed(listing)) + repeated)])
    BY <1>1 DEF IngestCheck
  <2>2. PICK repeated \in {0, 1} :
          Goto(o, "insert",
               [pub |-> p, listing |-> listing,
                staged |-> Parsed(review, counts, Cardinality(Listed(listing)) + repeated)])
    BY <2>1
  <2> DEFINE staged == Parsed(review, counts, Cardinality(Listed(listing)) + repeated)
             j == [pub |-> p, listing |-> listing, staged |-> staged]
  <2>3. staged \in Publication /\ ~Flags(staged) /\ staged.human_review_status = review
    BY ParsedTyped
  <2> HIDE DEF staged
  <2>4. j \in Job
    BY <2>3 DEF Job
  <2>5. pc'[o] = "insert" /\ job'[o] = j
    BY <1>0, <2>2 DEF Goto, staged
  <2>6. Knows(o)'
    BY <2>3, <2>5 DEF Knows, Commands
  <2>7. Goto(o, "insert", j)
    BY <2>2 DEF staged
  <2> HIDE DEF j
  <2> QED
    BY <1>0, <1>1, <2>4, <2>6, <2>7, MoveStep DEF IngestCheck, Steps
<1>2. CASE IngestPublication(o)
  <2> DEFINE p == job[o].pub
  <2>0. p \in Publications /\ job[o].staged \in Publication
    BY <1>0, <1>2 DEF IngestPublication, Inv, JobsOK, Knows, Job
  <2>1. CASE Stored(p)
    BY <1>0, <1>2, <2>1, ReturnStep DEF IngestPublication, tables
  <2>2. CASE ~Stored(p)
    <3>1. /\ pc[o] = "insert"
          /\ sc_publications' = [sc_publications EXCEPT ![p] = job[o].staged]
          /\ pc' = [pc EXCEPT ![o] = "fill"] /\ job' = [job EXCEPT ![o] = job[o]]
          /\ UNCHANGED <<sc_security_status, answer, faults>>
      BY <1>2, <2>2 DEF IngestPublication, Goto
    <3>2. /\ sc_publications'[p] = job[o].staged
          /\ \A q \in Publications : q # p => sc_publications'[q] = sc_publications[q]
      BY <2>0, <3>1 DEF Inv, TypeOK
    <3>3. /\ pc'[o] = "fill" /\ job'[o] = job[o]
          /\ \A x \in Operators : x # o => pc'[x] = pc[x] /\ job'[x] = job[x]
      BY <1>0, <3>1
    <3>4. /\ ~Flags(job[o].staged) /\ job[o].staged.human_review_status \notin {"NONE", "approved"}
      BY <3>1 DEF Inv, JobsOK, Knows
    <3>5. sc_security_status[p] = NoRows /\ ~Flags(sc_publications[p])
      BY <2>0, <2>2 DEF Inv, Lifecycle
    <3>6. TypeOK'
      BY <2>0, <3>1 DEF Inv, TypeOK, Steps
    <3>7. Lifecycle'
      BY <3>1, <3>2, <3>4 DEF Inv, Lifecycle, Stored, Status, Flags, RowsReconcile
    <3>8. OneActive'
      BY <3>2, <3>4 DEF Inv, OneActive, InPlace, Flags
    <3>9. \A x \in Operators : x # o => Knows(x)'
      <4> SUFFICES ASSUME NEW x \in Operators, x # o PROVE Knows(x)'
        OBVIOUS
      <4>1. CASE job[x].pub # p
        BY <3>1, <3>2, <3>3, <4>1
        DEF Inv, JobsOK, Knows, Commands, Stored, Status, RowsReconcile
      <4>2. CASE job[x].pub = p
        <5>1. pc[x] \notin {"fill", "rows"} \cup Commands
          BY <2>2, <4>2 DEF Inv, JobsOK, Knows
        <5> QED
          BY <3>3, <4>2, <5>1 DEF Inv, JobsOK, Knows, Commands
      <4> QED
        BY <4>1, <4>2
    <3>10. Knows(o)'
      BY <2>0, <3>1, <3>2, <3>3, <3>4, <3>5 DEF Knows, Commands, Stored, Status
    <3>11. \A x \in Operators : pc[x] = "fill" => job[x].pub # p
      BY <2>2 DEF Inv, JobsOK, Knows
    <3>12. OneFiller'
      BY <3>3, <3>11 DEF Inv, OneFiller
    <3>13. AnswersOK'
      BY <3>1, <3>2, <3>5 DEF Inv, AnswersOK, Flags
    <3> QED
      BY <3>6, <3>7, <3>8, <3>9, <3>10, <3>12, <3>13 DEF Inv, JobsOK
  <2> QED
    BY <2>1, <2>2
<1>3. CASE IngestRows(o)
  <2> DEFINE p == job[o].pub
  <2>1. /\ pc[o] = "fill" /\ UNCHANGED <<sc_publications, answer, faults>>
        /\ sc_security_status' = [sc_security_status EXCEPT ![p] = job[o].listing]
        /\ pc' = [pc EXCEPT ![o] = "idle"] /\ job' = [job EXCEPT ![o] = NoJob]
    BY <1>3 DEF IngestRows, Return, Goto
  <2>2. p \in Publications /\ Stored(p) /\ sc_security_status[p] = NoRows
    BY <2>1 DEF Inv, JobsOK, Knows
  <2>3. ~RowsReconcile(p) /\ ~sc_publications[p].activated_at
    BY <2>2 DEF RowsReconcile, Inv, Lifecycle
  <2>4. \A q \in Publications : q # p => sc_security_status'[q] = sc_security_status[q]
    BY <2>1 DEF Inv, TypeOK
  <2>5. /\ pc'[o] = "idle"
        /\ \A x \in Operators : x # o => pc'[x] = pc[x] /\ job'[x] = job[x]
    BY <1>0, <2>1
  <2>6. TypeOK'
    BY <1>0, <2>1, <2>2, Constants DEF Inv, TypeOK, Steps, Job
  <2>7. Lifecycle' /\ OneActive'
    BY <2>1, <2>2, <2>3, <2>4
    DEF Inv, Lifecycle, OneActive, InPlace, Stored, Status, RowsReconcile
  <2>8. \A x \in Operators : x # o => Knows(x)'
    <3> SUFFICES ASSUME NEW x \in Operators, x # o PROVE Knows(x)'
      OBVIOUS
    <3>1. CASE job[x].pub # p
      BY <2>1, <2>4, <2>5, <3>1 DEF Inv, JobsOK, Knows, Commands, Stored, Status, RowsReconcile
    <3>2. CASE job[x].pub = p
      <4>1. pc[x] # "fill" /\ pc[x] # "activate"
        BY <2>1, <2>3, <3>2 DEF Inv, OneFiller, JobsOK, Knows
      <4> QED
        BY <2>1, <2>5, <3>2, <4>1 DEF Inv, JobsOK, Knows, Commands, Stored, Status
    <3> QED
      BY <3>1, <3>2
  <2>9. Knows(o)'
    BY <2>5 DEF Knows, Commands
  <2>10. OneFiller'
    BY <2>5 DEF Inv, OneFiller
  <2>11. AnswersOK'
    BY <2>1, <2>3, <2>4 DEF Inv, AnswersOK
  <2> QED
    BY <2>6, <2>7, <2>8, <2>9, <2>10, <2>11 DEF Inv, JobsOK
<1> QED
  BY <1>1, <1>2, <1>3 DEF Ingest

-----------------------------------------------------------------------------
(* Review commands. *)

LEMMA LoadSteps ==
    ASSUME Inv, NEW o \in Operators, NEW p \in Publications,
           ApproveLoad(o, p) \/ RejectLoad(o, p) \/ ActivateLoad(o, p) \/ DeactivateLoad(o, p)
    PROVE  Inv'
<1> DEFINE j == [NoJob EXCEPT !.pub = p]
<1>0. /\ pc \in [Operators -> Steps] /\ job \in [Operators -> Job] /\ faults \in 0..FaultBudget
      /\ j \in Job /\ j.pub = p
  BY DEF Inv, TypeOK, NoJob, Job, Constants, NoPublication, Publication, NoRows, Listings,
     Rulings, Reviews
<1>1. PICK s \in {"approve", "reject", "rows", "deactivate"} :
        /\ Goto(o, s, j) /\ Stored(p) /\ UNCHANGED <<tables, answer, faults>>
        /\ s = "rows" => sc_publications[p].approved_at /\ sc_publications[p].counts_reconcile
        /\ s = "deactivate" => sc_publications[p].activated_at
  <2>1. CASE ApproveLoad(o, p)
    BY <2>1 DEF ApproveLoad, Begin, Stored
  <2>2. CASE RejectLoad(o, p)
    BY <2>2 DEF RejectLoad, Begin
  <2>3. CASE ActivateLoad(o, p)
    BY <2>3 DEF ActivateLoad, Activatable, Begin, Stored, Inv, Lifecycle
  <2>4. CASE DeactivateLoad(o, p)
    <3>1. Stored(p) /\ sc_publications[p].activated_at
      BY <2>4 DEF DeactivateLoad, InPlace, Inv, Lifecycle, Flags
    <3> QED
      BY <2>4, <3>1 DEF DeactivateLoad, Begin
  <2> QED
    BY <2>1, <2>2, <2>3, <2>4
<1>2. pc'[o] = s /\ job'[o] = j
  BY <1>0, <1>1 DEF Goto
<1> HIDE DEF j
<1>3. Knows(o)'
  BY <1>0, <1>1, <1>2 DEF Knows, Commands, tables, Stored, Status
<1>4. s \in Steps \ {"fill"}
  BY DEF Steps, Commands
<1> QED
  BY <1>0, <1>1, <1>3, <1>4, MoveStep

LEMMA CheckStep ==
    ASSUME Inv, NEW o \in Operators, ActivateCheck(o)
    PROVE  Inv'
<1> DEFINE p == job[o].pub
<1>0. pc \in [Operators -> Steps] /\ job \in [Operators -> Job] /\ faults \in 0..FaultBudget
  BY DEF Inv, TypeOK
<1>1. CASE RowsReconcile(p)
  <2>1. /\ pc[o] = "rows" /\ Goto(o, "activate", job[o]) /\ UNCHANGED <<tables, answer, faults>>
    BY <1>1 DEF ActivateCheck
  <2>2. pc'[o] = "activate" /\ job'[o] = job[o]
    BY <1>0, <2>1 DEF Goto
  <2>3. Knows(o)'
    BY <1>1, <2>1, <2>2
    DEF Inv, JobsOK, Knows, Commands, tables, Stored, Status, RowsReconcile
  <2> QED
    BY <1>0, <2>1, <2>3, MoveStep DEF Steps, Commands
<1>2. CASE ~RowsReconcile(p)
  BY <1>0, <1>2, ReturnStep DEF ActivateCheck
<1> QED
  BY <1>1, <1>2

LEMMA RecordSteps ==
    ASSUME Inv, NEW o \in Operators, ApproveWrite(o) \/ RejectWrite(o) \/ DeactivateWrite(o)
    PROVE  Inv'
<1> DEFINE p == job[o].pub
           r == sc_publications[p]
<1>0. /\ p \in Publications /\ Stored(p) /\ r \in Publication
      /\ pc[o] = "deactivate" => r.activated_at
  BY DEF ApproveWrite, RejectWrite, DeactivateWrite, Inv, TypeOK, JobsOK, Knows, Commands
<1>1. PICK s \in Publication :
        /\ Write(o, s) /\ Keeps(r, s) /\ s.human_review_status # "NONE"
        /\ s.human_review_status = "approved" => s.approved_at
        /\ s.activated_at = r.activated_at
        /\ s.deactivated_at => r.deactivated_at \/ r.activated_at
        /\ r.deactivated_at => s.deactivated_at
  <2>1. CASE ApproveWrite(o)
    <3> DEFINE s == [r EXCEPT !.human_review_status = "approved", !.approved_at = TRUE]
    <3>1. /\ s \in Publication /\ Keeps(r, s) /\ s.human_review_status = "approved" /\ s.approved_at
          /\ s.activated_at = r.activated_at /\ s.deactivated_at = r.deactivated_at
      BY <1>0 DEF Publication, Keeps, Reviews
    <3> QED
      BY <2>1, <3>1 DEF ApproveWrite
  <2>2. CASE RejectWrite(o)
    <3> DEFINE s == [r EXCEPT !.human_review_status = "rejected", !.rejected_at = TRUE]
    <3>1. /\ s \in Publication /\ Keeps(r, s) /\ s.human_review_status = "rejected"
          /\ s.activated_at = r.activated_at /\ s.deactivated_at = r.deactivated_at
      BY <1>0 DEF Publication, Keeps, Reviews
    <3> QED
      BY <2>2, <3>1 DEF RejectWrite
  <2>3. CASE DeactivateWrite(o)
    <3> DEFINE s == [r EXCEPT !.deactivated_at = TRUE]
    <3>1. /\ s \in Publication /\ Keeps(r, s) /\ s.activated_at = r.activated_at
          /\ s.human_review_status = r.human_review_status /\ s.approved_at = r.approved_at
          /\ s.deactivated_at
      BY <1>0 DEF Publication, Keeps
    <3>2. r.human_review_status # "NONE" /\ (r.human_review_status = "approved" => r.approved_at)
      BY <1>0 DEF Stored, Status, Inv, Lifecycle
    <3>3. r.activated_at
      BY <1>0, <2>3 DEF DeactivateWrite
    <3> QED
      BY <2>3, <3>1, <3>2, <3>3 DEF DeactivateWrite
  <2> QED
    BY <2>1, <2>2, <2>3
<1>2. /\ sc_publications' = [sc_publications EXCEPT ![p] = s] /\ Return(o)
      /\ UNCHANGED <<sc_security_status, answer, faults>>
  BY <1>1 DEF Write
<1>3. /\ sc_publications' \in [Publications -> Publication] /\ sc_publications'[p] = s
      /\ \A q \in Publications : q # p => sc_publications'[q] = sc_publications[q]
  BY <1>0, <1>2 DEF Inv, TypeOK
<1> HIDE DEF r
<1>4. \A q \in Publications : Keeps(sc_publications[q], sc_publications'[q])
  BY <1>1, <1>3 DEF Keeps, r
<1>5. Lifecycle'
  <2> SUFFICES ASSUME NEW q \in Publications
               PROVE  /\ ~Stored(q)' => sc_security_status'[q] = NoRows /\ ~Flags(sc_publications'[q])
                      /\ Status(q)' = "approved" => sc_publications'[q].approved_at
                      /\ sc_publications'[q].deactivated_at => sc_publications'[q].activated_at
                      /\ sc_publications'[q].activated_at =>
                           /\ sc_publications'[q].approved_at /\ sc_publications'[q].counts_reconcile
                           /\ RowsReconcile(q)'
    BY DEF Lifecycle
  <2>1. RowsReconcile(q) => RowsReconcile(q)'
    BY <1>2, <1>4 DEF RowsReconcile, Keeps
  <2>2. CASE q # p
    <3>1. sc_publications'[q] = sc_publications[q]
      BY <1>3, <2>2
    <3>2. Stored(q)' = Stored(q) /\ Status(q)' = Status(q)
      BY <3>1 DEF Stored, Status
    <3> QED
      BY <1>2, <2>1, <3>1, <3>2 DEF Inv, Lifecycle
  <2>3. CASE q = p
    <3>1. sc_publications'[q] = s /\ r = sc_publications[q]
      BY <1>3, <2>3 DEF r
    <3>2. Stored(q)' /\ Status(q)' = s.human_review_status
      BY <1>1, <3>1 DEF Stored, Status
    <3>3. /\ r.activated_at => r.approved_at /\ r.counts_reconcile /\ RowsReconcile(q)
          /\ r.deactivated_at => r.activated_at
      BY <3>1 DEF Inv, Lifecycle
    <3> QED
      BY <1>1, <2>1, <3>1, <3>2, <3>3 DEF Keeps
  <2> QED
    BY <2>2, <2>3
<1>6. OneActive'
  BY <1>0, <1>1, <1>3 DEF Inv, OneActive, InPlace, r
<1> QED
  BY <1>2, <1>3, <1>4, <1>5, <1>6, WriteStep

LEMMA ActivateStep ==
    ASSUME Inv, NEW o \in Operators, ActivateWrite(o)
    PROVE  Inv'
<1> DEFINE p == job[o].pub
<1>0. /\ p \in Publications /\ Stored(p) /\ RowsReconcile(p)
      /\ sc_publications[p].approved_at /\ sc_publications[p].counts_reconcile
  BY DEF ActivateWrite, Inv, JobsOK, Knows, Commands
<1>1. /\ Return(o) /\ UNCHANGED <<sc_security_status, answer, faults>>
      /\ sc_publications' = [q \in Publications |->
           IF q = p THEN Activated(sc_publications[q])
           ELSE IF q \in Superseded(p) THEN [sc_publications[q] EXCEPT !.deactivated_at = TRUE]
           ELSE sc_publications[q]]
  BY DEF ActivateWrite
<1>2. ASSUME NEW q \in Publications
      PROVE  LET r == sc_publications[q]
                 s == sc_publications'[q] IN
             /\ s \in Publication /\ Keeps(r, s)
             /\ s.human_review_status = r.human_review_status /\ s.approved_at = r.approved_at
             /\ s.rejected_at = r.rejected_at
             /\ s.activated_at = (r.activated_at \/ q = p)
             /\ s.deactivated_at = (r.deactivated_at \/ (q # p /\ r.activated_at))
  <2> DEFINE r == sc_publications[q]
             s == sc_publications'[q]
  <2>0. r \in Publication
    BY DEF Inv, TypeOK
  <2>1. CASE q = p
    <3>1. s = [r EXCEPT !.activated_at = TRUE]
      BY <1>1, <2>1 DEF Activated
    <3> QED
      BY <2>0, <2>1, <3>1 DEF Publication, Keeps
  <2>2. CASE q \in Superseded(p)
    <3>1. /\ s = [r EXCEPT !.deactivated_at = TRUE] /\ q # p /\ r.activated_at
      BY <1>1, <2>2 DEF Superseded, InPlace
    <3> QED
      BY <2>0, <3>1 DEF Publication, Keeps
  <2>3. CASE q # p /\ q \notin Superseded(p)
    <3>1. s = r /\ (r.activated_at => r.deactivated_at)
      BY <1>1, <2>3 DEF Superseded, InPlace
    <3> QED
      BY <2>0, <2>3, <3>1 DEF Publication, Keeps
  <2> QED
    BY <2>1, <2>2, <2>3
<1>3. sc_publications' \in [Publications -> Publication]
  BY <1>1, <1>2
<1>4. Lifecycle'
  <2> SUFFICES ASSUME NEW q \in Publications
               PROVE  /\ ~Stored(q)' => sc_security_status'[q] = NoRows /\ ~Flags(sc_publications'[q])
                      /\ Status(q)' = "approved" => sc_publications'[q].approved_at
                      /\ sc_publications'[q].deactivated_at => sc_publications'[q].activated_at
                      /\ sc_publications'[q].activated_at =>
                           /\ sc_publications'[q].approved_at /\ sc_publications'[q].counts_reconcile
                           /\ RowsReconcile(q)'
    BY DEF Lifecycle
  <2>1. RowsReconcile(q) => RowsReconcile(q)'
    BY <1>1, <1>2 DEF RowsReconcile, Keeps
  <2>2. Stored(q)' = Stored(q) /\ Status(q)' = Status(q)
    BY <1>2 DEF Stored, Status
  <2>3. /\ ~Stored(q) => sc_security_status[q] = NoRows /\ ~Flags(sc_publications[q])
        /\ Status(q) = "approved" => sc_publications[q].approved_at
        /\ sc_publications[q].deactivated_at => sc_publications[q].activated_at
        /\ sc_publications[q].activated_at =>
             /\ sc_publications[q].approved_at /\ sc_publications[q].counts_reconcile
             /\ RowsReconcile(q)
    BY DEF Inv, Lifecycle
  <2>4. CASE q = p
    <3>1. Stored(q)'
      BY <1>0, <2>2, <2>4
    <3>2. /\ sc_publications'[q].approved_at /\ sc_publications'[q].counts_reconcile
          /\ sc_publications'[q].activated_at /\ RowsReconcile(q)'
      BY <1>0, <1>2, <2>1, <2>4 DEF Keeps
    <3> QED
      BY <3>1, <3>2
  <2>5. CASE q # p
    <3>1. /\ sc_publications'[q].activated_at => sc_publications[q].activated_at
          /\ sc_publications'[q].approved_at = sc_publications[q].approved_at
          /\ sc_publications'[q].counts_reconcile = sc_publications[q].counts_reconcile
      BY <1>2, <2>5 DEF Keeps
    <3>2. /\ sc_publications'[q].deactivated_at => sc_publications[q].activated_at
          /\ ~Flags(sc_publications[q]) => ~Flags(sc_publications'[q])
      BY <1>2, <2>3, <2>5 DEF Flags
    <3>3. /\ ~Stored(q)' => sc_security_status'[q] = NoRows /\ ~Flags(sc_publications'[q])
          /\ Status(q)' = "approved" => sc_publications'[q].approved_at
      BY <1>1, <2>2, <2>3, <3>1, <3>2
    <3>4. sc_publications'[q].deactivated_at => sc_publications'[q].activated_at
      BY <1>2, <2>5, <3>2 DEF Keeps
    <3>5. sc_publications'[q].activated_at =>
            /\ sc_publications'[q].approved_at /\ sc_publications'[q].counts_reconcile
            /\ RowsReconcile(q)'
      BY <2>1, <2>3, <3>1
    <3> QED
      BY <3>3, <3>4, <3>5
  <2> QED
    BY <2>4, <2>5
<1>5. OneActive'
  BY <1>2 DEF OneActive, InPlace
<1> QED
  BY <1>1, <1>2, <1>3, <1>4, <1>5, WriteStep

-----------------------------------------------------------------------------
(* Screening requests. *)

LEMMA ScreenStep ==
    ASSUME Inv, NEW r \in Requests, Screen(r)
    PROVE  Inv'
<1>0. answer \in [Requests -> Answer]
  BY DEF Inv, TypeOK
<1>1. ASSUME NEW t \in Tickers, SelectNothing(r, t) PROVE Inv'
  <2> DEFINE a == [verdict |-> "UNKNOWN", pub |-> None, ticker |-> t]
  <2>1. a \in Answer /\ a.verdict \notin {"READING", "PASS", "REJECT"} /\ Reply(r, a)
    BY <1>1 DEF SelectNothing, Answer, Verdicts
  <2> HIDE DEF a
  <2> QED
    BY <2>1, ReplyStep
<1>2. ASSUME NEW t \in Tickers, NEW p \in Publications, Select(r, t, p) PROVE Inv'
  <2> DEFINE a == [verdict |-> "READING", pub |-> p, ticker |-> t]
  <2>1. a \in Answer /\ a.verdict = "READING" /\ a.pub = p /\ a.ticker = t /\ Reply(r, a)
    BY <1>2 DEF Select, Answer, Verdicts
  <2>2. sc_publications[p].activated_at
    BY <1>2 DEF Select, Authoritative, InPlace
  <2> HIDE DEF a
  <2> QED
    BY <2>1, <2>2, ReplyStep
<1>3. CASE Lookup(r)
  <2> DEFINE ruling == sc_security_status[answer[r].pub][answer[r].ticker]
             a == [answer[r] EXCEPT !.verdict = VerdictOn(ruling)]
  <2>1. /\ answer[r].verdict = "READING" /\ Reply(r, a)
        /\ answer[r].pub \in Publications /\ answer[r].ticker \in Tickers
        /\ sc_publications[answer[r].pub].activated_at
    BY <1>3 DEF Lookup, Inv, AnswersOK
  <2>2. /\ VerdictOn(ruling) \in Verdicts
        /\ VerdictOn(ruling) = "PASS" => ruling = "COMPLIANT"
        /\ VerdictOn(ruling) = "REJECT" => ruling = "NON_COMPLIANT"
    BY DEF VerdictOn, Verdicts
  <2>3. a \in Answer /\ a.pub = answer[r].pub /\ a.ticker = answer[r].ticker
        /\ a.verdict = VerdictOn(ruling)
    BY <1>0, <2>2 DEF Answer
  <2>4. /\ a.verdict = "PASS" => sc_security_status[a.pub][a.ticker] = "COMPLIANT"
        /\ a.verdict = "REJECT" => sc_security_status[a.pub][a.ticker] = "NON_COMPLIANT"
    BY <2>2, <2>3
  <2>5. Reply(r, a) /\ sc_publications[a.pub].activated_at
        /\ a.pub \in Publications /\ a.ticker \in Tickers
    BY <2>1, <2>3
  <2> HIDE DEF a
  <2> QED
    BY <2>3, <2>4, <2>5, ReplyStep
<1> QED
  BY <1>1, <1>2, <1>3 DEF Screen

-----------------------------------------------------------------------------
(* The invariant is inductive. *)

LEMMA OperatorStep ==
    ASSUME Inv, NEW o \in Operators, Ingest(o) \/ Review(o) \/ Interrupt(o)
    PROVE  Inv'
<1>1. CASE Ingest(o)
  BY <1>1, IngestSteps
<1>2. CASE Review(o)
  BY <1>2, LoadSteps, CheckStep, RecordSteps, ActivateStep DEF Review
<1>3. CASE Interrupt(o)
  <2>1. Return(o) /\ UNCHANGED <<tables, answer>> /\ faults' = faults + 1 /\ faults < FaultBudget
    BY <1>3 DEF Interrupt
  <2>2. faults' \in 0..FaultBudget
    BY <2>1, ScAssumption DEF ScAssumption, Inv, TypeOK
  <2> QED
    BY <2>1, <2>2, ReturnStep
<1> QED
  BY <1>1, <1>2, <1>3

THEOREM StepInv == Inv /\ [Next]_vars => Inv'
<1> SUFFICES ASSUME Inv, [Next]_vars PROVE Inv'
  OBVIOUS
<1>1. ASSUME NEW o \in Operators, Ingest(o) \/ Review(o) \/ Interrupt(o) PROVE Inv'
  BY <1>1, OperatorStep
<1>2. ASSUME NEW r \in Requests, Screen(r) PROVE Inv'
  BY <1>2, ScreenStep
<1>3. CASE UNCHANGED vars
  <2>1. TypeOK' /\ Lifecycle' /\ OneActive'
    BY <1>3 DEF Inv, TypeOK, Lifecycle, OneActive, vars, tables, InPlace, Stored, Status,
       RowsReconcile
  <2>2. JobsOK' /\ OneFiller' /\ AnswersOK'
    BY <1>3 DEF Inv, JobsOK, Knows, OneFiller, AnswersOK, vars, tables, Stored, Status,
       RowsReconcile
  <2> QED
    BY <2>1, <2>2 DEF Inv
<1> QED
  BY <1>1, <1>2, <1>3 DEF Next

THEOREM Invariance == Spec => []Inv
<1> QED
  BY InitInv, StepInv, PTL DEF Spec

-----------------------------------------------------------------------------
(* Results. *)

(* Every table, command and request stays in its type. *)
THEOREM TypeCorrect == Spec => []TypeOK
<1>1. Inv => TypeOK
  BY DEF Inv
<1> QED
  BY <1>1, Invariance, PTL

(* Overlapping activations and deactivations leave at most one publication *)
(* in place.                                                               *)
THEOREM OneInPlace == Spec => []OneActive
<1>1. Inv => OneActive
  BY DEF Inv
<1> QED
  BY <1>1, Invariance, PTL

(* No publication is activated that was not approved, or whose counts or   *)
(* rows do not reconcile.                                                  *)
THEOREM Vetted == Spec => []ActivatedWasVetted
<1>1. Inv => ActivatedWasVetted
  BY DEF Inv, Lifecycle, ActivatedWasVetted
<1> QED
  BY <1>1, Invariance, PTL

(* A PASS or a REJECT is the ruling of an activated publication. *)
THEOREM Ruled == Spec => []AnswersAreRulings
<1>1. Inv => AnswersAreRulings
  BY DEF Inv, AnswersOK, AnswersAreRulings
<1> QED
  BY <1>1, Invariance, PTL

LEMMA StaysDeactivated ==
    ASSUME Inv, [Next]_vars, NEW p \in Publications, sc_publications[p].deactivated_at
    PROVE  sc_publications'[p].deactivated_at
<1>0. sc_publications \in [Publications -> Publication] /\ sc_publications[p] \in Publication
  BY DEF Inv, TypeOK
<1>1. ASSUME NEW o \in Operators, Ingest(o) PROVE sc_publications'[p].deactivated_at
  <2>1. Stored(p)
    BY DEF Inv, Lifecycle, Flags
  <2>2. CASE sc_publications' = sc_publications
    BY <2>2
  <2>3. CASE IngestPublication(o) /\ ~Stored(job[o].pub)
    <3>1. /\ job[o].pub # p
          /\ sc_publications' = [sc_publications EXCEPT ![job[o].pub] = job[o].staged]
      BY <2>1, <2>3 DEF IngestPublication
    <3> QED
      BY <1>0, <3>1
  <2> QED
    BY <1>1, <2>2, <2>3 DEF Ingest, IngestCheck, IngestPublication, IngestRows, tables
<1>2. ASSUME NEW o \in Operators, NEW s, Write(o, s),
             job[o].pub = p => s.deactivated_at
      PROVE  sc_publications'[p].deactivated_at
  <2>1. sc_publications' = [sc_publications EXCEPT ![job[o].pub] = s]
    BY <1>2 DEF Write
  <2> QED
    BY <1>0, <1>2, <2>1
<1>3. ASSUME NEW o \in Operators, Review(o) PROVE sc_publications'[p].deactivated_at
  <2>1. CASE sc_publications' = sc_publications
    BY <2>1
  <2>2. CASE ApproveWrite(o)
    <3> DEFINE s == [sc_publications[job[o].pub] EXCEPT
                        !.human_review_status = "approved", !.approved_at = TRUE]
    <3>1. job[o].pub = p => s.deactivated_at
      BY <1>0 DEF Publication
    <3> QED
      BY <1>2, <2>2, <3>1 DEF ApproveWrite
  <2>3. CASE RejectWrite(o)
    <3> DEFINE s == [sc_publications[job[o].pub] EXCEPT
                        !.human_review_status = "rejected", !.rejected_at = TRUE]
    <3>1. job[o].pub = p => s.deactivated_at
      BY <1>0 DEF Publication
    <3> QED
      BY <1>2, <2>3, <3>1 DEF RejectWrite
  <2>4. CASE DeactivateWrite(o)
    <3> DEFINE s == [sc_publications[job[o].pub] EXCEPT !.deactivated_at = TRUE]
    <3>1. job[o].pub = p => s.deactivated_at
      BY <1>0 DEF Publication
    <3> QED
      BY <1>2, <2>4, <3>1 DEF DeactivateWrite
  <2>5. CASE ActivateWrite(o)
    <3>1. sc_publications'[p] \in {Activated(sc_publications[p]), sc_publications[p],
                                  [sc_publications[p] EXCEPT !.deactivated_at = TRUE]}
      BY <2>5 DEF ActivateWrite
    <3> QED
      BY <1>0, <3>1 DEF Activated, Publication
  <2> QED
    BY <1>3, <2>1, <2>2, <2>3, <2>4, <2>5
    DEF Review, ApproveLoad, RejectLoad, ActivateLoad, DeactivateLoad, Begin, ActivateCheck, tables
<1>4. CASE UNCHANGED sc_publications
  BY <1>4
<1> QED
  BY <1>1, <1>3, <1>4 DEF Next, Interrupt, Screen, Select, SelectNothing, Lookup, Reply, vars, tables

(* A superseded or deactivated publication never comes back into place.    *)
THEOREM Withdrawn == Spec => WithdrawnIsFinal
<1>1. Inv /\ [Next]_vars =>
        [\A p \in Publications : sc_publications[p].deactivated_at => ~InPlace(p)']_vars
  BY StaysDeactivated DEF InPlace
<1> QED
  BY <1>1, Invariance, PTL DEF Spec, WithdrawnIsFinal

LEMMA StaysFrozen ==
    ASSUME Inv, [Next]_vars, NEW p \in Publications, sc_publications[p].activated_at
    PROVE  sc_security_status'[p] = sc_security_status[p]
<1>0. sc_security_status \in [Publications -> Listings]
  BY DEF Inv, TypeOK
<1>1. CASE UNCHANGED sc_security_status
  BY <1>1
<1>2. ASSUME NEW o \in Operators, IngestRows(o) PROVE sc_security_status'[p] = sc_security_status[p]
  <2>1. /\ pc[o] = "fill"
        /\ sc_security_status' = [sc_security_status EXCEPT ![job[o].pub] = job[o].listing]
    BY <1>2 DEF IngestRows
  <2>2. sc_security_status[job[o].pub] = NoRows
    BY <2>1 DEF Inv, JobsOK, Knows
  <2>3. sc_security_status[p] # NoRows
    BY DEF Inv, Lifecycle, RowsReconcile
  <2> QED
    BY <1>0, <2>1, <2>2, <2>3
<1>3. ASSUME NEW o \in Operators, Ingest(o) \/ Review(o) \/ Interrupt(o)
      PROVE  IngestRows(o) \/ UNCHANGED sc_security_status
  BY <1>3 DEF Ingest, Review, Interrupt, IngestCheck, IngestPublication, tables, ApproveLoad, RejectLoad,
     ActivateLoad, DeactivateLoad, Begin, ApproveWrite, RejectWrite, DeactivateWrite, Write,
     ActivateCheck, ActivateWrite
<1> QED
  BY <1>1, <1>2, <1>3
  DEF Next, Screen, Select, SelectNothing, Lookup, Reply, vars, tables

(* The rows of an activated publication never change. *)
THEOREM Frozen == Spec => ActivatedIsFrozen
<1>1. Inv /\ [Next]_vars =>
        [\A p \in Publications : sc_publications[p].activated_at =>
            sc_security_status'[p] = sc_security_status[p]]_vars
  BY StaysFrozen
<1> QED
  BY <1>1, Invariance, PTL DEF Spec, ActivatedIsFrozen

-----------------------------------------------------------------------------
(* What breaks "A rejected publication can never be approved" is only that *)
(* commands overlap: with one command at a time, interrupted as it may be, *)
(* the review that a command has read still stands when it writes.         *)
OneCommandAtATime == \A o, x \in Operators : o = x

ReviewStands ==
    /\ \A p \in Publications : sc_publications[p].rejected_at => Status(p) = "rejected"
    /\ \A o \in Operators : pc[o] = "approve" => Status(job[o].pub) = "pending"

LEMMA ReviewStep ==
    ASSUME OneCommandAtATime, Inv, ReviewStands, [Next]_vars
    PROVE  ReviewStands'
<1> USE DEF OneCommandAtATime
<1>0. /\ sc_publications \in [Publications -> Publication]
      /\ pc \in [Operators -> Steps] /\ job \in [Operators -> Job]
  BY DEF Inv, TypeOK
<1>1. CASE UNCHANGED <<sc_publications, pc, job>>
  BY <1>1 DEF ReviewStands, Status
<1>2. ASSUME NEW o \in Operators, NEW s, NEW j, Goto(o, s, j), UNCHANGED sc_publications,
             s = "approve" => Status(j.pub) = "pending"
      PROVE  ReviewStands'
  BY <1>0, <1>2 DEF Goto, ReviewStands, Status
<1>3. ASSUME NEW o \in Operators, NEW q \in Publications, NEW v \in Publication, Return(o),
             sc_publications' = [sc_publications EXCEPT ![q] = v],
             v.rejected_at => v.human_review_status = "rejected"
      PROVE  ReviewStands'
  <2>1. \A x \in Operators : pc'[x] = "idle"
    BY <1>0, <1>3 DEF Return, Goto
  <2> QED
    BY <1>0, <1>3, <2>1 DEF ReviewStands, Status
<1>4. ASSUME NEW o \in Operators, Interrupt(o) PROVE ReviewStands'
  BY <1>2, <1>4 DEF Interrupt, Return, tables
<1>5. ASSUME NEW o \in Operators, Ingest(o) PROVE ReviewStands'
  <2>1. CASE \E p \in Publications : IngestCheck(o, p)
    BY <1>2, <2>1 DEF IngestCheck, tables
  <2>2. CASE IngestPublication(o) /\ Stored(job[o].pub)
    BY <1>2, <2>2 DEF IngestPublication, Return
  <2>3. CASE IngestPublication(o) /\ ~Stored(job[o].pub)
    <3>1. /\ job[o].pub \in Publications /\ ~job[o].staged.rejected_at
          /\ sc_publications' = [sc_publications EXCEPT ![job[o].pub] = job[o].staged]
          /\ Goto(o, "fill", job[o])
      BY <2>3 DEF IngestPublication, Inv, JobsOK, Knows, Flags
    <3>2. \A x \in Operators : pc'[x] = "fill"
      BY <1>0, <3>1 DEF Goto
    <3> QED
      BY <1>0, <3>1, <3>2 DEF ReviewStands, Status
  <2>4. CASE IngestRows(o)
    BY <1>2, <2>4 DEF IngestRows, Return
  <2> QED
    BY <1>5, <2>1, <2>2, <2>3, <2>4 DEF Ingest
<1>6. ASSUME NEW o \in Operators, Review(o) PROVE ReviewStands'
  <2> DEFINE q == job[o].pub
             r == sc_publications[q]
  <2>0. pc[o] \in Commands => q \in Publications /\ r \in Publication
    BY <1>0 DEF Inv, JobsOK, Knows, Commands
  <2>1. ASSUME NEW p \in Publications, ApproveLoad(o, p) PROVE ReviewStands'
    <3>1. /\ Goto(o, "approve", [NoJob EXCEPT !.pub = p]) /\ UNCHANGED sc_publications
          /\ Status(p) = "pending"
      BY <2>1 DEF ApproveLoad, Begin, tables
    <3>2. [NoJob EXCEPT !.pub = p].pub = p
      BY DEF NoJob
    <3> QED
      BY <1>2, <3>1, <3>2
  <2>2. ASSUME NEW p \in Publications, RejectLoad(o, p) \/ ActivateLoad(o, p) \/ DeactivateLoad(o, p)
        PROVE  ReviewStands'
    <3>1. PICK s \in {"rows", "reject", "deactivate"} :
            Goto(o, s, [NoJob EXCEPT !.pub = p]) /\ UNCHANGED sc_publications
      BY <2>2 DEF RejectLoad, ActivateLoad, DeactivateLoad, Begin, tables
    <3> QED
      BY <1>2, <3>1
  <2>3. CASE ApproveWrite(o)
    <3> DEFINE v == [r EXCEPT !.human_review_status = "approved", !.approved_at = TRUE]
    <3>1. Write(o, v) /\ pc[o] = "approve"
      BY <2>3 DEF ApproveWrite
    <3>2. q \in Publications /\ r \in Publication /\ r.human_review_status = "pending"
      BY <2>0, <3>1 DEF ReviewStands, Status, Commands
    <3>3. ~r.rejected_at
      BY <3>2 DEF ReviewStands, Status
    <3>4. v \in Publication /\ ~v.rejected_at
      BY <3>2, <3>3 DEF Publication, Reviews
    <3> HIDE DEF v, r
    <3> QED
      BY <1>3, <3>1, <3>2, <3>4 DEF Write
  <2>4. CASE RejectWrite(o)
    <3> DEFINE v == [r EXCEPT !.human_review_status = "rejected", !.rejected_at = TRUE]
    <3>1. Write(o, v) /\ q \in Publications /\ r \in Publication
      BY <2>0, <2>4 DEF RejectWrite, Commands
    <3>2. v \in Publication /\ v.human_review_status = "rejected"
      BY <3>1 DEF Publication, Reviews
    <3> HIDE DEF v, r
    <3> QED
      BY <1>3, <3>1, <3>2 DEF Write
  <2>5. CASE DeactivateWrite(o)
    <3> DEFINE v == [r EXCEPT !.deactivated_at = TRUE]
    <3>1. Write(o, v) /\ q \in Publications /\ r \in Publication
      BY <2>0, <2>5 DEF DeactivateWrite, Commands
    <3>2. /\ v \in Publication /\ v.human_review_status = r.human_review_status
          /\ v.rejected_at = r.rejected_at
      BY <3>1 DEF Publication
    <3>3. v.rejected_at => v.human_review_status = "rejected"
      BY <3>1, <3>2 DEF ReviewStands, Status
    <3> HIDE DEF v, r
    <3> QED
      BY <1>3, <3>1, <3>2, <3>3 DEF Write
  <2>6. CASE ActivateCheck(o)
    BY <1>2, <2>6 DEF ActivateCheck, Return, tables
  <2>7. CASE ActivateWrite(o)
    <3>1. \A p \in Publications :
            /\ sc_publications'[p].human_review_status = sc_publications[p].human_review_status
            /\ sc_publications'[p].rejected_at = sc_publications[p].rejected_at
      BY <1>0, <2>7 DEF ActivateWrite, Activated, Publication
    <3>2. \A x \in Operators : pc'[x] = "idle"
      BY <1>0, <2>7 DEF ActivateWrite, Return, Goto
    <3> QED
      BY <3>1, <3>2 DEF ReviewStands, Status
  <2> QED
    BY <1>6, <2>1, <2>2, <2>3, <2>4, <2>5, <2>6, <2>7 DEF Review
<1> QED
  BY <1>1, <1>4, <1>5, <1>6
  DEF Next, Screen, Select, SelectNothing, Lookup, Reply, vars, tables

(* "A rejected publication can never be approved or activated" is true of  *)
(* commands that do not overlap, for any number of publications.           *)
THEOREM RejectedAlone == OneCommandAtATime => (Spec => []RejectedIsFinal)
<1> SUFFICES ASSUME OneCommandAtATime PROVE Spec => []RejectedIsFinal
  OBVIOUS
<1>1. Init => ReviewStands
  BY DEF Init, ReviewStands, NoPublication
<1>2. Inv /\ ReviewStands /\ [Next]_vars => ReviewStands'
  BY ReviewStep
<1>3. ReviewStands => RejectedIsFinal
  BY DEF ReviewStands, RejectedIsFinal, Authoritative
<1> QED
  BY InitInv, StepInv, <1>1, <1>2, <1>3, PTL DEF Spec

=============================================================================
