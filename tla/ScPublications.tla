---------------------------- MODULE ScPublications ----------------------------
(***************************************************************************)
(* The SC Malaysia publication store (sc_malaysia_store.py), the commands  *)
(* that write it (sc_ingest_cli.py, sc_admin_cli.py) and the screening     *)
(* requests that read it (shariah_gate.py).                                *)
(*                                                                         *)
(* Every command reads the publication in one statement and writes it in a *)
(* later transaction without looking again, so commands that overlap act   *)
(* on what they read.  Ingestion commits the publication and its rows      *)
(* separately, and a request reads the publication and the row separately. *)
(*                                                                         *)
(* A publication is its date: both are unique in the store.  The recorded  *)
(* times are abstracted to whether they are set, the counts that SC states *)
(* to whether they agree.                                                  *)
(***************************************************************************)
EXTENDS Naturals, FiniteSets

CONSTANTS
    Publications,   \* publication dates
    Tickers,
    Operators,      \* command line processes that may be active at once
    Admins,         \* the operators that authenticate as an admin
    Requests,       \* screening requests that may be active at once
    FaultBudget,    \* bound on commands that are interrupted
    None

ASSUME ScAssumption ==
    /\ Publications \subseteq Nat
    /\ IsFiniteSet(Tickers)
    /\ Admins \subseteq Operators
    /\ FaultBudget \in Nat
    /\ None \notin Publications

VARIABLES
    sc_publications,        \* one record per publication
    sc_security_status,     \* what the stored rows of a publication say of a ticker
    pc, job,                \* commands: the next step and what the command has read
    answer,                 \* requests: the publication selected, and the verdict
    faults

tables == <<sc_publications, sc_security_status>>
vars == <<tables, pc, job, answer, faults>>

-----------------------------------------------------------------------------
Rulings == {"COMPLIANT", "NON_COMPLIANT", "ABSENT"}
Listings == [Tickers -> Rulings]
NoRows == [t \in Tickers |-> "ABSENT"]

Reviews == {"NONE", "pending", "needs_reconciliation", "approved", "rejected"}
Publication == [human_review_status : Reviews,
                counts_reconcile : BOOLEAN,     \* official = extractable = parsed, source recorded
                expected_rows : Nat,            \* parsed + additional + reclassified
                approved_at : BOOLEAN, rejected_at : BOOLEAN,
                activated_at : BOOLEAN, deactivated_at : BOOLEAN]
NoPublication == [human_review_status |-> "NONE", counts_reconcile |-> FALSE, expected_rows |-> 0,
                  approved_at |-> FALSE, rejected_at |-> FALSE,
                  activated_at |-> FALSE, deactivated_at |-> FALSE]

Listed(listing) == {t \in Tickers : listing[t] # "ABSENT"}

Commands == {"approve", "reject", "activate", "deactivate"}
Steps == {"idle", "insert", "fill", "rows"} \cup Commands
Job == [pub : Publications \cup {None}, staged : Publication, listing : Listings]
NoJob == [pub |-> None, staged |-> NoPublication, listing |-> NoRows]

Verdicts == {"NONE", "READING", "PASS", "REJECT", "UNKNOWN"}
Answer == [verdict : Verdicts, pub : Publications \cup {None}, ticker : Tickers \cup {None}]
NoAnswer == [verdict |-> "NONE", pub |-> None, ticker |-> None]

TypeOK ==
    /\ sc_publications \in [Publications -> Publication]
    /\ sc_security_status \in [Publications -> Listings]
    /\ pc \in [Operators -> Steps]
    /\ job \in [Operators -> Job]
    /\ answer \in [Requests -> Answer]
    /\ faults \in 0..FaultBudget

Init ==
    /\ sc_publications = [p \in Publications |-> NoPublication]
    /\ sc_security_status = [p \in Publications |-> NoRows]
    /\ pc = [o \in Operators |-> "idle"]
    /\ job = [o \in Operators |-> NoJob]
    /\ answer = [r \in Requests |-> NoAnswer]
    /\ faults = 0

Status(p) == sc_publications[p].human_review_status
Stored(p) == Status(p) # "NONE"

(* Activated and neither superseded nor deactivated. *)
InPlace(p) == sc_publications[p].activated_at /\ ~sc_publications[p].deactivated_at

Goto(o, s, j) ==
    /\ pc' = [pc EXCEPT ![o] = s]
    /\ job' = [job EXCEPT ![o] = j]

Return(o) == Goto(o, "idle", NoJob)

-----------------------------------------------------------------------------
(* Ingestion. *)

Parsed(review, counts, rows) ==
    [NoPublication EXCEPT !.human_review_status = review, !.counts_reconcile = counts,
                          !.expected_rows = rows]

(* What a parse may stage.  The PDF path marks an unclean parse; the JSON  *)
(* path marks only a short one, and counts a ticker listed twice twice     *)
(* although one row of it is stored.                                       *)
IngestCheck(o, p) ==
    /\ pc[o] = "idle"
    /\ ~Stored(p)
    /\ \E review \in {"pending", "needs_reconciliation"}, counts \in BOOLEAN, listing \in Listings :
         \E repeated \in {n \in {0, 1} : n <= Cardinality(Listed(listing))} :
           Goto(o, "insert",
                [pub |-> p, listing |-> listing,
                 staged |-> Parsed(review, counts, Cardinality(Listed(listing)) + repeated)])
    /\ UNCHANGED <<tables, answer, faults>>

(* insert_publication: the primary key and the unique date refuse a second one. *)
IngestPublication(o) ==
    LET p == job[o].pub IN
    /\ pc[o] = "insert"
    /\ IF Stored(p)
       THEN Return(o) /\ UNCHANGED sc_publications
       ELSE /\ sc_publications' = [sc_publications EXCEPT ![p] = job[o].staged]
            /\ Goto(o, "fill", job[o])
    /\ UNCHANGED <<sc_security_status, answer, faults>>

(* insert_securities: one transaction for all the rows. *)
IngestRows(o) ==
    /\ pc[o] = "fill"
    /\ sc_security_status' = [sc_security_status EXCEPT ![job[o].pub] = job[o].listing]
    /\ Return(o)
    /\ UNCHANGED <<sc_publications, answer, faults>>

-----------------------------------------------------------------------------
(* The review commands. *)

Permitted(o, command) == command \in {"approve", "reject"} \/ o \in Admins

AnythingActivates(p) == Stored(p) /\ ~sc_publications[p].activated_at

(* The refusals that depend on the record alone; an active publication is  *)
(* not activated again.                                                    *)
Activatable(p) ==
    /\ Status(p) = "approved"
    /\ ~sc_publications[p].deactivated_at
    /\ sc_publications[p].counts_reconcile
    /\ ~sc_publications[p].activated_at

Begin(o, command, p) ==
    /\ pc[o] = "idle"
    /\ Permitted(o, command)
    /\ Goto(o, IF command = "activate" THEN "rows" ELSE command, [NoJob EXCEPT !.pub = p])
    /\ UNCHANGED <<tables, answer, faults>>

ApproveLoad(o, p) == Status(p) = "pending" /\ Begin(o, "approve", p)
RejectLoad(o, p) == Stored(p) /\ Status(p) # "approved" /\ Begin(o, "reject", p)
ActivateLoad(o, p) == Activatable(p) /\ Begin(o, "activate", p)
DeactivateLoad(o, p) == InPlace(p) /\ Begin(o, "deactivate", p)

Write(o, record) ==
    /\ sc_publications' = [sc_publications EXCEPT ![job[o].pub] = record]
    /\ Return(o)
    /\ UNCHANGED <<sc_security_status, answer, faults>>

ApproveAsCommanded(o) ==
    /\ pc[o] = "approve"
    /\ Write(o, [sc_publications[job[o].pub] EXCEPT
                    !.human_review_status = "approve", !.approved_at = TRUE])

ApproveWrite(o) ==
    /\ pc[o] = "approve"
    /\ Write(o, [sc_publications[job[o].pub] EXCEPT
                    !.human_review_status = "approved", !.approved_at = TRUE])

RejectWrite(o) ==
    /\ pc[o] = "reject"
    /\ Write(o, [sc_publications[job[o].pub] EXCEPT
                    !.human_review_status = "rejected", !.rejected_at = TRUE])

DeactivateWrite(o) ==
    /\ pc[o] = "deactivate"
    /\ Write(o, [sc_publications[job[o].pub] EXCEPT !.deactivated_at = TRUE])

RowsNotCounted(p) == TRUE

(* publication_securities and security_row_breakdown. *)
RowsReconcile(p) ==
    /\ sc_security_status[p] # NoRows
    /\ Cardinality(Listed(sc_security_status[p])) = sc_publications[p].expected_rows

ActivateCheck(o) ==
    /\ pc[o] = "rows"
    /\ IF RowsReconcile(job[o].pub) THEN Goto(o, "activate", job[o]) ELSE Return(o)
    /\ UNCHANGED <<tables, answer, faults>>

OlderOnes(p) == {q \in Publications : q < p /\ InPlace(q)}

Superseded(p) == {q \in Publications : q # p /\ InPlace(q)}

Reactivated(r) == [r EXCEPT !.activated_at = TRUE, !.deactivated_at = FALSE]

Activated(r) == [r EXCEPT !.activated_at = TRUE]

(* Both updates are one transaction. *)
ActivateWrite(o) ==
    LET p == job[o].pub IN
    /\ pc[o] = "activate"
    /\ sc_publications' = [q \in Publications |->
           IF q = p THEN Activated(sc_publications[q])
           ELSE IF q \in Superseded(p) THEN [sc_publications[q] EXCEPT !.deactivated_at = TRUE]
           ELSE sc_publications[q]]
    /\ Return(o)
    /\ UNCHANGED <<sc_security_status, answer, faults>>

(* A command is interrupted; what it committed stays. *)
Interrupt(o) ==
    /\ pc[o] # "idle"
    /\ faults < FaultBudget
    /\ faults' = faults + 1
    /\ Return(o)
    /\ UNCHANGED <<tables, answer>>

-----------------------------------------------------------------------------
(* Screening requests: check_eligibility. *)

ApprovedIsEnough(p) == Status(p) = "approved" /\ ~sc_publications[p].deactivated_at

Authoritative(p) == Status(p) = "approved" /\ InPlace(p)

Reply(r, a) ==
    /\ answer' = [answer EXCEPT ![r] = a]
    /\ UNCHANGED <<tables, pc, job, faults>>

(* The latest authoritative publication is read first. *)
Select(r, t, p) ==
    /\ answer[r].verdict # "READING"
    /\ Authoritative(p)
    /\ \A q \in Publications : Authoritative(q) => q <= p
    /\ Reply(r, [verdict |-> "READING", pub |-> p, ticker |-> t])

(* Nothing is authoritative, or the store cannot be read: the legacy file  *)
(* that is tried next never passes.                                        *)
SelectNothing(r, t) ==
    /\ answer[r].verdict # "READING"
    /\ Reply(r, [verdict |-> "UNKNOWN", pub |-> None, ticker |-> t])

VerdictOn(ruling) ==
    CASE ruling = "COMPLIANT" -> "PASS"
      [] ruling = "NON_COMPLIANT" -> "REJECT"
      [] OTHER -> "UNKNOWN"

(* Then the ticker's row in it. *)
Lookup(r) ==
    LET a == answer[r] IN
    /\ a.verdict = "READING"
    /\ Reply(r, [a EXCEPT !.verdict = VerdictOn(sc_security_status[a.pub][a.ticker])])

-----------------------------------------------------------------------------
Ingest(o) ==
    (\E p \in Publications : IngestCheck(o, p)) \/ IngestPublication(o) \/ IngestRows(o)

Review(o) ==
    \/ \E p \in Publications :
         ApproveLoad(o, p) \/ RejectLoad(o, p) \/ ActivateLoad(o, p) \/ DeactivateLoad(o, p)
    \/ ApproveWrite(o) \/ RejectWrite(o) \/ ActivateCheck(o) \/ ActivateWrite(o)
    \/ DeactivateWrite(o)

Screen(r) ==
    \/ \E t \in Tickers : SelectNothing(r, t) \/ \E p \in Publications : Select(r, t, p)
    \/ Lookup(r)

Next ==
    \/ \E o \in Operators : Ingest(o) \/ Review(o) \/ Interrupt(o)
    \/ \E r \in Requests : Screen(r)

Spec == Init /\ [][Next]_vars

-----------------------------------------------------------------------------
(* Properties. *)

(* However activations and deactivations overlap, at most one publication  *)
(* is in place.                                                            *)
OneActive == \A p, q \in Publications : InPlace(p) /\ InPlace(q) => p = q

(* A publication that was ever activated was approved by a reviewer, its   *)
(* counts reconcile, and its rows are all there: approving or activating   *)
(* it while it is still being ingested does not get around the checks.     *)
ActivatedWasVetted ==
    \A p \in Publications : sc_publications[p].activated_at =>
        /\ sc_publications[p].approved_at /\ sc_publications[p].counts_reconcile
        /\ RowsReconcile(p)

(* A PASS or a REJECT is what the rows of an activated publication say of  *)
(* that ticker, then and ever after; no list that nobody activated decides *)
(* anything.                                                               *)
AnswersAreRulings ==
    \A r \in Requests : LET a == answer[r] IN
        /\ a.verdict = "PASS" => /\ sc_publications[a.pub].activated_at
                                /\ sc_security_status[a.pub][a.ticker] = "COMPLIANT"
        /\ a.verdict = "REJECT" => /\ sc_publications[a.pub].activated_at
                                  /\ sc_security_status[a.pub][a.ticker] = "NON_COMPLIANT"

(* A superseded or deactivated publication never comes back, not even by   *)
(* an activation that was under way when it was taken out of place.        *)
WithdrawnIsFinal ==
    [][\A p \in Publications : sc_publications[p].deactivated_at => ~InPlace(p)']_vars

(* "Once ingested and approved, its records never change": the rows of an  *)
(* activated publication are fixed.                                        *)
ActivatedIsFrozen ==
    [][\A p \in Publications : sc_publications[p].activated_at =>
          sc_security_status'[p] = sc_security_status[p]]_vars

(* "A rejected publication can never be approved or activated." *)
RejectedIsFinal ==
    \A p \in Publications : ~(sc_publications[p].rejected_at /\ Authoritative(p))

=============================================================================
