-------------------------------- MODULE TwoTap --------------------------------
(***************************************************************************)
(* The Telegram relay (bridge/relay.py) and its proposal store             *)
(* (bridge/proposals.py): the owner's first tap queues an approval at the  *)
(* backend, the second submits it.                                         *)
(*                                                                         *)
(* A relay handles one callback at a time and takes one step per database  *)
(* statement, HTTP call or message.  Its getUpdates offset is kept in      *)
(* memory, so a relay that dies, or a second one started before the first  *)
(* has stopped, is given a callback again.  The proposal store outlives    *)
(* the relays.                                                             *)
(*                                                                         *)
(* The text of a message is abstracted to what it tells the owner and the  *)
(* buttons it offers; a deadline to whether it has passed.                 *)
(***************************************************************************)
EXTENDS Naturals

CONSTANTS
    Proposals,      \* proposal ids
    Rows,           \* ids of the backend's approval queue
    Relays,         \* relay processes that may be alive at once
    FaultBudget,    \* bound on crashes, lost answers and lost messages
    None

ASSUME TwoTapAssumption ==
    /\ FaultBudget \in Nat
    /\ None \notin Rows \cup Proposals

VARIABLES
    status, queue_id, attempted,    \* proposals: the columns a tap reads and writes
    due,                            \* proposals past the deadline of their status
    card,                           \* Telegram: what the message of a proposal shows
    updates,                        \* Telegram: the presses not yet confirmed by an offset
    pressed,                        \* every press the owner has made
    row, ready, sends, submitted,   \* backend: the proposal a queue row was created for, its
                                    \* verdict, the execute requests a relay issued for it,
                                    \* and whether one of them submitted an order
    keyed,                          \* the relays that hold the operator key
    pc, job,                        \* relays: the next step and what the callback has read
    faults

store == <<status, queue_id, attempted, due>>
telegram == <<card, updates, pressed>>
backend == <<row, ready, sends, submitted>>
vars == <<store, telegram, backend, keyed, pc, job, faults>>

-----------------------------------------------------------------------------
Actions == {"APPROVE", "REJECT", "EXECUTE"}
Presses == Actions \X Proposals

Statuses == {"NONE", "PENDING", "QUEUED", "EXECUTING", "EXECUTED", "EXECUTION_UNCERTAIN",
             "DRY_RUN", "EXPIRED", "QUEUE_EXPIRED", "HELD", "REJECTED"}

(* What a message says.  Only the first two offer buttons. *)
Cards == {"PROPOSAL", "CONFIRM", "BLANK", "QUEUED_ONLY", "NOTHING_QUEUED", "NOTHING_SUBMITTED",
          "STALE", "EXPIRED", "OUTCOME"}

Buttons(c) ==
    CASE c = "PROPOSAL" -> {"APPROVE", "REJECT"}
      [] c = "CONFIRM" -> {"EXECUTE", "REJECT"}
      [] OTHER -> {}

Steps == {"idle", "expire", "load", "hold", "approve", "spoil", "mark", "marked", "buttons",
          "market", "claim", "send", "record", "show", "confirm"}

Job == [act : Actions \cup {None}, on : Proposals \cup {None}, seen : Rows \cup {None},
        outcome : Statuses, says : Cards]
NoJob == [act |-> None, on |-> None, seen |-> None, outcome |-> "NONE", says |-> "BLANK"]

TypeOK ==
    /\ status \in [Proposals -> Statuses]
    /\ queue_id \in [Proposals -> Rows \cup {None}]
    /\ attempted \in [Proposals -> BOOLEAN]
    /\ due \subseteq Proposals
    /\ card \in [Proposals -> Cards]
    /\ updates \subseteq Presses
    /\ pressed \subseteq Presses
    /\ row \in [Rows -> Proposals \cup {None}]
    /\ ready \in [Rows -> BOOLEAN]
    /\ sends \in [Rows -> Nat]
    /\ submitted \in [Rows -> BOOLEAN]
    /\ keyed \subseteq Relays
    /\ pc \in [Relays -> Steps]
    /\ job \in [Relays -> Job]
    /\ faults \in 0..FaultBudget

Init ==
    /\ status = [p \in Proposals |-> "NONE"]
    /\ queue_id = [p \in Proposals |-> None]
    /\ attempted = [p \in Proposals |-> FALSE]
    /\ due = {}
    /\ card = [p \in Proposals |-> "BLANK"]
    /\ updates = {}
    /\ pressed = {}
    /\ row = [q \in Rows |-> None]
    /\ ready = [q \in Rows |-> FALSE]
    /\ sends = [q \in Rows |-> 0]
    /\ submitted = [q \in Rows |-> FALSE]
    /\ keyed \in SUBSET Relays
    /\ pc = [x \in Relays |-> "idle"]
    /\ job = [x \in Relays |-> NoJob]
    /\ faults = 0

Goto(x, s, j) ==
    /\ pc' = [pc EXCEPT ![x] = s]
    /\ job' = [job EXCEPT ![x] = j]
    /\ UNCHANGED keyed

(* The callback ends by editing the proposal's message to say c. *)
Tell(x, c) == Goto(x, "show", [job[x] EXCEPT !.says = c])

Fault == /\ faults < FaultBudget
         /\ faults' = faults + 1
NoFault == UNCHANGED faults

-----------------------------------------------------------------------------
(* The owner, the clock and the card. *)

(* propose: the preview is ready; the proposal is stored and its card sent. *)
Propose(p) ==
    /\ status[p] = "NONE"
    /\ status' = [status EXCEPT ![p] = "PENDING"]
    /\ card' = [card EXCEPT ![p] = "PROPOSAL"]
    /\ UNCHANGED <<queue_id, attempted, due, updates, pressed, backend, keyed, pc, job, faults>>

Press(a, p) ==
    /\ a \in Buttons(card[p])
    /\ updates' = updates \cup {<<a, p>>}
    /\ pressed' = pressed \cup {<<a, p>>}
    /\ UNCHANGED <<store, card, backend, keyed, pc, job, faults>>

DeadlinePasses(p) ==
    /\ status[p] \in {"PENDING", "QUEUED"}
    /\ p \notin due
    /\ due' = due \cup {p}
    /\ UNCHANGED <<status, queue_id, attempted, telegram, backend, keyed, pc, job, faults>>

(* expire_due: each move is guarded by the status it was selected with. *)
Lapsed == {p \in due : status[p] \in {"PENDING", "QUEUED"}}

ExpireDue ==
    /\ status' = [p \in Proposals |->
           IF p \notin Lapsed THEN status[p]
           ELSE IF status[p] = "PENDING" THEN "EXPIRED" ELSE "QUEUE_EXPIRED"]
    /\ due' = due \ Lapsed
    /\ UNCHANGED <<queue_id, attempted>>

(* The loop expires what is due before it polls, and edits the cards of    *)
(* what it moved; an edit may not arrive.                                  *)
Sweep(x) ==
    /\ pc[x] = "idle"
    /\ Lapsed # {}
    /\ ExpireDue
    /\ \E edited \in SUBSET Lapsed :
         card' = [p \in Proposals |-> IF p \in edited THEN "EXPIRED" ELSE card[p]]
    /\ UNCHANGED <<updates, pressed, backend, keyed, pc, job, faults>>

-----------------------------------------------------------------------------
(* handle_callback, up to the record it acts on. *)

Poll(x, a, p) ==
    /\ pc[x] = "idle"
    /\ <<a, p>> \in updates
    /\ Goto(x, "expire", [NoJob EXCEPT !.act = a, !.on = p])
    /\ NoFault
    /\ UNCHANGED <<store, telegram, backend>>

Expire(x) ==
    /\ pc[x] = "expire"
    /\ ExpireDue
    /\ Goto(x, "load", job[x])
    /\ NoFault
    /\ UNCHANGED <<telegram, backend>>

(* The status the record has when it is read decides; everything after     *)
(* acts on that reading.                                                   *)
Load(x) ==
    LET p == job[x].on
        a == job[x].act
        seen == [job[x] EXCEPT !.seen = queue_id[p]] IN
    /\ pc[x] = "load"
    /\ \/ a = "REJECT" /\ Goto(x, "hold", seen)
       \/ a = "APPROVE" /\ status[p] = "PENDING" /\ Goto(x, "approve", seen)
       \/ a = "EXECUTE" /\ status[p] = "QUEUED" /\ Goto(x, "market", seen)
       \/ a = "APPROVE" /\ status[p] # "PENDING" /\ Tell(x, "STALE")
       \/ a = "EXECUTE" /\ status[p] # "QUEUED" /\ Tell(x, "STALE")
    /\ NoFault
    /\ UNCHANGED <<store, telegram, backend>>

HoldAnything(p) == TRUE

Holdable(p) == status[p] \in {"PENDING", "QUEUED"}

(* hold_proposal moves nothing that has been claimed; the card is edited   *)
(* all the same.                                                           *)
Hold(x) ==
    LET p == job[x].on IN
    /\ pc[x] = "hold"
    /\ status' = IF Holdable(p) THEN [status EXCEPT ![p] = "HELD"] ELSE status
    /\ Tell(x, "NOTHING_SUBMITTED")
    /\ NoFault
    /\ UNCHANGED <<queue_id, attempted, due, telegram, backend>>

-----------------------------------------------------------------------------
(* Tap 1. *)

(* POST /paper/approval inserts a row whatever its verdict. *)
CreateRow(q, p, ok) ==
    /\ row[q] = None
    /\ row' = [row EXCEPT ![q] = p]
    /\ ready' = [ready EXCEPT ![q] = ok]
    /\ UNCHANGED <<sends, submitted>>

VerdictUnread(x, q) ==
    /\ pc[x] = "approve"
    /\ \E ok \in BOOLEAN : CreateRow(q, job[x].on, ok)
    /\ Goto(x, "mark", [job[x] EXCEPT !.seen = q])
    /\ NoFault
    /\ UNCHANGED <<store, telegram>>

Approve(x, q) ==
    /\ pc[x] = "approve"
    /\ \E ok \in BOOLEAN :
         /\ CreateRow(q, job[x].on, ok)
         /\ Goto(x, IF ok THEN "mark" ELSE "spoil", [job[x] EXCEPT !.seen = q])
    /\ NoFault
    /\ UNCHANGED <<store, telegram>>

(* The row was created and the answer lost: the relay tells the owner that *)
(* nothing was queued, and the proposal stays PENDING.                     *)
ApproveLost(x, q) ==
    /\ pc[x] = "approve"
    /\ Fault
    /\ \E ok \in BOOLEAN : CreateRow(q, job[x].on, ok)
    /\ Tell(x, "NOTHING_QUEUED")
    /\ UNCHANGED <<store, telegram>>

(* The request was refused before it reached the endpoint. *)
ApproveRefused(x) ==
    /\ pc[x] = "approve"
    /\ Tell(x, "NOTHING_QUEUED")
    /\ NoFault
    /\ UNCHANGED <<store, telegram, backend>>

SpoilAsAnswered(x) ==
    /\ pc[x] = "spoil"
    /\ status' = [status EXCEPT ![job[x].on] = "REJECT"]
    /\ Tell(x, "NOTHING_QUEUED")
    /\ NoFault
    /\ UNCHANGED <<queue_id, attempted, due, telegram, backend>>

(* mark_rejected: the backend's verdict, written whatever the status is. *)
Spoil(x) ==
    /\ pc[x] = "spoil"
    /\ status' = [status EXCEPT ![job[x].on] = "REJECTED"]
    /\ Tell(x, "NOTHING_QUEUED")
    /\ NoFault
    /\ UNCHANGED <<queue_id, attempted, due, telegram, backend>>

(* mark_queued reads the status, then moves the row if it is still PENDING *)
(* and reports success either way.  UNIQUE(queue_id) never refuses it,     *)
(* because each approval is answered with a row id of its own.             *)
MarkRead(x) ==
    /\ pc[x] = "mark"
    /\ IF status[job[x].on] = "PENDING" THEN Goto(x, "marked", job[x])
                                         ELSE Tell(x, "NOTHING_QUEUED")
    /\ NoFault
    /\ UNCHANGED <<store, telegram, backend>>

Queueable(p) == status[p] = "PENDING"

MarkWrite(x) ==
    LET p == job[x].on IN
    /\ pc[x] = "marked"
    /\ IF Queueable(p)
       THEN /\ status' = [status EXCEPT ![p] = "QUEUED"]
            /\ queue_id' = [queue_id EXCEPT ![p] = job[x].seen]
            /\ due' = due \ {p}
            /\ UNCHANGED attempted
       ELSE UNCHANGED store
    /\ Goto(x, "buttons", job[x])
    /\ NoFault
    /\ UNCHANGED <<telegram, backend>>

(* Buttons are offered only when the backend says it executes the market. *)
OfferButtons(x) ==
    /\ pc[x] = "buttons"
    /\ Tell(x, "CONFIRM") \/ Tell(x, "QUEUED_ONLY")
    /\ NoFault
    /\ UNCHANGED <<store, telegram, backend>>

-----------------------------------------------------------------------------
(* Tap 2. *)

MarketOpen(x) ==
    /\ pc[x] = "market"
    /\ Goto(x, "claim", job[x])
    /\ NoFault
    /\ UNCHANGED <<store, telegram, backend>>

MarketClosed(x) ==
    /\ pc[x] = "market"
    /\ Tell(x, "OUTCOME")
    /\ NoFault
    /\ UNCHANGED <<store, telegram, backend>>

ClaimAsSeen(p) == TRUE

Claimable(p) == status[p] = "QUEUED" /\ ~attempted[p]

(* claim_execution: one conditional UPDATE decides who sends. *)
Claim(x) ==
    LET p == job[x].on IN
    /\ pc[x] = "claim"
    /\ IF Claimable(p)
       THEN /\ status' = [status EXCEPT ![p] = "EXECUTING"]
            /\ attempted' = [attempted EXCEPT ![p] = TRUE]
            /\ IF x \in keyed THEN Goto(x, "send", job[x])
               ELSE Goto(x, "record", [job[x] EXCEPT !.outcome = "DRY_RUN"])
            /\ UNCHANGED <<queue_id, due>>
       ELSE /\ Tell(x, "OUTCOME")
            /\ UNCHANGED store
    /\ NoFault
    /\ UNCHANGED <<telegram, backend>>

Outcome(x, s) == Goto(x, "record", [job[x] EXCEPT !.outcome = s])

(* The execute request; the backend submits no row it did not approve. *)
Issue(q) ==
    /\ sends' = [sends EXCEPT ![q] = @ + 1]
    /\ UNCHANGED <<row, ready>>

IssueAndSubmit(q) == Issue(q) /\ submitted' = [submitted EXCEPT ![q] = ready[q]]

(* The backend's gates pass and the order goes to the broker. *)
SendAnswered(x) ==
    /\ pc[x] = "send"
    /\ IssueAndSubmit(job[x].seen)
    /\ Outcome(x, "EXECUTED")
    /\ NoFault
    /\ UNCHANGED <<store, telegram>>

(* A gate refuses, the broker rejects, or the request is turned away: any  *)
(* answer that is not a timeout is recorded as an execution.               *)
SendRefused(x) ==
    /\ pc[x] = "send"
    /\ Issue(job[x].seen)
    /\ UNCHANGED submitted
    /\ Outcome(x, "EXECUTED")
    /\ NoFault
    /\ UNCHANGED <<store, telegram>>

(* The answer is lost, whether or not the order was submitted. *)
SendLost(x) ==
    /\ pc[x] = "send"
    /\ Fault
    /\ IssueAndSubmit(job[x].seen) \/ (Issue(job[x].seen) /\ UNCHANGED submitted)
    /\ Outcome(x, "EXECUTION_UNCERTAIN")
    /\ UNCHANGED <<store, telegram>>

UncertainIsRequeued(x) ==
    LET p == job[x].on IN
    /\ pc[x] = "record"
    /\ status' = [status EXCEPT ![p] =
           IF job[x].outcome = "EXECUTION_UNCERTAIN" THEN "QUEUED" ELSE job[x].outcome]
    /\ Tell(x, "OUTCOME")
    /\ NoFault
    /\ UNCHANGED <<queue_id, attempted, due, telegram, backend>>

(* record_execution. *)
Record(x) ==
    LET p == job[x].on IN
    /\ pc[x] = "record"
    /\ status' = [status EXCEPT ![p] = job[x].outcome]
    /\ Tell(x, "OUTCOME")
    /\ NoFault
    /\ UNCHANGED <<queue_id, attempted, due, telegram, backend>>

-----------------------------------------------------------------------------
(* The end of a callback. *)

Show(x) ==
    /\ pc[x] = "show"
    /\ card' = [card EXCEPT ![job[x].on] = job[x].says]
    /\ Goto(x, "confirm", job[x])
    /\ NoFault
    /\ UNCHANGED <<store, updates, pressed, backend>>

ShowLost(x) ==
    /\ pc[x] = "show"
    /\ Fault
    /\ Goto(x, "confirm", job[x])
    /\ UNCHANGED <<store, telegram, backend>>

(* The next getUpdates carries the new offset. *)
Confirm(x) ==
    /\ pc[x] = "confirm"
    /\ updates' = updates \ {<<job[x].act, job[x].on>>}
    /\ Goto(x, "idle", NoJob)
    /\ NoFault
    /\ UNCHANGED <<store, card, pressed, backend>>

(* The relay dies; Telegram will deliver the callback again. *)
Crash(x) ==
    /\ pc[x] # "idle"
    /\ Fault
    /\ Goto(x, "idle", NoJob)
    /\ UNCHANGED <<store, telegram, backend>>

-----------------------------------------------------------------------------
Callback(x) ==
    \/ Expire(x) \/ Load(x) \/ Hold(x)
    \/ \E q \in Rows : Approve(x, q) \/ ApproveLost(x, q)
    \/ ApproveRefused(x) \/ Spoil(x) \/ MarkRead(x) \/ MarkWrite(x) \/ OfferButtons(x)
    \/ MarketOpen(x) \/ MarketClosed(x) \/ Claim(x)
    \/ SendAnswered(x) \/ SendRefused(x) \/ SendLost(x) \/ Record(x)
    \/ Show(x) \/ ShowLost(x) \/ Confirm(x)

Next ==
    \/ \E p \in Proposals :
         Propose(p) \/ DeadlinePasses(p) \/ \E a \in Actions : Press(a, p)
    \/ \E x \in Relays :
         \/ Sweep(x) \/ Callback(x) \/ Crash(x)
         \/ \E a \in Actions, p \in Proposals : Poll(x, a, p)

Spec == Init /\ [][Next]_vars

-----------------------------------------------------------------------------
(* Properties. *)

(* A proposal is sent to /paper/execute at most once, through whichever of *)
(* its queue rows: double taps, redelivered callbacks, a second relay and  *)
(* a crash at any step never send it again.                                *)
OneSendPerProposal ==
    /\ \A q \in Rows : sends[q] <= 1
    /\ \A q, s \in Rows : sends[q] > 0 /\ sends[s] > 0 /\ row[q] = row[s] => q = s

(* Nothing is sent without both taps, and what is sent is the row that the *)
(* first tap got approved.                                                 *)
SentOnTwoTaps ==
    \A q \in Rows : sends[q] > 0 =>
        LET p == row[q] IN
        /\ p # None
        /\ ready[q] /\ queue_id[p] = q
        /\ <<"APPROVE", p>> \in pressed /\ <<"EXECUTE", p>> \in pressed

(* A proposal that was cancelled, left to expire or claimed for a dry run  *)
(* was not sent and never will be, even when Cancel and Confirm were both  *)
(* tapped and another relay holds the operator key.                        *)
StoppedIsNeverSent ==
    \A q \in Rows : sends[q] > 0 =>
        status[row[q]] \notin {"HELD", "EXPIRED", "QUEUE_EXPIRED", "DRY_RUN"}

(* What TapPromise sees of a proposal: its status as far as a tap may act  *)
(* on it, then its claim, then whether its row was sent.                   *)
Sent(p) == queue_id[p] # None /\ sends[queue_id[p]] > 0
StageOf(p) ==
    CASE status[p] \in {"NONE", "PENDING"} -> "OPEN"
      [] status[p] = "QUEUED" -> "QUEUED"
      [] OTHER -> IF ~attempted[p] THEN "STOPPED" ELSE IF Sent(p) THEN "SENT" ELSE "CLAIMED"
Promise == INSTANCE TapPromise WITH
    stage <- [p \in Proposals |-> StageOf(p)], approved <- queue_id, sends <- sends

(* The store is a register that each proposal passes once, in one order:   *)
(* whatever relays overlap, die or are told of a tap again, each step of   *)
(* theirs is one of TapPromise or none.  In particular a claimed proposal  *)
(* is never open to a tap again, least of all after a timeout.             *)
PromiseKept == Promise!Spec

(* "Rejected by owner. Nothing was submitted." *)
RejectedCardIsTrue ==
    \A p \in Proposals : card[p] = "NOTHING_SUBMITTED" =>
        \A q \in Rows : row[q] = p => ~submitted[q]

(* The store does not claim that an order was submitted when nothing was. *)
ExecutedWasSubmitted ==
    \A p \in Proposals : status[p] = "EXECUTED" => submitted[queue_id[p]]

(* What the relay tells the owner and what it leaves in its store are not  *)
(* both wrong.  It is stated so that its counterexample breaks both.       *)
CardsOrStoreAreRight == RejectedCardIsTrue \/ ExecutedWasSubmitted

=============================================================================
