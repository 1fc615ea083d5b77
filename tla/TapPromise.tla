------------------------------ MODULE TapPromise ------------------------------
(***************************************************************************)
(* What the relay and its store promise about a proposal, whatever the     *)
(* relays, redeliveries and crashes behind them: the first tap gets one    *)
(* row of the queue approved for it, the second claims it once and for     *)
(* all, a claim sends that row at most once, and a proposal that was       *)
(* stopped before its claim is never sent.                                 *)
(*                                                                         *)
(* TwoTap implements this specification (TwoTap!PromiseKept).              *)
(***************************************************************************)
EXTENDS Naturals

CONSTANTS Proposals, Rows, None

VARIABLES
    stage,      \* how far each proposal is
    approved,   \* the row that the first tap got approved for it
    sends       \* how often each row was sent

promiseVars == <<stage, approved, sends>>

Stages == {"OPEN", "QUEUED", "STOPPED", "CLAIMED", "SENT"}

PromiseTypeOK ==
    /\ stage \in [Proposals -> Stages]
    /\ approved \in [Proposals -> Rows \cup {None}]
    /\ sends \in [Rows -> {0, 1}]

Init ==
    /\ stage = [p \in Proposals |-> "OPEN"]
    /\ approved = [p \in Proposals |-> None]
    /\ sends = [q \in Rows |-> 0]

(* The first tap: a row that is no other proposal's. *)
Queue(p, q) ==
    /\ stage[p] = "OPEN"
    /\ \A o \in Proposals : approved[o] # q
    /\ stage' = [stage EXCEPT ![p] = "QUEUED"]
    /\ approved' = [approved EXCEPT ![p] = q]
    /\ UNCHANGED sends

(* Cancelled, refused, or past their deadlines, several at once. *)
Stop(stopped) ==
    /\ stopped # {} /\ \A p \in stopped : stage[p] \in {"OPEN", "QUEUED"}
    /\ stage' = [p \in Proposals |-> IF p \in stopped THEN "STOPPED" ELSE stage[p]]
    /\ UNCHANGED <<approved, sends>>

(* The second tap. *)
Claim(p) ==
    /\ stage[p] = "QUEUED"
    /\ stage' = [stage EXCEPT ![p] = "CLAIMED"]
    /\ UNCHANGED <<approved, sends>>

Send(p) ==
    /\ stage[p] = "CLAIMED"
    /\ sends[approved[p]] = 0
    /\ stage' = [stage EXCEPT ![p] = "SENT"]
    /\ sends' = [sends EXCEPT ![approved[p]] = 1]
    /\ UNCHANGED approved

Next ==
    \/ \E p \in Proposals : Claim(p) \/ Send(p) \/ \E q \in Rows : Queue(p, q)
    \/ \E stopped \in SUBSET Proposals : Stop(stopped)

Spec == Init /\ [][Next]_promiseVars

=============================================================================
