---------------------------- MODULE OrderPromise ----------------------------
(***************************************************************************)
(* What the paper-trading path promises about one approved order, whatever *)
(* the interleaving of requests behind it: the broker is asked to work it  *)
(* at most once, and the local ledger books it at most once, for the whole *)
(* quantity, and only after the broker has filled it.                      *)
(*                                                                         *)
(* PaperOrders implements this specification (PaperOrders!PromiseKept).    *)
(***************************************************************************)
EXTENDS Naturals

CONSTANTS
    Rows,       \* rows of the approval queue
    Qty         \* the quantity each row orders

VARIABLES
    stage,      \* what the broker has done with the order of each row
    booked      \* the quantity the local ledger holds as filled for each row

promiseVars == <<stage, booked>>

Stages == {"QUEUED", "WORKING", "FILLED", "CLOSED"}

PromiseTypeOK ==
    /\ stage \in [Rows -> Stages]
    /\ booked \in [Rows -> Nat]

Init ==
    /\ stage = [r \in Rows |-> "QUEUED"]
    /\ booked = [r \in Rows |-> 0]

(* The one order of a row reaches the broker. *)
Place(r) ==
    /\ stage[r] = "QUEUED"
    /\ stage' = [stage EXCEPT ![r] = "WORKING"]
    /\ UNCHANGED booked

(* The broker completes the order. *)
Fill(r) ==
    /\ stage[r] = "WORKING"
    /\ stage' = [stage EXCEPT ![r] = "FILLED"]
    /\ UNCHANGED booked

(* The broker cancels, rejects or expires the order before it is complete. *)
Close(r) ==
    /\ stage[r] = "WORKING"
    /\ stage' = [stage EXCEPT ![r] = "CLOSED"]
    /\ UNCHANGED booked

(* The ledger books the fill. *)
Book(r) ==
    /\ stage[r] = "FILLED"
    /\ booked[r] = 0
    /\ booked' = [booked EXCEPT ![r] = Qty[r]]
    /\ UNCHANGED stage

Next == \E r \in Rows : Place(r) \/ Fill(r) \/ Close(r) \/ Book(r)

Spec == Init /\ [][Next]_promiseVars

=============================================================================
