----------------------------- MODULE TwoTapProofs -----------------------------
(***************************************************************************)
(* Proofs about TwoTap for every set of proposals, rows and relays.        *)
(***************************************************************************)
EXTENDS TwoTap, TLAPS

(* A relay acts only on a press the owner made. *)
PressesOK ==
    /\ updates \subseteq pressed
    /\ \A x \in Relays : pc[x] # "idle" =>
         job[x].on \in Proposals /\ <<job[x].act, job[x].on>> \in pressed

Claimed == {"EXECUTING", "EXECUTED", "EXECUTION_UNCERTAIN", "DRY_RUN", "REJECTED"}

(* A row is recorded once, on the way out of PENDING, and a claimed        *)
(* proposal never comes back to a status that a tap could act on.          *)
StoreOK ==
    \A p \in Proposals :
        /\ status[p] \in {"NONE", "PENDING"} => queue_id[p] = None
        /\ status[p] = "QUEUED" => queue_id[p] # None
        /\ attempted[p] => status[p] \in Claimed
        /\ queue_id[p] # None =>
             /\ row[queue_id[p]] = p /\ ready[queue_id[p]]
             /\ <<"APPROVE", p>> \in pressed

(* Whatever was sent is the recorded row of a claimed proposal. *)
SentOK ==
    \A q \in Rows :
        /\ sends[q] <= 1
        /\ sends[q] > 0 =>
             /\ row[q] \in Proposals
             /\ attempted[row[q]] /\ queue_id[row[q]] = q
             /\ <<"EXECUTE", row[q]>> \in pressed

(* What a relay knows at each step of a callback. *)
Knows(x) ==
    /\ pc[x] \in {"approve", "spoil", "mark", "marked"} => job[x].act = "APPROVE"
    /\ pc[x] \in {"market", "claim", "send"} => job[x].act = "EXECUTE"
    /\ pc[x] \in {"mark", "marked"} =>
         /\ job[x].seen \in Rows
         /\ row[job[x].seen] = job[x].on /\ ready[job[x].seen]
    /\ pc[x] \in {"market", "claim", "send"} =>
         /\ job[x].seen \in Rows
         /\ queue_id[job[x].on] = job[x].seen
    /\ pc[x] = "send" => attempted[job[x].on] /\ sends[job[x].seen] = 0
    /\ pc[x] = "record" =>
         /\ attempted[job[x].on]
         /\ job[x].outcome \in {"EXECUTED", "EXECUTION_UNCERTAIN", "DRY_RUN"}

JobsOK == \A x \in Relays : Knows(x)

(* The claim admits one relay, until it has recorded the outcome. *)
Claims(x) == pc[x] \in {"send", "record"}

OneSender ==
    \A x, y \in Relays : Claims(x) /\ Claims(y) /\ job[x].on = job[y].on => x = y

Inv == TypeOK /\ PressesOK /\ StoreOK /\ SentOK /\ JobsOK /\ OneSender

THEOREM InitInv == Init => Inv
<1> SUFFICES ASSUME Init PROVE Inv
  OBVIOUS
<1>1. TypeOK
  BY TwoTapAssumption DEF TwoTapAssumption, Init, TypeOK, NoJob, Job, Statuses, Cards, Steps
<1>2. PressesOK /\ StoreOK /\ SentOK /\ JobsOK /\ OneSender
  BY DEF Init, PressesOK, StoreOK, SentOK, JobsOK, Knows, OneSender, Claims
<1> QED
  BY <1>1, <1>2 DEF Inv

(* A step of one relay that leaves the store and the backend alone. *)
LEMMA QuietStep ==
    ASSUME Inv, NEW x \in Relays, NEW s \in Steps, NEW j \in Job, Goto(x, s, j),
           UNCHANGED <<store, pressed, backend>>,
           updates' \subseteq updates, card' \in [Proposals -> Cards], faults' \in 0..FaultBudget,
           s # "idle" => j.on \in Proposals /\ <<j.act, j.on>> \in pressed,
           s \in {"approve", "spoil", "mark", "marked"} => j.act = "APPROVE",
           s \in {"market", "claim"} => j.act = "EXECUTE",
           s \in {"mark", "marked"} =>
               j.seen \in Rows /\ row[j.seen] = j.on /\ ready[j.seen],
           s \in {"market", "claim"} => j.seen \in Rows /\ queue_id[j.on] = j.seen,
           s \notin {"send", "record"}
    PROVE  Inv'
<1>1. TypeOK'
  BY DEF Inv, TypeOK, Goto, store, backend
<1>2. PressesOK'
  BY DEF Inv, TypeOK, PressesOK, Goto
<1>3. StoreOK' /\ SentOK'
  BY DEF Inv, StoreOK, SentOK, store, backend
<1>4. JobsOK'
  BY DEF Inv, TypeOK, JobsOK, Knows, Goto, store, backend
<1>5. OneSender'
  BY DEF Inv, TypeOK, OneSender, Claims, Goto
<1> QED
  BY <1>1, <1>2, <1>3, <1>4, <1>5 DEF Inv

(* What a busy relay holds, read off the invariant. *)
LEMMA Busy ==
    ASSUME Inv, NEW x \in Relays, pc[x] # "idle"
    PROVE  /\ job[x] \in Job
           /\ job[x].on \in Proposals
           /\ <<job[x].act, job[x].on>> \in pressed
           /\ faults \in 0..FaultBudget /\ card \in [Proposals -> Cards]
  BY DEF Inv, TypeOK, PressesOK

LEMMA TellStep ==
    ASSUME Inv, NEW x \in Relays, pc[x] # "idle", NEW c \in Cards, Tell(x, c),
           UNCHANGED <<store, telegram, backend>>, faults' \in 0..FaultBudget
    PROVE  Inv'
<1> DEFINE j == [job[x] EXCEPT !.says = c]
<1>1. j \in Job /\ j.on = job[x].on /\ j.act = job[x].act
  BY Busy DEF Job
<1>2. Goto(x, "show", j) /\ "show" \in Steps
  BY DEF Tell, Steps
<1>3. /\ UNCHANGED <<store, pressed, backend>>
      /\ updates' \subseteq updates /\ card' \in [Proposals -> Cards]
  BY Busy DEF telegram
<1> HIDE DEF j
<1> QED
  BY <1>1, <1>2, <1>3, Busy, QuietStep

LEMMA FaultOK ==
    ASSUME Inv, Fault \/ NoFault
    PROVE  faults' \in 0..FaultBudget
  BY TwoTapAssumption DEF TwoTapAssumption, Inv, TypeOK, Fault, NoFault

(* Steps that only read, answer or edit the card. *)
LEMMA QuietActions ==
    ASSUME Inv, NEW x \in Relays,
           \/ \E a \in Actions, p \in Proposals : Poll(x, a, p)
           \/ Load(x) \/ ApproveRefused(x) \/ MarkRead(x) \/ OfferButtons(x)
           \/ MarketOpen(x) \/ MarketClosed(x)
           \/ Show(x) \/ ShowLost(x) \/ Confirm(x) \/ Crash(x)
    PROVE  Inv'
<1> USE FaultOK
<1>0. /\ {"OUTCOME", "STALE", "NOTHING_QUEUED", "CONFIRM", "QUEUED_ONLY"} \subseteq Cards
      /\ {"idle", "expire", "hold", "approve", "market", "claim", "marked", "confirm"}
           \subseteq Steps
  BY DEF Cards, Steps
<1>1. CASE \E a \in Actions, p \in Proposals : Poll(x, a, p)
  <2>1. PICK a \in Actions, p \in Proposals : Poll(x, a, p)
    BY <1>1
  <2> DEFINE j == [NoJob EXCEPT !.act = a, !.on = p]
  <2>2. NoJob \in Job
    BY DEF NoJob, Job, Statuses, Cards
  <2>3. j \in Job /\ j.act = a /\ j.on = p
    BY <2>2 DEF Job
  <2>4. /\ Goto(x, "expire", j) /\ <<a, p>> \in pressed
        /\ UNCHANGED <<store, pressed, backend>>
        /\ updates' \subseteq updates /\ card' \in [Proposals -> Cards]
    BY <2>1 DEF Poll, telegram, Inv, PressesOK, TypeOK
  <2>5. faults' \in 0..FaultBudget
    BY <2>1 DEF Poll
  <2> HIDE DEF j
  <2> QED
    BY <1>0, <2>3, <2>4, <2>5, QuietStep
<1>2. CASE Load(x)
  <2> DEFINE j == [job[x] EXCEPT !.seen = queue_id[job[x].on]]
  <2>1. pc[x] # "idle" /\ faults' \in 0..FaultBudget
    BY <1>2 DEF Load
  <2>2. queue_id[job[x].on] \in Rows \cup {None}
    BY <2>1, Busy DEF Inv, TypeOK
  <2>3. /\ j \in Job /\ j.on = job[x].on /\ j.act = job[x].act
        /\ j.seen = queue_id[job[x].on]
    BY <2>1, <2>2, Busy DEF Job
  <2>4. \/ job[x].act = "REJECT" /\ Goto(x, "hold", j)
        \/ job[x].act = "APPROVE" /\ status[job[x].on] = "PENDING" /\ Goto(x, "approve", j)
        \/ job[x].act = "EXECUTE" /\ status[job[x].on] = "QUEUED" /\ Goto(x, "market", j)
        \/ Tell(x, "STALE")
    BY <1>2 DEF Load
  <2>5. UNCHANGED <<store, telegram, backend>>
    BY <1>2 DEF Load
  <2>6. /\ updates' \subseteq updates /\ card' \in [Proposals -> Cards]
        /\ UNCHANGED <<store, pressed, backend>>
    BY <2>1, <2>5, Busy DEF telegram
  <2>7. status[job[x].on] = "QUEUED" => queue_id[job[x].on] \in Rows
    BY <2>1, <2>2, Busy DEF Inv, StoreOK
  <2> HIDE DEF j
  <2>8. CASE job[x].act = "REJECT" /\ Goto(x, "hold", j)
    BY <1>0, <2>1, <2>3, <2>6, <2>8, Busy, QuietStep
  <2>9. CASE job[x].act = "APPROVE" /\ Goto(x, "approve", j)
    BY <1>0, <2>1, <2>3, <2>6, <2>9, Busy, QuietStep
  <2>10. CASE /\ job[x].act = "EXECUTE" /\ status[job[x].on] = "QUEUED"
              /\ Goto(x, "market", j)
    BY <1>0, <2>1, <2>3, <2>6, <2>7, <2>10, Busy, QuietStep
  <2>11. CASE Tell(x, "STALE")
    BY <1>0, <2>1, <2>5, <2>11, TellStep
  <2> QED
    BY <2>4, <2>8, <2>9, <2>10, <2>11
<1>3. CASE ApproveRefused(x) \/ MarketClosed(x)
  <2>1. /\ pc[x] # "idle" /\ faults' \in 0..FaultBudget
        /\ UNCHANGED <<store, telegram, backend>>
        /\ Tell(x, "NOTHING_QUEUED") \/ Tell(x, "OUTCOME")
    BY <1>3 DEF ApproveRefused, MarketClosed
  <2> QED
    BY <1>0, <2>1, TellStep
<1>4. CASE OfferButtons(x)
  <2>1. /\ pc[x] # "idle" /\ faults' \in 0..FaultBudget
        /\ UNCHANGED <<store, telegram, backend>>
        /\ Tell(x, "CONFIRM") \/ Tell(x, "QUEUED_ONLY")
    BY <1>4 DEF OfferButtons
  <2> QED
    BY <1>0, <2>1, TellStep
<1>5. CASE MarkRead(x) \/ MarketOpen(x)
  <2>1. /\ pc[x] # "idle" /\ faults' \in 0..FaultBudget
        /\ UNCHANGED <<store, telegram, backend>>
        /\ \/ pc[x] = "mark" /\ Goto(x, "marked", job[x])
           \/ pc[x] = "market" /\ Goto(x, "claim", job[x])
           \/ Tell(x, "NOTHING_QUEUED")
    BY <1>5 DEF MarkRead, MarketOpen
  <2>2. /\ updates' \subseteq updates /\ card' \in [Proposals -> Cards]
        /\ UNCHANGED <<store, pressed, backend>>
    BY <2>1, Busy DEF telegram
  <2>3. CASE Tell(x, "NOTHING_QUEUED")
    BY <1>0, <2>1, <2>3, TellStep
  <2>4. CASE pc[x] = "mark" /\ Goto(x, "marked", job[x])
    <3>1. /\ job[x].act = "APPROVE" /\ job[x].seen \in Rows
          /\ row[job[x].seen] = job[x].on /\ ready[job[x].seen]
      BY <2>4 DEF Inv, JobsOK, Knows
    <3> QED
      BY <1>0, <2>1, <2>2, <2>4, <3>1, Busy, QuietStep
  <2>5. CASE pc[x] = "market" /\ Goto(x, "claim", job[x])
    <3>1. /\ job[x].act = "EXECUTE" /\ job[x].seen \in Rows
          /\ queue_id[job[x].on] = job[x].seen
      BY <2>5 DEF Inv, JobsOK, Knows
    <3> QED
      BY <1>0, <2>1, <2>2, <2>5, <3>1, Busy, QuietStep
  <2> QED
    BY <2>1, <2>3, <2>4, <2>5
<1>6. CASE Show(x) \/ ShowLost(x)
  <2>1. /\ pc[x] = "show" /\ Goto(x, "confirm", job[x]) /\ faults' \in 0..FaultBudget
        /\ UNCHANGED <<store, updates, pressed, backend>>
        /\ card' = card \/ card' = [card EXCEPT ![job[x].on] = job[x].says]
    BY <1>6 DEF Show, ShowLost, telegram
  <2>2. card' \in [Proposals -> Cards]
    BY <2>1, Busy DEF Job
  <2>3. UNCHANGED <<store, pressed, backend>> /\ updates' \subseteq updates
    BY <2>1
  <2>4. /\ job[x] \in Job /\ job[x].on \in Proposals
        /\ <<job[x].act, job[x].on>> \in pressed
    BY <2>1, Busy
  <2>5. Goto(x, "confirm", job[x]) /\ faults' \in 0..FaultBudget /\ "confirm" \in Steps
    BY <1>0, <2>1
  <2> QED
    BY <2>2, <2>3, <2>4, <2>5, QuietStep
<1>7. CASE Confirm(x) \/ Crash(x)
  <2>1. /\ pc[x] # "idle" /\ Goto(x, "idle", NoJob) /\ faults' \in 0..FaultBudget
        /\ UNCHANGED <<store, pressed, backend>>
        /\ updates' \subseteq updates /\ UNCHANGED card
    BY <1>7 DEF Confirm, Crash, telegram
  <2>2. NoJob \in Job
    BY DEF NoJob, Job, Statuses, Cards
  <2> QED
    BY <1>0, <2>1, <2>2, Busy, QuietStep
<1> QED
  BY <1>1, <1>2, <1>3, <1>4, <1>5, <1>6, <1>7

(* A step of one relay that writes the store. *)
LEMMA StoreStep ==
    ASSUME Inv, NEW x \in Relays, pc[x] # "idle", NEW s \in Steps, NEW j \in Job,
           Goto(x, s, j), NoFault, UNCHANGED <<telegram, backend>>,
           status' \in [Proposals -> Statuses], queue_id' \in [Proposals -> Rows \cup {None}],
           attempted' \in [Proposals -> BOOLEAN], due' \subseteq Proposals,
           \A p \in Proposals : queue_id[p] # None => queue_id'[p] = queue_id[p],
           \A p \in Proposals : attempted[p] => attempted'[p],
           StoreOK',
           j.on = job[x].on, j.act = job[x].act,
           s \in {"load", "show", "buttons", "send", "record"},
           s = "send" =>
               /\ j.act = "EXECUTE" /\ j.seen \in Rows /\ queue_id[j.on] = j.seen
               /\ ~attempted[j.on] /\ attempted'[j.on],
           s = "record" =>
               /\ ~attempted[j.on] /\ attempted'[j.on]
               /\ j.outcome \in {"EXECUTED", "EXECUTION_UNCERTAIN", "DRY_RUN"}
    PROVE  Inv'
<1>1. TypeOK'
  BY DEF Inv, TypeOK, Goto, NoFault, telegram, backend
<1>2. PressesOK'
  BY DEF Inv, TypeOK, PressesOK, Goto, telegram
<1>0. /\ job[x].on \in Proposals /\ None \notin Rows
      /\ sends \in [Rows -> Nat] /\ attempted \in [Proposals -> BOOLEAN]
  BY Busy, TwoTapAssumption DEF TwoTapAssumption, Inv, TypeOK
<1>3. SentOK'
  BY <1>0 DEF Inv, SentOK, telegram, backend
<1>4. s = "send" => sends[j.seen] = 0
  <2> SUFFICES ASSUME s = "send" PROVE sends[j.seen] = 0
    OBVIOUS
  <2>1. /\ j.on \in Proposals /\ j.seen \in Rows /\ j.seen # None
        /\ queue_id[j.on] = j.seen /\ ~attempted[j.on]
    BY <1>0
  <2>2. StoreOK /\ SentOK
    BY DEF Inv
  <2>3. row[j.seen] = j.on
    BY <2>1, <2>2 DEF StoreOK
  <2>4. ~(sends[j.seen] > 0)
    BY <2>1, <2>2, <2>3 DEF SentOK
  <2>5. sends[j.seen] \in Nat
    BY <1>0, <2>1
  <2> QED
    BY <2>4, <2>5
<1>5. JobsOK'
  <2> SUFFICES ASSUME NEW y \in Relays PROVE Knows(y)'
    BY DEF JobsOK
  <2>1. CASE y = x
    <3>1. pc'[y] = s /\ job'[y] = j
      BY <2>1 DEF Goto, Inv, TypeOK
    <3> QED
      BY <1>0, <1>4, <3>1 DEF Knows, backend
  <2>2. CASE y # x
    <3>1. pc'[y] = pc[y] /\ job'[y] = job[y]
      BY <2>2 DEF Goto, Inv, TypeOK
    <3>2. pc[y] # "idle" => job[y].on \in Proposals
      BY DEF Inv, PressesOK
    <3>3. Knows(y)
      BY DEF Inv, JobsOK
    <3> QED
      BY <1>0, <3>1, <3>2, <3>3 DEF Knows, backend
  <2> QED
    BY <2>1, <2>2
<1>6. OneSender'
  <2>1. \A y \in Relays : Claims(y) => attempted[job[y].on]
    BY DEF Inv, JobsOK, Knows, Claims
  <2> QED
    BY <2>1 DEF Inv, TypeOK, OneSender, Claims, Goto
<1> QED
  BY <1>1, <1>2, <1>3, <1>5, <1>6 DEF Inv

(* expire_due moves only proposals that nobody has claimed. *)
LEMMA ExpireStore ==
    ASSUME Inv, ExpireDue, UNCHANGED <<pressed, backend>>
    PROVE  /\ StoreOK'
           /\ status' \in [Proposals -> Statuses] /\ due' \subseteq Proposals
           /\ UNCHANGED <<queue_id, attempted>>
<1>1. /\ status' \in [Proposals -> Statuses] /\ due' \subseteq Proposals
      /\ UNCHANGED <<queue_id, attempted>>
      /\ \A p \in Proposals :
           \/ status'[p] = status[p]
           \/ status[p] \in {"PENDING", "QUEUED"} /\ status'[p] \in {"EXPIRED", "QUEUE_EXPIRED"}
  BY DEF ExpireDue, Lapsed, Inv, TypeOK, Statuses
<1>2. StoreOK'
  BY <1>1 DEF Inv, StoreOK, Claimed, backend
<1> QED
  BY <1>1, <1>2

LEMMA StoreActions ==
    ASSUME Inv, NEW x \in Relays,
           \/ Expire(x) \/ Hold(x) \/ Spoil(x) \/ MarkWrite(x) \/ Claim(x) \/ Record(x)
    PROVE  Inv'
<1> DEFINE p == job[x].on
<1>0. /\ {"OUTCOME", "NOTHING_QUEUED", "NOTHING_SUBMITTED"} \subseteq Cards
      /\ {"load", "show", "buttons", "send", "record"} \subseteq Steps
      /\ {"HELD", "REJECTED", "QUEUED", "EXECUTING", "EXECUTED", "EXECUTION_UNCERTAIN",
          "DRY_RUN"} \subseteq Statuses
      /\ None \notin Rows
  BY TwoTapAssumption DEF TwoTapAssumption, Cards, Steps, Statuses
<1>1. /\ pc[x] # "idle" /\ NoFault /\ UNCHANGED <<telegram, backend>>
      /\ p \in Proposals /\ job[x] \in Job
  <2>1. pc[x] # "idle" /\ NoFault /\ UNCHANGED <<telegram, backend>>
    BY DEF Expire, Hold, Spoil, MarkWrite, Claim, Record
  <2> QED
    BY <2>1, Busy
<1>2. /\ status \in [Proposals -> Statuses] /\ queue_id \in [Proposals -> Rows \cup {None}]
      /\ attempted \in [Proposals -> BOOLEAN] /\ due \subseteq Proposals
      /\ StoreOK /\ Knows(x)
  BY DEF Inv, TypeOK, JobsOK
<1>3. CASE Expire(x)
  <2>1. Goto(x, "load", job[x]) /\ ExpireDue /\ UNCHANGED <<pressed, backend>>
    BY <1>1, <1>3 DEF Expire, telegram
  <2>2. /\ StoreOK' /\ status' \in [Proposals -> Statuses] /\ due' \subseteq Proposals
        /\ UNCHANGED <<queue_id, attempted>>
    BY <2>1, ExpireStore
  <2> QED
    BY <1>0, <1>1, <1>2, <2>1, <2>2, StoreStep
<1>4. CASE Hold(x) \/ Spoil(x) \/ Record(x)
  <2>1. PICK c \in {"OUTCOME", "NOTHING_QUEUED", "NOTHING_SUBMITTED"} : Tell(x, c)
    BY <1>4 DEF Hold, Spoil, Record
  <2> DEFINE j == [job[x] EXCEPT !.says = c]
  <2>2. Goto(x, "show", j) /\ j \in Job /\ j.on = job[x].on /\ j.act = job[x].act
    BY <1>0, <1>1, <2>1 DEF Tell, Job
  <2>3. /\ UNCHANGED <<queue_id, attempted, due>>
        /\ \/ status' = status
           \/ status[p] \in {"PENDING", "QUEUED"} /\ status' = [status EXCEPT ![p] = "HELD"]
           \/ status' = [status EXCEPT ![p] = "REJECTED"]
           \/ \E t \in {"EXECUTED", "EXECUTION_UNCERTAIN", "DRY_RUN"} :
                status' = [status EXCEPT ![p] = t]
    BY <1>2, <1>4 DEF Hold, Holdable, Spoil, Record, Knows
  <2>4. /\ status' \in [Proposals -> Statuses]
        /\ \A o \in Proposals :
             \/ status'[o] = status[o]
             \/ status[o] \in {"PENDING", "QUEUED"} /\ status'[o] = "HELD"
             \/ status'[o] \in {"REJECTED", "EXECUTED", "EXECUTION_UNCERTAIN", "DRY_RUN"}
    BY <1>0, <1>1, <1>2, <2>3
  <2>5. StoreOK'
    BY <1>1, <1>2, <2>3, <2>4 DEF StoreOK, Claimed, telegram, backend
  <2> HIDE DEF j
  <2> QED
    BY <1>0, <1>1, <1>2, <2>2, <2>3, <2>4, <2>5, StoreStep
<1>5. CASE MarkWrite(x)
  <2>1. Goto(x, "buttons", job[x]) /\ pc[x] = "marked"
    BY <1>5 DEF MarkWrite
  <2>2. CASE Queueable(p)
    <3>1. /\ status' = [status EXCEPT ![p] = "QUEUED"] /\ status[p] = "PENDING"
          /\ queue_id' = [queue_id EXCEPT ![p] = job[x].seen]
          /\ due' = due \ {p} /\ UNCHANGED attempted
      BY <1>5, <2>2 DEF MarkWrite, Queueable
    <3>2. /\ job[x].seen \in Rows /\ row[job[x].seen] = p /\ ready[job[x].seen]
          /\ <<"APPROVE", p>> \in pressed
      BY <1>2, <2>1, Busy DEF Knows
    <3>3. queue_id[p] = None /\ ~attempted[p]
      BY <1>1, <1>2, <3>1 DEF StoreOK, Claimed
    <3>4. StoreOK'
      <4> SUFFICES ASSUME NEW o \in Proposals
          PROVE  /\ status'[o] \in {"NONE", "PENDING"} => queue_id'[o] = None
                 /\ status'[o] = "QUEUED" => queue_id'[o] # None
                 /\ attempted'[o] => status'[o] \in Claimed
                 /\ queue_id'[o] # None =>
                      /\ row'[queue_id'[o]] = o /\ ready'[queue_id'[o]]
                      /\ <<"APPROVE", o>> \in pressed'
        BY DEF StoreOK, Claimed
      <4>1. CASE o = p
        BY <1>0, <1>1, <1>2, <3>1, <3>2, <3>3, <4>1 DEF telegram, backend
      <4>2. CASE o # p
        <5>1. status'[o] = status[o] /\ queue_id'[o] = queue_id[o]
          BY <1>2, <3>1, <4>2
        <5> QED
          BY <1>1, <1>2, <3>1, <5>1 DEF StoreOK, telegram, backend
      <4> QED
        BY <4>1, <4>2
    <3>5. /\ status' \in [Proposals -> Statuses] /\ due' \subseteq Proposals
          /\ queue_id' \in [Proposals -> Rows \cup {None}]
          /\ \A o \in Proposals : queue_id[o] # None => queue_id'[o] = queue_id[o]
      BY <1>0, <1>1, <1>2, <3>1, <3>2, <3>3
    <3> QED
      BY <1>0, <1>1, <1>2, <2>1, <3>1, <3>4, <3>5, StoreStep
  <2>3. CASE ~Queueable(p)
    <3>1. UNCHANGED store
      BY <1>5, <2>3 DEF MarkWrite
    <3>2. StoreOK'
      BY <1>1, <1>2, <3>1 DEF StoreOK, store, telegram, backend
    <3> QED
      BY <1>0, <1>1, <1>2, <2>1, <3>1, <3>2, StoreStep DEF store
  <2> QED
    BY <2>2, <2>3
<1>6. CASE Claim(x)
  <2>1. /\ pc[x] = "claim" /\ job[x].act = "EXECUTE" /\ job[x].seen \in Rows
        /\ queue_id[p] = job[x].seen
    BY <1>2, <1>6 DEF Claim, Knows
  <2>2. CASE Claimable(p)
    <3>1. /\ status' = [status EXCEPT ![p] = "EXECUTING"] /\ status[p] = "QUEUED"
          /\ attempted' = [attempted EXCEPT ![p] = TRUE] /\ ~attempted[p]
          /\ UNCHANGED <<queue_id, due>>
          /\ \/ Goto(x, "send", job[x])
             \/ Goto(x, "record", [job[x] EXCEPT !.outcome = "DRY_RUN"])
      BY <1>6, <2>2 DEF Claim, Claimable
    <3>2. /\ status' \in [Proposals -> Statuses] /\ attempted' \in [Proposals -> BOOLEAN]
          /\ attempted'[p] /\ \A o \in Proposals : attempted[o] => attempted'[o]
          /\ \A o \in Proposals : o # p =>
               status'[o] = status[o] /\ attempted'[o] = attempted[o]
          /\ status'[p] = "EXECUTING"
      BY <1>0, <1>1, <1>2, <3>1
    <3>3. StoreOK'
      BY <1>1, <1>2, <3>1, <3>2 DEF StoreOK, Claimed, telegram, backend
    <3>4. CASE Goto(x, "send", job[x])
      BY <1>0, <1>1, <1>2, <2>1, <3>1, <3>2, <3>3, <3>4, StoreStep
    <3>5. CASE Goto(x, "record", [job[x] EXCEPT !.outcome = "DRY_RUN"])
      <4> DEFINE j == [job[x] EXCEPT !.outcome = "DRY_RUN"]
      <4>1. /\ Goto(x, "record", j) /\ j \in Job /\ j.on = job[x].on /\ j.act = job[x].act
            /\ j.outcome = "DRY_RUN"
        BY <1>0, <1>1, <3>5 DEF Job
      <4> HIDE DEF j
      <4> QED
        BY <1>0, <1>1, <1>2, <2>1, <3>1, <3>2, <3>3, <4>1, StoreStep
    <3> QED
      BY <3>1, <3>4, <3>5
  <2>3. CASE ~Claimable(p)
    <3>1. Tell(x, "OUTCOME") /\ UNCHANGED store
      BY <1>6, <2>3 DEF Claim
    <3>2. faults' \in 0..FaultBudget
      BY <1>1, FaultOK
    <3> QED
      BY <1>0, <1>1, <3>1, <3>2, TellStep
  <2> QED
    BY <2>2, <2>3
<1> QED
  BY <1>3, <1>4, <1>5, <1>6

(* POST /paper/approval: the new row belongs to nobody else. *)
LEMMA CreateActions ==
    ASSUME Inv, NEW x \in Relays, NEW q \in Rows, Approve(x, q) \/ ApproveLost(x, q)
    PROVE  Inv'
<1> DEFINE p == job[x].on
<1>0. /\ "NOTHING_QUEUED" \in Cards /\ {"mark", "spoil", "show"} \subseteq Steps
      /\ None \notin Proposals
  BY TwoTapAssumption DEF TwoTapAssumption, Cards, Steps
<1>1. PICK ok \in BOOLEAN, s \in {"mark", "spoil", "show"}, c \in {job[x].says, "NOTHING_QUEUED"},
           n \in {q, job[x].seen} :
        /\ CreateRow(q, p, ok)
        /\ Goto(x, s, [job[x] EXCEPT !.seen = n, !.says = c])
        /\ s = "mark" => ok /\ n = q
  <2>1. CASE Approve(x, q)
    <3>1. PICK ok \in BOOLEAN :
            /\ CreateRow(q, p, ok)
            /\ Goto(x, IF ok THEN "mark" ELSE "spoil", [job[x] EXCEPT !.seen = q])
      BY <2>1 DEF Approve
    <3>2. [job[x] EXCEPT !.seen = q] = [job[x] EXCEPT !.seen = q, !.says = job[x].says]
      BY <2>1, Busy DEF Approve, Job
    <3> QED
      BY <3>1, <3>2
  <2>2. CASE ApproveLost(x, q)
    <3>1. PICK ok \in BOOLEAN : CreateRow(q, p, ok)
      BY <2>2 DEF ApproveLost
    <3>2. Goto(x, "show", [job[x] EXCEPT !.says = "NOTHING_QUEUED"])
      BY <2>2 DEF ApproveLost, Tell
    <3>3. [job[x] EXCEPT !.says = "NOTHING_QUEUED"] =
            [job[x] EXCEPT !.seen = job[x].seen, !.says = "NOTHING_QUEUED"]
      BY <2>2, Busy DEF ApproveLost, Job
    <3> QED
      BY <3>1, <3>2, <3>3
  <2> QED
    BY <2>1, <2>2
<1> DEFINE j == [job[x] EXCEPT !.seen = n, !.says = c]
<1>2. /\ pc[x] = "approve" /\ UNCHANGED <<store, telegram>> /\ faults' \in 0..FaultBudget
  BY FaultOK DEF Approve, ApproveLost
<1>3. /\ p \in Proposals /\ job[x] \in Job /\ <<job[x].act, p>> \in pressed
      /\ job[x].act = "APPROVE"
  BY <1>2, Busy DEF Inv, JobsOK, Knows
<1>4. /\ j \in Job /\ j.on = p /\ j.act = "APPROVE" /\ j.seen = n
  BY <1>0, <1>3 DEF Job
<1>5. /\ row[q] = None /\ row' \in [Rows -> Proposals \cup {None}] /\ row'[q] = p
      /\ ready' \in [Rows -> BOOLEAN] /\ ready'[q] = ok
      /\ \A r \in Rows : r # q => row'[r] = row[r] /\ ready'[r] = ready[r]
      /\ UNCHANGED <<sends, submitted>>
  BY <1>1, <1>3 DEF CreateRow, Inv, TypeOK
<1>6. Goto(x, s, j) /\ (s = "mark" => ok /\ j.seen = q)
  BY <1>1, <1>4
<1> HIDE DEF j
<1>7. TypeOK'
  BY <1>0, <1>2, <1>4, <1>5, <1>6 DEF Inv, TypeOK, Goto, store, telegram
<1>8. PressesOK'
  BY <1>2, <1>3, <1>4, <1>6 DEF Inv, TypeOK, PressesOK, Goto, telegram
<1>9. StoreOK'
  <2>1. ASSUME NEW o \in Proposals, queue_id[o] # None
        PROVE  queue_id[o] # q /\ queue_id[o] \in Rows
    <3>1. row[queue_id[o]] = o
      BY <2>1 DEF Inv, StoreOK
    <3>2. queue_id[o] \in Rows
      BY <2>1 DEF Inv, TypeOK
    <3> QED
      BY <1>0, <1>5, <3>1, <3>2
  <2> QED
    BY <1>2, <1>5, <2>1 DEF Inv, StoreOK, store, telegram
<1>10. SentOK'
  BY <1>0, <1>2, <1>5 DEF Inv, SentOK, store, telegram
<1>11. JobsOK'
  <2> SUFFICES ASSUME NEW y \in Relays PROVE Knows(y)'
    BY DEF JobsOK
  <2>1. CASE y = x
    <3>1. pc'[y] = s /\ job'[y] = j
      BY <1>6, <2>1 DEF Goto, Inv, TypeOK
    <3> QED
      BY <1>4, <1>5, <1>6, <3>1 DEF Knows
  <2>2. CASE y # x
    <3>1. pc'[y] = pc[y] /\ job'[y] = job[y]
      BY <1>6, <2>2 DEF Goto, Inv, TypeOK
    <3>2. pc[y] # "idle" => job[y].on \in Proposals
      BY DEF Inv, PressesOK
    <3>3. Knows(y)
      BY DEF Inv, JobsOK
    <3> QED
      BY <1>0, <1>2, <1>5, <3>1, <3>2, <3>3 DEF Knows, store
  <2> QED
    BY <2>1, <2>2
<1>12. OneSender'
  BY <1>6 DEF Inv, TypeOK, OneSender, Claims, Goto
<1> QED
  BY <1>7, <1>8, <1>9, <1>10, <1>11, <1>12 DEF Inv

(* The execute request: the relay that sends is the only one. *)
LEMMA SendActions ==
    ASSUME Inv, NEW x \in Relays, SendAnswered(x) \/ SendRefused(x) \/ SendLost(x)
    PROVE  Inv'
<1> DEFINE p == job[x].on
           q == job[x].seen
<1>1. PICK t \in {"EXECUTED", "EXECUTION_UNCERTAIN"} :
        Goto(x, "record", [job[x] EXCEPT !.outcome = t])
  BY DEF SendAnswered, SendRefused, SendLost, Outcome
<1> DEFINE j == [job[x] EXCEPT !.outcome = t]
<1>2. /\ pc[x] = "send" /\ UNCHANGED <<store, telegram>> /\ faults' \in 0..FaultBudget
      /\ Issue(q) /\ submitted' \in [Rows -> BOOLEAN]
  BY FaultOK DEF SendAnswered, SendRefused, SendLost, IssueAndSubmit, Issue, Inv, TypeOK
<1>3. /\ p \in Proposals /\ job[x] \in Job /\ <<job[x].act, p>> \in pressed
      /\ job[x].act = "EXECUTE" /\ q \in Rows /\ queue_id[p] = q
      /\ attempted[p] /\ sends[q] = 0
  BY <1>2, Busy DEF Inv, JobsOK, Knows
<1>4. j \in Job /\ j.on = p /\ j.act = "EXECUTE" /\ j.outcome = t
  BY <1>3 DEF Job, Statuses
<1>5. /\ sends' \in [Rows -> Nat] /\ sends'[q] = 1
      /\ \A r \in Rows : r # q => sends'[r] = sends[r]
      /\ UNCHANGED <<row, ready>>
  BY <1>2, <1>3 DEF Issue, Inv, TypeOK
<1>6. row[q] = p
  BY <1>3, TwoTapAssumption DEF TwoTapAssumption, Inv, StoreOK
<1>7. Goto(x, "record", j) /\ "record" \in Steps
  BY <1>1 DEF Steps
<1> HIDE DEF j
<1>8. TypeOK'
  BY <1>2, <1>4, <1>5, <1>7 DEF Inv, TypeOK, Goto, store, telegram
<1>9. PressesOK'
  BY <1>2, <1>3, <1>4, <1>7 DEF Inv, TypeOK, PressesOK, Goto, telegram
<1>10. StoreOK'
  BY <1>2, <1>5 DEF Inv, StoreOK, store, telegram
<1>11. SentOK'
  BY <1>2, <1>3, <1>5, <1>6 DEF Inv, SentOK, store, telegram
<1>12. JobsOK'
  <2> SUFFICES ASSUME NEW y \in Relays PROVE Knows(y)'
    BY DEF JobsOK
  <2>1. CASE y = x
    <3>1. pc'[y] = "record" /\ job'[y] = j
      BY <1>7, <2>1 DEF Goto, Inv, TypeOK
    <3> QED
      BY <1>2, <1>3, <1>4, <3>1 DEF Knows, store
  <2>2. CASE y # x
    <3>1. pc'[y] = pc[y] /\ job'[y] = job[y]
      BY <1>7, <2>2 DEF Goto, Inv, TypeOK
    <3>2. Knows(y) /\ (pc[y] # "idle" => job[y].on \in Proposals)
      BY DEF Inv, JobsOK, PressesOK
    <3>3. pc[y] = "send" => job[y].seen # q
      <4> SUFFICES ASSUME pc[y] = "send", job[y].seen = q PROVE FALSE
        OBVIOUS
      <4>1. queue_id[job[y].on] = q /\ job[y].on \in Proposals
        BY <3>2 DEF Knows
      <4>2. job[y].on = p
        BY <1>3, <1>6, <4>1, TwoTapAssumption DEF TwoTapAssumption, Inv, StoreOK
      <4> QED
        BY <1>2, <2>2, <4>2 DEF Inv, OneSender, Claims
    <3> QED
      BY <1>2, <1>5, <3>1, <3>2, <3>3 DEF Knows, store
  <2> QED
    BY <2>1, <2>2
<1>13. OneSender'
  BY <1>2, <1>4, <1>7 DEF Inv, TypeOK, OneSender, Claims, Goto
<1> QED
  BY <1>8, <1>9, <1>10, <1>11, <1>12, <1>13 DEF Inv

(* Steps outside a callback: the owner, the clock and the sweep. *)
LEMMA OuterActions ==
    ASSUME Inv,
           \/ \E p \in Proposals :
                Propose(p) \/ DeadlinePasses(p) \/ \E a \in Actions : Press(a, p)
           \/ \E x \in Relays : Sweep(x)
    PROVE  Inv'
<1>1. ASSUME UNCHANGED <<queue_id, attempted, backend, keyed, pc, job, faults>>, TypeOK', StoreOK',
             updates' \subseteq pressed', pressed \subseteq pressed'
      PROVE  Inv'
  <2>1. PressesOK' /\ SentOK' /\ OneSender'
    BY <1>1 DEF Inv, PressesOK, SentOK, OneSender, Claims, backend
  <2>2. JobsOK'
    BY <1>1 DEF Inv, JobsOK, Knows, backend
  <2> QED
    BY <1>1, <2>1, <2>2 DEF Inv
<1>2. ASSUME NEW p \in Proposals, Propose(p) PROVE Inv'
  <2>1. /\ UNCHANGED <<queue_id, attempted, backend, keyed, pc, job, faults, updates, pressed>>
        /\ TypeOK'
    BY <1>2 DEF Propose, Inv, TypeOK, Statuses, Cards, backend
  <2>2. /\ status[p] = "NONE" /\ status'[p] = "PENDING"
        /\ \A o \in Proposals : o # p => status'[o] = status[o]
    BY <1>2 DEF Propose, Inv, TypeOK
  <2>3. StoreOK'
    BY <2>1, <2>2 DEF Inv, StoreOK, Claimed, backend
  <2> QED
    BY <1>1, <2>1, <2>3 DEF Inv, PressesOK
<1>3. ASSUME NEW p \in Proposals, DeadlinePasses(p) PROVE Inv'
  <2>1. /\ UNCHANGED <<queue_id, attempted, backend, keyed, pc, job, faults, updates, pressed, status>>
        /\ TypeOK'
    BY <1>3 DEF DeadlinePasses, Inv, TypeOK, telegram, backend
  <2>2. StoreOK'
    BY <2>1 DEF Inv, StoreOK, backend
  <2> QED
    BY <1>1, <2>1, <2>2 DEF Inv, PressesOK
<1>4. ASSUME NEW p \in Proposals, NEW a \in Actions, Press(a, p) PROVE Inv'
  <2>1. /\ UNCHANGED <<store, card, backend, keyed, pc, job, faults>>
        /\ updates' = updates \cup {<<a, p>>} /\ pressed' = pressed \cup {<<a, p>>}
        /\ <<a, p>> \in Presses
    BY <1>4 DEF Press, Presses
  <2>2. TypeOK'
    BY <2>1 DEF Inv, TypeOK, store, backend
  <2>3. StoreOK'
    BY <2>1 DEF Inv, StoreOK, store, backend
  <2> QED
    BY <1>1, <2>1, <2>2, <2>3 DEF Inv, PressesOK, store
<1>5. ASSUME NEW x \in Relays, Sweep(x) PROVE Inv'
  <2>1. ExpireDue /\ UNCHANGED <<updates, pressed, backend, keyed, pc, job, faults>>
    BY <1>5 DEF Sweep
  <2>2. /\ StoreOK' /\ status' \in [Proposals -> Statuses] /\ due' \subseteq Proposals
        /\ UNCHANGED <<queue_id, attempted>>
    BY <2>1, ExpireStore
  <2>3. card' \in [Proposals -> Cards]
    BY <1>5 DEF Sweep, Inv, TypeOK, Cards
  <2>4. TypeOK'
    BY <2>1, <2>2, <2>3 DEF Inv, TypeOK, backend
  <2> QED
    BY <1>1, <2>1, <2>2, <2>4 DEF Inv, PressesOK
<1> QED
  BY <1>2, <1>3, <1>4, <1>5

LEMMA StepInv == Inv /\ [Next]_vars => Inv'
<1> SUFFICES ASSUME Inv, [Next]_vars PROVE Inv'
  OBVIOUS
<1>1. CASE UNCHANGED vars
  BY <1>1 DEF vars, store, telegram, backend, Inv, TypeOK, PressesOK, StoreOK, SentOK, JobsOK,
     Knows, OneSender, Claims
<1>2. CASE Next
  BY <1>2, QuietActions, StoreActions, CreateActions, SendActions, OuterActions
  DEF Next, Callback
<1> QED
  BY <1>1, <1>2

(* Every reachable state of the relay, its store and Telegram is of the    *)
(* type the model declares.                                                *)
THEOREM TypeCorrect == Spec => []TypeOK
<1>1. Inv => TypeOK
  BY DEF Inv
<1> QED
  BY InitInv, StepInv, <1>1, PTL DEF Spec

(* However many relays are alive, callbacks redelivered and answers lost,  *)
(* a proposal is sent to /paper/execute at most once.                      *)
THEOREM SentOnce == Spec => []OneSendPerProposal
<1>1. Inv => OneSendPerProposal
  BY DEF Inv, SentOK, OneSendPerProposal
<1> QED
  BY InitInv, StepInv, <1>1, PTL DEF Spec

(* Only the row that the first tap got approved is sent, and only after    *)
(* the second tap.                                                         *)
THEOREM TwoTapsNeeded == Spec => []SentOnTwoTaps
<1>1. Inv => SentOnTwoTaps
  <2> SUFFICES ASSUME Inv, NEW q \in Rows, sends[q] > 0
               PROVE  /\ row[q] # None /\ ready[q] /\ queue_id[row[q]] = q
                      /\ <<"APPROVE", row[q]>> \in pressed /\ <<"EXECUTE", row[q]>> \in pressed
    BY DEF SentOnTwoTaps
  <2>1. row[q] \in Proposals /\ queue_id[row[q]] = q /\ <<"EXECUTE", row[q]>> \in pressed
    BY DEF Inv, SentOK
  <2> QED
    BY <2>1, TwoTapAssumption DEF TwoTapAssumption, Inv, StoreOK
<1> QED
  BY InitInv, StepInv, <1>1, PTL DEF Spec

-----------------------------------------------------------------------------
(* A proposal claimed for a dry run: the one relay that claimed it holds no *)
(* key, so nobody is left to send it.                                      *)
Unsent(p) == \A q \in Rows : row[q] = p => sends[q] = 0

DryOK ==
    /\ \A p \in Proposals : status[p] = "DRY_RUN" => Unsent(p)
    /\ \A x \in Relays : pc[x] = "send" => status[job[x].on] # "DRY_RUN"
    /\ \A x \in Relays : pc[x] = "record" /\ job[x].outcome = "DRY_RUN" => Unsent(job[x].on)

(* Most steps send nothing, create no row, record no dry run and claim     *)
(* nothing.                                                                *)
LEMMA CalmSteps ==
    ASSUME DryOK, UNCHANGED <<row, sends>>,
           \A p \in Proposals : status'[p] = "DRY_RUN" => status[p] = "DRY_RUN",
           \A x \in Relays : Claims(x)' => pc'[x] = pc[x] /\ job'[x] = job[x],
           PressesOK
    PROVE  DryOK'
<1>1. \A p : Unsent(p) => Unsent(p)'
  BY DEF Unsent
<1>2. \A p \in Proposals : status'[p] = "DRY_RUN" => Unsent(p)'
  BY <1>1 DEF DryOK
<1>3. ASSUME NEW x \in Relays, pc'[x] = "send" PROVE status'[job'[x].on] # "DRY_RUN"
  <2>1. pc[x] = "send" /\ job'[x] = job[x]
    BY <1>3 DEF Claims
  <2> QED
    BY <2>1 DEF DryOK, PressesOK
<1>4. ASSUME NEW x \in Relays, pc'[x] = "record", job'[x].outcome = "DRY_RUN"
      PROVE  Unsent(job[x].on)'
  <2>1. pc[x] = "record" /\ job'[x] = job[x]
    BY <1>4 DEF Claims
  <2> QED
    BY <1>4, <2>1 DEF DryOK, Unsent
<1> QED
  BY <1>2, <1>3, <1>4 DEF DryOK, Unsent

LEMMA DryStep == Inv /\ DryOK /\ [Next]_vars => DryOK'
<1> SUFFICES ASSUME Inv, DryOK, [Next]_vars PROVE DryOK'
  OBVIOUS
<1>0. /\ PressesOK /\ status \in [Proposals -> Statuses]
      /\ pc \in [Relays -> Steps] /\ job \in [Relays -> Job]
  BY DEF Inv, TypeOK
<1>1. CASE UNCHANGED vars
  BY <1>0, <1>1, CalmSteps DEF vars, store, backend, Claims
<1>2. CASE \E p \in Proposals : Propose(p) \/ DeadlinePasses(p) \/ \E a \in Actions : Press(a, p)
  <2>1. UNCHANGED <<row, sends, pc, job>>
    BY <1>2 DEF Propose, DeadlinePasses, Press, backend
  <2>2. \A p \in Proposals : status'[p] = "DRY_RUN" => status[p] = "DRY_RUN"
    BY <1>0, <1>2 DEF Propose, DeadlinePasses, Press, store
  <2> QED
    BY <1>0, <2>1, <2>2, CalmSteps DEF Claims
<1>3. ASSUME NEW x \in Relays, Sweep(x) PROVE DryOK'
  <2>1. UNCHANGED <<row, sends, pc, job>>
    BY <1>3 DEF Sweep, backend
  <2>2. \A p \in Proposals : status'[p] = "DRY_RUN" => status[p] = "DRY_RUN"
    BY <1>3 DEF Sweep, ExpireDue
  <2> QED
    BY <1>0, <2>1, <2>2, CalmSteps DEF Claims
<1>4. ASSUME NEW x \in Relays,
             \/ \E a \in Actions, p \in Proposals : Poll(x, a, p)
             \/ Expire(x) \/ Load(x) \/ Hold(x) \/ ApproveRefused(x) \/ Spoil(x) \/ MarkRead(x)
             \/ MarkWrite(x) \/ OfferButtons(x) \/ MarketOpen(x) \/ MarketClosed(x)
             \/ Show(x) \/ ShowLost(x) \/ Confirm(x) \/ Crash(x)
      PROVE  DryOK'
  <2>1. UNCHANGED <<row, sends>>
    BY <1>4 DEF Poll, Expire, Load, Hold, ApproveRefused, Spoil, MarkRead, MarkWrite,
       OfferButtons, MarketOpen, MarketClosed, Show, ShowLost, Confirm, Crash, backend
  <2>2. \A p \in Proposals : status'[p] = "DRY_RUN" => status[p] = "DRY_RUN"
    BY <1>0, <1>4 DEF Poll, Expire, ExpireDue, Load, Hold, ApproveRefused, Spoil, MarkRead,
       MarkWrite, OfferButtons, MarketOpen, MarketClosed, Show, ShowLost, Confirm, Crash, store
  <2>3. \A y \in Relays : Claims(y)' => pc'[y] = pc[y] /\ job'[y] = job[y]
    BY <1>0, <1>4 DEF Poll, Expire, Load, Hold, ApproveRefused, Spoil, MarkRead, MarkWrite,
       OfferButtons, MarketOpen, MarketClosed, Show, ShowLost, Confirm, Crash, Goto, Tell, Claims
  <2> QED
    BY <1>0, <2>1, <2>2, <2>3, CalmSteps
<1>5. ASSUME NEW x \in Relays, Claim(x) PROVE DryOK'
  <2> DEFINE p == job[x].on
  <2>1. CASE ~Claimable(p)
    <3>1. /\ UNCHANGED <<row, sends, status>>
          /\ \A y \in Relays : Claims(y)' => pc'[y] = pc[y] /\ job'[y] = job[y]
      BY <1>0, <1>5, <2>1 DEF Claim, Tell, Goto, Claims, store, backend
    <3> QED
      BY <1>0, <3>1, CalmSteps
  <2>2. CASE Claimable(p)
    <3>1. /\ UNCHANGED <<row, sends>> /\ p \in Proposals
          /\ status' = [status EXCEPT ![p] = "EXECUTING"]
          /\ \A y \in Relays : y # x => pc'[y] = pc[y] /\ job'[y] = job[y]
          /\ job'[x].on = p
      <4>1. p \in Proposals /\ job[x] \in Job /\ pc[x] = "claim"
        BY <1>5, Busy DEF Claim
      <4>2. /\ UNCHANGED <<row, sends>>
            /\ status' = [status EXCEPT ![p] = "EXECUTING"]
            /\ \/ job' = [job EXCEPT ![x] = job[x]]
               \/ job' = [job EXCEPT ![x] = [job[x] EXCEPT !.outcome = "DRY_RUN"]]
            /\ \/ pc' = [pc EXCEPT ![x] = "send"]
               \/ pc' = [pc EXCEPT ![x] = "record"]
        BY <1>5, <2>2 DEF Claim, Goto, backend
      <4>3. \A y \in Relays : y # x => pc'[y] = pc[y] /\ job'[y] = job[y]
        BY <1>0, <4>2
      <4>4. job'[x].on = p
        BY <1>0, <4>1, <4>2 DEF Job
      <4> QED
        BY <4>1, <4>2, <4>3, <4>4
    <3>2. Unsent(p)
      <4>1. \A q \in Rows : row[q] = p => ~(sends[q] > 0) /\ sends[q] \in Nat
        BY <2>2 DEF Inv, SentOK, Claimable, TypeOK
      <4> QED
        BY <4>1 DEF Unsent
    <3>3. ASSUME NEW r, Unsent(r) PROVE \A q \in Rows : row'[q] = r => sends'[q] = 0
      BY <3>1, <3>3 DEF Unsent
    <3>4. \A r \in Proposals : status'[r] # "DRY_RUN" \/ status[r] = "DRY_RUN"
      BY <1>0, <3>1
    <3>5. status'[p] # "DRY_RUN"
      BY <1>0, <3>1
    <3>6. ASSUME NEW r \in Proposals, status'[r] = "DRY_RUN"
          PROVE  \A q \in Rows : row'[q] = r => sends'[q] = 0
      BY <3>3, <3>4, <3>6 DEF DryOK
    <3>7. ASSUME NEW y \in Relays, pc'[y] = "send" PROVE status'[job'[y].on] # "DRY_RUN"
      BY <1>0, <3>1, <3>4, <3>5, <3>7 DEF DryOK, PressesOK
    <3>8. ASSUME NEW y \in Relays, pc'[y] = "record", job'[y].outcome = "DRY_RUN"
          PROVE  Unsent(job[y].on)'
      BY <3>1, <3>2, <3>8 DEF DryOK, Unsent
    <3> QED
      BY <3>6, <3>7, <3>8 DEF DryOK, Unsent
  <2> QED
    BY <2>1, <2>2
<1>6. ASSUME NEW x \in Relays, NEW q \in Rows, Approve(x, q) \/ ApproveLost(x, q) PROVE DryOK'
  <2>1. /\ UNCHANGED <<status, sends>> /\ row[q] = None
        /\ \A r \in Rows : r # q => row'[r] = row[r]
        /\ \A y \in Relays : Claims(y)' => pc'[y] = pc[y] /\ job'[y] = job[y]
    BY <1>0, <1>6 DEF Approve, ApproveLost, CreateRow, Tell, Goto, Claims, store, Inv, TypeOK
  <2>2. sends[q] = 0
    <3>1. ~(sends[q] > 0) /\ sends[q] \in Nat
      BY <2>1, TwoTapAssumption DEF TwoTapAssumption, Inv, SentOK, TypeOK
    <3> QED
      BY <3>1
  <2> QED
    BY <1>0, <2>1, <2>2 DEF DryOK, Unsent, Claims, PressesOK
<1>7. ASSUME NEW x \in Relays, SendAnswered(x) \/ SendRefused(x) \/ SendLost(x) PROVE DryOK'
  <2> DEFINE p == job[x].on
             q == job[x].seen
  <2>1. /\ pc[x] = "send" /\ UNCHANGED <<status, row>>
        /\ sends' = [sends EXCEPT ![q] = @ + 1]
        /\ \A y \in Relays : y # x => pc'[y] = pc[y] /\ job'[y] = job[y]
        /\ pc'[x] = "record" /\ job'[x].outcome # "DRY_RUN"
    BY <1>0, <1>7 DEF SendAnswered, SendRefused, SendLost, IssueAndSubmit, Issue, Outcome, Goto,
       Job, store
  <2>2. q \in Rows /\ row[q] = p /\ p \in Proposals
    <3>1. p \in Proposals
      BY <2>1, Busy
    <3>2. q \in Rows /\ queue_id[p] = q
      BY <2>1 DEF Inv, JobsOK, Knows
    <3> QED
      BY <3>1, <3>2, TwoTapAssumption DEF TwoTapAssumption, Inv, StoreOK
  <2>3. \A r \in Rows : row[r] # p => sends'[r] = sends[r]
    BY <2>1, <2>2 DEF Inv, TypeOK
  <2>4. status[p] # "DRY_RUN"
    BY <2>1 DEF DryOK
  <2>5. \A y \in Relays : y # x /\ pc[y] = "record" => job[y].on # p
    BY <2>1 DEF Inv, OneSender, Claims
  <2>6. ASSUME NEW s, s # p, Unsent(s) PROVE \A r \in Rows : row'[r] = s => sends'[r] = 0
    BY <2>1, <2>3, <2>6 DEF Unsent
  <2>7. ASSUME NEW s \in Proposals, status'[s] = "DRY_RUN"
        PROVE  \A r \in Rows : row'[r] = s => sends'[r] = 0
    BY <2>1, <2>4, <2>6, <2>7 DEF DryOK
  <2>8. ASSUME NEW y \in Relays, pc'[y] = "send" PROVE status'[job'[y].on] # "DRY_RUN"
    BY <2>1, <2>8 DEF DryOK
  <2>9. ASSUME NEW y \in Relays, pc'[y] = "record", job'[y].outcome = "DRY_RUN"
        PROVE  Unsent(job[y].on)'
    BY <2>1, <2>3, <2>5, <2>9 DEF DryOK, Unsent
  <2> QED
    BY <2>7, <2>8, <2>9 DEF DryOK, Unsent
<1>8. ASSUME NEW x \in Relays, Record(x) PROVE DryOK'
  <2> DEFINE p == job[x].on
  <2>1. /\ pc[x] = "record" /\ UNCHANGED <<row, sends>>
        /\ status' = [status EXCEPT ![p] = job[x].outcome]
        /\ \A y \in Relays : y # x => pc'[y] = pc[y] /\ job'[y] = job[y]
        /\ pc'[x] = "show"
    BY <1>0, <1>8 DEF Record, Tell, Goto, backend
  <2>2. \A y \in Relays : y # x /\ pc[y] = "send" => job[y].on # p
    BY <2>1 DEF Inv, OneSender, Claims
  <2>3. p \in Proposals
    BY <2>1, Busy
  <2> QED
    BY <1>0, <2>1, <2>2, <2>3 DEF DryOK, Unsent, PressesOK
<1> QED
  BY <1>1, <1>2, <1>3, <1>4, <1>5, <1>6, <1>7, <1>8 DEF Next, Callback

(* Cancelling, expiring or dry-running a proposal is final: it was not     *)
(* sent before and is not sent after.                                      *)
THEOREM StoppedIsFinal == Spec => []StoppedIsNeverSent
<1>1. Init => DryOK
  BY DEF Init, DryOK, Unsent
<1>2. Inv /\ DryOK => StoppedIsNeverSent
  <2> SUFFICES ASSUME Inv, DryOK, NEW q \in Rows, sends[q] > 0
      PROVE  status[row[q]] \notin {"HELD", "EXPIRED", "QUEUE_EXPIRED", "DRY_RUN"}
    BY DEF StoppedIsNeverSent
  <2>1. row[q] \in Proposals /\ attempted[row[q]]
    BY DEF Inv, SentOK
  <2>2. status[row[q]] # "DRY_RUN"
    BY <2>1 DEF DryOK, Unsent
  <2> QED
    BY <2>1, <2>2 DEF Inv, StoreOK, Claimed
<1> QED
  BY InitInv, StepInv, DryStep, <1>1, <1>2, PTL DEF Spec

(* Once a relay has claimed a proposal it is never open to a tap again,    *)
(* least of all after a timeout.                                           *)
NeverReopened ==
    [][\A p \in Proposals : attempted[p] =>
          attempted'[p] /\ status'[p] \notin {"PENDING", "QUEUED"}]_vars

(* A claimed proposal is never open to a tap again, whatever the answer.   *)
THEOREM ClaimIsFinal == Spec => NeverReopened
<1>1. Inv /\ [Next]_vars =>
        [\A p \in Proposals : attempted[p] =>
            attempted'[p] /\ status'[p] \notin {"PENDING", "QUEUED"}]_vars
  <2> SUFFICES ASSUME Inv, Next, NEW p \in Proposals, attempted[p]
      PROVE  attempted'[p] /\ status'[p] \notin {"PENDING", "QUEUED"}
    OBVIOUS
  <2>1. attempted'[p]
    BY DEF Next, Propose, DeadlinePasses, Press, Sweep, ExpireDue, Poll, Callback, Expire, Load,
       Hold, Approve, ApproveLost, ApproveRefused, Spoil, MarkRead, MarkWrite, OfferButtons,
       MarketOpen, MarketClosed, Claim, SendAnswered, SendRefused, SendLost, Record, Show,
       ShowLost, Confirm, Crash, store, Inv, TypeOK
  <2>2. Inv'
    BY StepInv
  <2> QED
    BY <2>1, <2>2 DEF Inv, StoreOK, Claimed
<1> QED
  BY InitInv, StepInv, <1>1, PTL DEF Spec, NeverReopened

-----------------------------------------------------------------------------
(* TwoTap implements TapPromise. *)

PromiseMoves == [Promise!Next]_(Promise!promiseVars)

(* A step that writes neither a status nor a row sent. *)
LEMMA NothingPromised ==
    ASSUME UNCHANGED <<status, queue_id, attempted, sends>>
    PROVE  PromiseMoves
  BY DEF PromiseMoves, Promise!promiseVars, StageOf, Sent

(* A step that moves no proposal but those it stops. *)
LEMMA StopsOnly ==
    ASSUME NEW stopped \in SUBSET Proposals, UNCHANGED <<queue_id, sends>>,
           \A p \in stopped : StageOf(p) \in {"OPEN", "QUEUED"} /\ StageOf(p)' = "STOPPED",
           \A p \in Proposals \ stopped : StageOf(p)' = StageOf(p)
    PROVE  PromiseMoves
<1>1. CASE stopped = {}
  BY <1>1 DEF PromiseMoves, Promise!promiseVars
<1>2. CASE stopped # {}
  BY <1>2 DEF PromiseMoves, Promise!Next, Promise!Stop
<1> QED
  BY <1>1, <1>2

(* A step that moves one proposal to a later stage, or nothing. *)
LEMMA MovesOne ==
    ASSUME NEW p \in Proposals, \A o \in Proposals \ {p} : StageOf(o)' = StageOf(o),
           \/ /\ StageOf(p)' = StageOf(p)
              /\ UNCHANGED <<queue_id, sends>>
           \/ /\ StageOf(p) = "QUEUED" /\ StageOf(p)' = "CLAIMED"
              /\ UNCHANGED <<queue_id, sends>>
           \/ /\ StageOf(p) = "CLAIMED" /\ StageOf(p)' = "SENT"
              /\ sends[queue_id[p]] = 0
              /\ sends' = [sends EXCEPT ![queue_id[p]] = 1]
              /\ UNCHANGED queue_id
           \/ \E q \in Rows :
                /\ StageOf(p) = "OPEN" /\ StageOf(p)' = "QUEUED"
                /\ \A o \in Proposals : queue_id[o] # q
                /\ queue_id' = [queue_id EXCEPT ![p] = q]
                /\ UNCHANGED sends
    PROVE  PromiseMoves
<1>0. ASSUME NEW v, StageOf(p)' = v
      PROVE  [o \in Proposals |-> StageOf(o)]' =
                 [[o \in Proposals |-> StageOf(o)] EXCEPT ![p] = v]
  BY <1>0
<1>1. CASE StageOf(p)' = StageOf(p) /\ UNCHANGED <<queue_id, sends>>
  BY <1>1 DEF PromiseMoves, Promise!promiseVars
<1>2. CASE /\ StageOf(p) = "QUEUED" /\ StageOf(p)' = "CLAIMED"
           /\ UNCHANGED <<queue_id, sends>>
  <2>1. Promise!Claim(p)
    BY <1>0, <1>2 DEF Promise!Claim
  <2> QED
    BY <2>1 DEF PromiseMoves, Promise!Next
<1>3. CASE /\ StageOf(p) = "CLAIMED" /\ StageOf(p)' = "SENT"
           /\ sends[queue_id[p]] = 0
           /\ sends' = [sends EXCEPT ![queue_id[p]] = 1]
           /\ UNCHANGED queue_id
  <2>1. Promise!Send(p)
    BY <1>0, <1>3 DEF Promise!Send
  <2> QED
    BY <2>1 DEF PromiseMoves, Promise!Next
<1>4. ASSUME NEW q \in Rows,
             StageOf(p) = "OPEN" /\ StageOf(p)' = "QUEUED",
             \A o \in Proposals : queue_id[o] # q,
             queue_id' = [queue_id EXCEPT ![p] = q],
             UNCHANGED sends
      PROVE  PromiseMoves
  <2>1. Promise!Queue(p, q)
    BY <1>0, <1>4 DEF Promise!Queue
  <2> QED
    BY <2>1 DEF PromiseMoves, Promise!Next
<1> QED
  BY <1>1, <1>2, <1>3, <1>4

(* expire_due stops what it moves. *)
LEMMA ExpireStops ==
    ASSUME Inv, ExpireDue, UNCHANGED sends
    PROVE  PromiseMoves
<1>1. ASSUME NEW p \in Lapsed
      PROVE  StageOf(p) \in {"OPEN", "QUEUED"} /\ StageOf(p)' = "STOPPED"
  <2>1. p \in Proposals /\ status[p] \in {"PENDING", "QUEUED"} /\ ~attempted[p]
    BY DEF Lapsed, Inv, TypeOK, StoreOK, Claimed
  <2>2. status'[p] \in {"EXPIRED", "QUEUE_EXPIRED"} /\ attempted' = attempted
    BY <2>1 DEF ExpireDue
  <2> QED
    BY <2>1, <2>2 DEF StageOf
<1>2. \A p \in Proposals \ Lapsed : StageOf(p)' = StageOf(p)
  BY DEF ExpireDue, StageOf, Sent
<1>3. Lapsed \in SUBSET Proposals /\ UNCHANGED <<queue_id, sends>>
  BY DEF Lapsed, Inv, TypeOK, ExpireDue
<1> QED
  BY <1>1, <1>2, <1>3, StopsOnly

(* Cancelling and refusing stop a proposal nobody has claimed, and change  *)
(* nothing for one that was; the answer recorded changes nothing either.   *)
LEMMA WritesStop ==
    ASSUME Inv, NEW x \in Relays, Hold(x) \/ Spoil(x) \/ Record(x)
    PROVE  PromiseMoves
<1>0. PICK p \in Proposals : p = job[x].on
  BY Busy DEF Hold, Spoil, Record
<1>1. /\ UNCHANGED <<queue_id, attempted, sends>>
      /\ status \in [Proposals -> Statuses]
  BY DEF Hold, Spoil, Record, backend, Inv, TypeOK
<1>2. \/ status' = status
      \/ Holdable(p) /\ status' = [status EXCEPT ![p] = "HELD"]
      \/ status' = [status EXCEPT ![p] = "REJECTED"]
      \/ attempted[p] /\ \E t \in {"EXECUTED", "EXECUTION_UNCERTAIN", "DRY_RUN"} :
                             status' = [status EXCEPT ![p] = t]
  BY <1>0 DEF Hold, Spoil, Record, Inv, JobsOK, Knows
<1>3. attempted[p] => status[p] \in Claimed
  BY DEF Inv, StoreOK
<1>4. \A o \in Proposals \ {p} : StageOf(o)' = StageOf(o)
  BY <1>1, <1>2 DEF StageOf, Sent
<1>5. \/ StageOf(p)' = StageOf(p)
      \/ StageOf(p) \in {"OPEN", "QUEUED"} /\ StageOf(p)' = "STOPPED"
  <2>1. \/ status'[p] = status[p]
        \/ status'[p] \in {"HELD", "REJECTED", "EXECUTED", "EXECUTION_UNCERTAIN", "DRY_RUN"}
    BY <1>1, <1>2
  <2>2. attempted[p] /\ status'[p] # status[p] => status'[p] \in Claimed
    BY <1>1, <1>2, <1>3 DEF Claimed, Holdable
  <2>3. ~attempted[p] /\ status'[p] # status[p] => status'[p] \in {"HELD", "REJECTED"}
    BY <1>1, <1>2
  <2> QED
    BY <1>1, <1>3, <2>1, <2>2, <2>3 DEF StageOf, Sent, Claimed
<1>6. CASE StageOf(p)' = StageOf(p)
  BY <1>1, <1>4, <1>6, MovesOne
<1>7. CASE StageOf(p) \in {"OPEN", "QUEUED"} /\ StageOf(p)' = "STOPPED"
  <2>1. {p} \in SUBSET Proposals
    BY <1>1
  <2> QED
    BY <1>1, <1>4, <1>7, <2>1, StopsOnly
<1> QED
  BY <1>5, <1>6, <1>7

(* mark_queued records a row that is no other proposal's. *)
LEMMA MarkQueues ==
    ASSUME Inv, NEW x \in Relays, MarkWrite(x)
    PROVE  PromiseMoves
<1>0. PICK p \in Proposals, q \in Rows : p = job[x].on /\ q = job[x].seen
  BY Busy DEF MarkWrite, Inv, JobsOK, Knows
<1>1. /\ row[q] = p /\ UNCHANGED sends
      /\ status \in [Proposals -> Statuses] /\ queue_id \in [Proposals -> Rows \cup {None}]
  BY <1>0 DEF MarkWrite, Inv, TypeOK, JobsOK, Knows, backend
<1>2. CASE ~Queueable(p)
  BY <1>0, <1>1, <1>2, NothingPromised DEF MarkWrite, store
<1>3. CASE Queueable(p)
  <2>1. /\ status[p] = "PENDING" /\ status' = [status EXCEPT ![p] = "QUEUED"]
        /\ queue_id' = [queue_id EXCEPT ![p] = q] /\ UNCHANGED attempted
    BY <1>0, <1>3 DEF MarkWrite, Queueable
  <2>2. \A o \in Proposals : queue_id[o] # q
    BY <1>1, <2>1, TwoTapAssumption DEF TwoTapAssumption, Inv, StoreOK
  <2>3. StageOf(p) = "OPEN" /\ StageOf(p)' = "QUEUED"
    BY <1>1, <2>1 DEF StageOf
  <2>4. \A o \in Proposals \ {p} : StageOf(o)' = StageOf(o)
    BY <1>1, <2>1 DEF StageOf, Sent
  <2> QED
    BY <1>1, <2>1, <2>2, <2>3, <2>4, MovesOne
<1> QED
  BY <1>2, <1>3

(* claim_execution moves a proposal from QUEUED once and for all. *)
LEMMA ClaimClaims ==
    ASSUME Inv, NEW x \in Relays, Claim(x)
    PROVE  PromiseMoves
<1>0. PICK p \in Proposals : p = job[x].on
  BY Busy DEF Claim
<1>1. /\ UNCHANGED <<queue_id, sends>>
      /\ status \in [Proposals -> Statuses] /\ attempted \in [Proposals -> BOOLEAN]
  BY DEF Claim, Inv, TypeOK, store, backend
<1>2. CASE ~Claimable(p)
  BY <1>0, <1>1, <1>2, NothingPromised DEF Claim, store
<1>3. CASE Claimable(p)
  <2>1. /\ status[p] = "QUEUED" /\ status' = [status EXCEPT ![p] = "EXECUTING"]
        /\ ~attempted[p] /\ attempted' = [attempted EXCEPT ![p] = TRUE]
    BY <1>0, <1>3 DEF Claim, Claimable
  <2>2. ~Sent(p)
    <3> SUFFICES ASSUME NEW q \in Rows, queue_id[p] = q PROVE ~(sends[q] > 0)
      BY DEF Sent, Inv, TypeOK
    <3> QED
      BY <2>1, TwoTapAssumption DEF TwoTapAssumption, Inv, StoreOK, SentOK
  <2>3. StageOf(p) = "QUEUED" /\ StageOf(p)' = "CLAIMED"
    BY <1>1, <2>1, <2>2 DEF StageOf, Sent
  <2>4. \A o \in Proposals \ {p} : StageOf(o)' = StageOf(o)
    BY <1>1, <2>1 DEF StageOf, Sent
  <2> QED
    BY <1>1, <2>3, <2>4, MovesOne
<1> QED
  BY <1>2, <1>3

(* The execute request sends the row of the claim, for the first time. *)
LEMMA SendSends ==
    ASSUME Inv, NEW x \in Relays, SendAnswered(x) \/ SendRefused(x) \/ SendLost(x)
    PROVE  PromiseMoves
<1>0. PICK p \in Proposals, q \in Rows : p = job[x].on /\ q = job[x].seen
  BY Busy DEF SendAnswered, SendRefused, SendLost, Inv, JobsOK, Knows
<1>1. /\ pc[x] = "send" /\ UNCHANGED <<status, queue_id, attempted>>
      /\ sends' = [sends EXCEPT ![q] = @ + 1]
  BY <1>0 DEF SendAnswered, SendRefused, SendLost, IssueAndSubmit, Issue, store
<1>2. /\ queue_id[p] = q /\ attempted[p] /\ sends[q] = 0
      /\ sends \in [Rows -> Nat] /\ None \notin Rows
      /\ status[p] \in Claimed
  BY <1>0, <1>1, TwoTapAssumption DEF TwoTapAssumption, Inv, TypeOK, JobsOK, Knows, StoreOK
<1>3. sends' = [sends EXCEPT ![q] = 1]
  BY <1>1, <1>2
<1>4. Sent(p)' /\ ~Sent(p)
  BY <1>1, <1>2, <1>3 DEF Sent
<1>5. StageOf(p) = "CLAIMED" /\ StageOf(p)' = "SENT"
  BY <1>1, <1>2, <1>4 DEF StageOf, Claimed
<1>6. ASSUME NEW o \in Proposals \ {p} PROVE StageOf(o)' = StageOf(o)
  <2>1. queue_id[o] # q
    BY <1>2 DEF Inv, StoreOK
  <2>2. Sent(o)' <=> Sent(o)
    BY <1>1, <1>2, <1>3, <2>1 DEF Sent, Inv, TypeOK
  <2> QED
    BY <1>1, <2>2 DEF StageOf
<1> QED
  BY <1>1, <1>2, <1>3, <1>5, <1>6, MovesOne

LEMMA PromiseStep == Inv /\ [Next]_vars => PromiseMoves
<1> SUFFICES ASSUME Inv, [Next]_vars PROVE PromiseMoves
  OBVIOUS
<1>1. CASE UNCHANGED vars
  BY <1>1, NothingPromised DEF vars, store, backend
<1>2. ASSUME NEW p \in Proposals, Propose(p) PROVE PromiseMoves
  <2>1. /\ UNCHANGED <<queue_id, attempted, sends>> /\ status[p] = "NONE"
        /\ status' = [status EXCEPT ![p] = "PENDING"] /\ status \in [Proposals -> Statuses]
    BY <1>2 DEF Propose, backend, Inv, TypeOK
  <2>2. \A o \in Proposals : StageOf(o)' = StageOf(o)
    BY <2>1 DEF StageOf, Sent
  <2> QED
    BY <2>1, <2>2, MovesOne
<1>3. ASSUME NEW p \in Proposals, DeadlinePasses(p) \/ \E a \in Actions : Press(a, p)
      PROVE  PromiseMoves
  BY <1>3, NothingPromised DEF DeadlinePasses, Press, store, backend
<1>4. ASSUME NEW x \in Relays, Sweep(x) \/ Expire(x) PROVE PromiseMoves
  BY <1>4, ExpireStops DEF Sweep, Expire, backend
<1>5. ASSUME NEW x \in Relays,
             \/ \E a \in Actions, p \in Proposals : Poll(x, a, p)
             \/ Load(x) \/ ApproveRefused(x) \/ MarkRead(x) \/ OfferButtons(x)
             \/ MarketOpen(x) \/ MarketClosed(x)
             \/ \E q \in Rows : Approve(x, q) \/ ApproveLost(x, q)
             \/ Show(x) \/ ShowLost(x) \/ Confirm(x) \/ Crash(x)
      PROVE  PromiseMoves
  BY <1>5, NothingPromised DEF Poll, Load, ApproveRefused, MarkRead, OfferButtons, MarketOpen,
     MarketClosed, Approve, ApproveLost, CreateRow, Show, ShowLost, Confirm, Crash, store, backend
<1> QED
  BY <1>1, <1>2, <1>3, <1>4, <1>5, WritesStop, MarkQueues, ClaimClaims, SendSends
  DEF Next, Callback

(* Each proposal passes the store once and in one order: two taps, one     *)
(* claim, at most one send of the row the first tap got approved, and none *)
(* after a stop, whatever relays overlap, die or are told of a tap again.  *)
THEOREM KeepsPromise == Spec => PromiseKept
<1>1. Init => Promise!Init
  BY DEF Init, Promise!Init, StageOf
<1>2. Inv /\ [Next]_vars => [Promise!Next]_(Promise!promiseVars)
  BY PromiseStep DEF PromiseMoves
<1> QED
  BY InitInv, StepInv, <1>1, <1>2, PTL DEF Spec, PromiseKept, Promise!Spec

=============================================================================
