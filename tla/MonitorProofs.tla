----------------------------- MODULE MonitorProofs -----------------------------
(***************************************************************************)
(* What holds of the monitor for any number of securities, runs, sweeps,   *)
(* sales, reports and days: types, alerts and the disposal clock.          *)
(***************************************************************************)
EXTENDS Monitor, SecScreen, TLAPS

USE MonitorAssumption, NoneIsNoRecord

(* A sale in flight read as much as it sells. *)
SalesOK == \A u \in Sellers : sale[u] # None => sale[u].quantity <= sale[u].held

(* What a check colours it has found, and the sales it listed are recorded. *)
Colouring(c) ==
    check[c].pc \in {"resolve", "colour"} =>
      /\ check[c].current \in Securities
      /\ check[c].found[check[c].current] # None
      /\ check[c].todo \subseteq ToColour(c)
      /\ check[c].pending \subseteq Recorded

(* The colour that a check will replace was told of, if it is not GREEN. *)
PreviousTold(c) ==
    check[c].pc = "colour" /\ check[c].previous \notin {None, "GREEN"}
        => <<check[c].current, check[c].previous>> \in announced

Inv ==
    /\ TypeOK
    /\ SalesOK
    /\ \A c \in Checks : Colouring(c)
    /\ EveryColourAnnounced
    /\ \A c \in Checks : PreviousTold(c)

-----------------------------------------------------------------------------
LEMMA ClassifyTyped ==
    ASSUME NEW v, NEW prior, NEW flagged, NEW escalated
    PROVE  Classify(v, prior, flagged, escalated) \in Lights
<1>1. ScreenLight(v, prior, flagged) \in Lights
  BY DEF ScreenLight, Lights
<1> QED
  BY <1>1 DEF Classify, Lights

LEMMA ScreenTyped ==
    ASSUME TypeOK, NEW s \in Securities
    PROVE  /\ ReportOf(s) \in Reports \cup {None}
           /\ Light(s) \in Lights
           /\ StatusLight(s) \in Lights
           /\ NoteScreen(s) \in [Securities -> [Reports -> ScreenStatuses \cup {None}]]
<1>1. ReportOf(s) \in Reports \cup {None}
  BY DEF ReportOf, TypeOK
<1>2. Light(s) \in Lights
  BY ClassifyTyped DEF Light
<1>3. StatusLight(s) \in Lights
  BY DEF StatusLight, Lights
<1>4. Logged(Evaluate(s)) \in ScreenStatuses
  BY DEF Logged, ScreenStatuses
<1>5. NoteScreen(s) \in [Securities -> [Reports -> ScreenStatuses \cup {None}]]
  BY <1>1, <1>4 DEF NoteScreen, TypeOK
<1> QED
  BY <1>1, <1>2, <1>3, <1>5

LEMMA FirstIsOne == ASSUME NEW S, S # {} PROVE First(S) \in S
BY DEF First

LEMMA PreviousTyped ==
    ASSUME TypeOK, NEW s \in Securities
    PROVE  Previous(s) \in Lights \cup {None}
BY DEF Previous, TypeOK, Row

LEMMA ResolvedTyped ==
    ASSUME TypeOK, NEW c \in Checks, NEW s \in Securities, check[c].found[s] # None,
           NEW pending, pending \subseteq Recorded
    PROVE  /\ Resolved(c, s, pending) \in [1..MaxSales -> Sale \cup {None}]
           /\ \A i \in Recorded : Resolved(c, s, pending)[i] # None
<1>1. check[c].found[s].light \in Lights
  BY DEF TypeOK, Check, Finding
<1>2. ASSUME NEW i \in 1..MaxSales
      PROVE  /\ Resolved(c, s, pending)[i] \in Sale \cup {None}
             /\ i \in Recorded => Resolved(c, s, pending)[i] # None
  <2>1. CASE i \in pending /\ check[c].found[s].light # "YELLOW"
    <3>1. monitor_sales[i] \in Sale
      BY <2>1 DEF TypeOK, Recorded
    <3>2. check[c].found[s].light \in {"RED", "GREEN"}
      BY <1>1, <2>1 DEF Lights
    <3>3. Resolved(c, s, pending)[i] \in Sale
      BY <2>1, <3>1, <3>2 DEF Resolved, Sale
    <3>4. None \notin Sale
      OBVIOUS
    <3> QED
      BY <3>3
  <2>2. CASE ~(i \in pending /\ check[c].found[s].light # "YELLOW")
    BY <2>2 DEF Resolved, TypeOK, Recorded
  <2> QED
    BY <2>1, <2>2
<1> QED
  BY <1>2 DEF Resolved, Recorded

(* A check that a step leaves alone keeps its facts while sales and alerts *)
(* only accumulate.                                                        *)
LEMMA OthersKept ==
    ASSUME NEW c \in Checks, Colouring(c), PreviousTold(c), check'[c] = check[c],
           Recorded \subseteq Recorded', announced \subseteq announced'
    PROVE  Colouring(c)' /\ PreviousTold(c)'
BY DEF Colouring, PreviousTold, ToColour

LEMMA NoCheckTyped == NoCheck \in Check /\ NoCheck.pc = "idle"
BY DEF NoCheck, Check

LEMMA InitInv == Init => Inv
<1> SUFFICES ASSUME Init PROVE Inv
  OBVIOUS
<1>1. TypeOK
  <2>1. check \in [Checks -> Check]
    BY NoCheckTyped DEF Init
  <2>2. flags \in [Scopes -> [Securities -> [Alerts -> Flag]]]
    BY DEF Init, NeverFlagged, Flag
  <2>3. authority \in [Securities -> [report : Reports, verdict : Outcomes]]
    BY DEF Init, Reports
  <2> QED
    BY <2>1, <2>2, <2>3 DEF TypeOK, Init
<1>2. \A c \in Checks : check[c].pc = "idle"
  BY NoCheckTyped DEF Init
<1> QED
  BY <1>1, <1>2 DEF Inv, Init, SalesOK, Colouring, PreviousTold, EveryColourAnnounced

-----------------------------------------------------------------------------
(* The steps of a check. *)
LEMMA StartInv == ASSUME Inv, NEW c \in Checks, Start(c) PROVE Inv'
<1> USE DEF Inv
<1> DEFINE new == [NoCheck EXCEPT !.pc = "screen", !.todo = Positions(c), !.held = HeldPositions(c)]
<1>1. Positions(c) \subseteq Securities /\ HeldPositions(c) \subseteq Securities
  <2>1. \A i \in Pending : monitor_sales[i].security \in Securities
    BY DEF TypeOK, Pending, Recorded, Sale
  <2> QED
    BY <2>1 DEF TypeOK, Positions, HeldPositions, Held
<1>2. new \in Check
  BY <1>1 DEF NoCheck, Check
<1>3. check' = [check EXCEPT ![c] = new]
  BY DEF Start
<1>4. TypeOK'
  BY <1>2, <1>3 DEF TypeOK, Start, world, ledgers, colours, bounds
<1>5. check'[c].pc = "screen"
  BY <1>3 DEF TypeOK, NoCheck
<1>6. ASSUME NEW d \in Checks PROVE Colouring(d)' /\ PreviousTold(d)'
  <2>1. CASE d = c
    BY <1>5, <2>1 DEF Colouring, PreviousTold
  <2>2. CASE d # c
    BY <1>3, <2>2, OthersKept DEF TypeOK, Start, colours, Recorded
  <2> QED
    BY <2>1, <2>2
<1> QED
  BY <1>4, <1>6 DEF Start, SalesOK, EveryColourAnnounced, colours

LEMMA ScreenInv == ASSUME Inv, NEW c \in Checks, Screen(c) PROVE Inv'
<1> USE DEF Inv
<1> DEFINE s == First(check[c].todo)
           light == IF Scope(c) = "self" THEN Light(s) ELSE StatusLight(s)
           result == [light |-> light, report |-> ReportOf(s)]
<1>1. s \in Securities
  BY FirstIsOne DEF Screen, TypeOK, Check
<1>2. result \in Finding
  BY <1>1, ScreenTyped DEF Finding
<1>3. check' = [check EXCEPT ![c].found[s] = result, ![c].todo = @ \ {s}]
  BY DEF Screen
<1>4. TypeOK'
  <2>1. check' \in [Checks -> Check]
    <3> DEFINE found == [check[c].found EXCEPT ![s] = result]
               new == [check[c] EXCEPT !.found = found, !.todo = @ \ {s}]
    <3>1. check[c] \in Check
      BY DEF TypeOK
    <3>2. found \in [Securities -> Finding \cup {None}]
      BY <1>1, <1>2, <3>1 DEF Check
    <3>3. new \in Check
      BY <3>1, <3>2 DEF Check
    <3>4. check' = [check EXCEPT ![c] = new]
      BY <1>3, <3>1 DEF Check, TypeOK
    <3> QED
      BY <3>3, <3>4 DEF TypeOK
  <2>2. screens' \in [Securities -> [Reports -> ScreenStatuses \cup {None}]]
    BY <1>1, ScreenTyped DEF Screen
  <2> QED
    BY <2>1, <2>2 DEF TypeOK, Screen, world, ledgers, colours, bounds
<1>5. check'[c].pc = "screen"
  BY <1>3 DEF TypeOK, Check, Screen
<1>6. ASSUME NEW d \in Checks PROVE Colouring(d)' /\ PreviousTold(d)'
  <2>1. CASE d = c
    BY <1>5, <2>1 DEF Colouring, PreviousTold
  <2>2. CASE d # c
    <3>1. check'[d] = check[d]
      BY <1>3, <2>2 DEF TypeOK
    <3> QED
      BY <3>1, OthersKept DEF Screen, colours, Recorded
  <2> QED
    BY <2>1, <2>2
<1> QED
  BY <1>4, <1>6 DEF Screen, SalesOK, EveryColourAnnounced, colours

(* The clock changes one entry to a live flag of today, or clears it. *)
LEMMA ClockTyped ==
    ASSUME TypeOK, NEW c \in Checks
    PROVE  ApplyClock(c) \in [Scopes -> [Securities -> [Alerts -> Flag]]]
<1>1. ASSUME NEW sc \in Scopes, NEW s \in Securities, NEW a \in Alerts
      PROVE  ApplyClock(c)[sc][s][a] \in Flag
  <2>1. flags[sc][s][a] \in Flag
    BY DEF TypeOK
  <2>2. /\ Raised(flags[sc][s][a]) \in Flag
        /\ Cleared(flags[sc][s][a]) \in Flag
    BY <2>1 DEF Raised, Cleared, Flag, TypeOK
  <2> QED
    BY <2>1, <2>2 DEF ApplyClock
<1> QED
  BY <1>1 DEF ApplyClock

LEMMA ClockInv == ASSUME Inv, NEW c \in Checks, Clock(c) PROVE Inv'
<1> USE DEF Inv
<1> DEFINE new == IF c \in Runs THEN [check[c] EXCEPT !.pc = "begin"] ELSE NoCheck
<1>1. new \in Check /\ new.pc \in {"begin", "idle"}
  <2>1. check[c] \in Check
    BY DEF TypeOK
  <2> QED
    BY <2>1, NoCheckTyped DEF Check
<1>2. check' = [check EXCEPT ![c] = new]
  BY DEF Clock
<1>3. TypeOK'
  BY <1>1, <1>2, ClockTyped DEF TypeOK, Clock, world, ledgers, colours, bounds
<1>4. check'[c].pc \in {"begin", "idle"}
  BY <1>1, <1>2 DEF TypeOK
<1>5. ASSUME NEW d \in Checks PROVE Colouring(d)' /\ PreviousTold(d)'
  <2>1. CASE d = c
    BY <1>4, <2>1 DEF Colouring, PreviousTold
  <2>2. CASE d # c
    <3>1. check'[d] = check[d]
      BY <1>2, <2>2 DEF TypeOK
    <3> QED
      BY <3>1, OthersKept DEF Clock, colours, Recorded
  <2> QED
    BY <2>1, <2>2
<1> QED
  BY <1>3, <1>5 DEF Clock, SalesOK, EveryColourAnnounced, colours

LEMMA BeginInv == ASSUME Inv, NEW c \in Checks, Begin(c) PROVE Inv'
<1> USE DEF Inv
<1> DEFINE s == First(ToColour(c))
           new == IF ToColour(c) = {} THEN NoCheck
                  ELSE [check[c] EXCEPT !.pc = "resolve", !.current = s, !.pending = PendingOf(s),
                                        !.todo = ToColour(c) \ {s}]
<1>1. check' = [check EXCEPT ![c] = new]
  BY DEF Begin, TypeOK, Check
<1>2. ToColour(c) # {} => s \in ToColour(c) /\ s \in Securities
  BY FirstIsOne DEF ToColour
<1>3. PendingOf(s) \subseteq Recorded /\ Recorded \subseteq 1..MaxSales
  BY DEF PendingOf, Pending, Recorded
<1>4. new \in Check
  <2>1. check[c] \in Check /\ ToColour(c) \subseteq Securities
    BY DEF TypeOK, ToColour
  <2> QED
    BY <1>2, <1>3, <2>1, NoCheckTyped DEF Check
<1>5. TypeOK'
  BY <1>1, <1>4 DEF TypeOK, Begin, world, ledgers, colours, bounds
<1>6. ASSUME NEW d \in Checks PROVE Colouring(d)' /\ PreviousTold(d)'
  <2>1. CASE d = c
    <3>1. check'[c] = new
      BY <1>1 DEF TypeOK
    <3>2. CASE ToColour(c) = {}
      BY <2>1, <3>1, <3>2 DEF Colouring, PreviousTold, NoCheck
    <3>3. CASE ToColour(c) # {}
      <4>1. /\ check'[c].pc = "resolve" /\ check'[c].current = s
            /\ check'[c].pending = PendingOf(s) /\ check'[c].todo = ToColour(c) \ {s}
            /\ check'[c].found = check[c].found
        BY <3>1, <3>3 DEF TypeOK, Check
      <4>2. Recorded' = Recorded
        BY DEF Begin, Recorded
      <4> QED
        BY <1>2, <1>3, <2>1, <3>3, <4>1, <4>2 DEF Colouring, PreviousTold, ToColour
    <3> QED
      BY <3>2, <3>3
  <2>2. CASE d # c
    <3>1. check'[d] = check[d]
      BY <1>1, <2>2 DEF TypeOK
    <3> QED
      BY <3>1, OthersKept DEF Begin, colours, Recorded
  <2> QED
    BY <2>1, <2>2
<1> QED
  BY <1>5, <1>6 DEF Begin, SalesOK, EveryColourAnnounced, colours

(* The colour read for a holding is one that was told of. *)
LEMMA ReadColourTold ==
    ASSUME EveryColourAnnounced, NEW s \in Securities, Previous(s) \notin {None, "GREEN"}
    PROVE  <<s, Previous(s)>> \in announced
BY DEF EveryColourAnnounced, Previous

LEMMA ResolveFirstInv == ASSUME Inv, NEW c \in Checks, ResolveFirst(c) PROVE Inv'
<1> USE DEF Inv
<1> DEFINE s == check[c].current
           new == [check[c] EXCEPT !.pc = "colour", !.previous = Previous(s), !.pending = {}]
<1>1. /\ s \in Securities
      /\ check[c].found[s] # None
      /\ check[c].todo \subseteq ToColour(c)
      /\ check[c].pending \subseteq Recorded
  BY DEF Colouring, ResolveFirst
<1>2. check[c] \in Check
  BY DEF TypeOK
<1>3. check' = [check EXCEPT ![c] = new]
  BY <1>2 DEF ResolveFirst, TypeOK, Check
<1>4. new \in Check
  BY <1>1, <1>2, PreviousTyped DEF Check
<1>5. /\ monitor_sales' \in [1..MaxSales -> Sale \cup {None}]
      /\ Recorded \subseteq Recorded'
  BY <1>1, ResolvedTyped DEF ResolveFirst, Recorded
<1>6. TypeOK'
  BY <1>3, <1>4, <1>5 DEF TypeOK, ResolveFirst, world, ledgers, colours, bounds
<1>7. ASSUME NEW d \in Checks PROVE Colouring(d)' /\ PreviousTold(d)'
  <2>1. CASE d = c
    <3>1. /\ check'[c].pc = "colour" /\ check'[c].current = s /\ check'[c].pending = {}
          /\ check'[c].found = check[c].found /\ check'[c].todo = check[c].todo
          /\ check'[c].previous = Previous(s)
      BY <1>2, <1>3 DEF TypeOK, Check
    <3>2. Colouring(c)'
      BY <1>1, <3>1 DEF Colouring, ToColour
    <3>3. PreviousTold(c)'
      BY <1>1, <3>1, ReadColourTold DEF PreviousTold, ResolveFirst, colours
    <3> QED
      BY <2>1, <3>2, <3>3
  <2>2. CASE d # c
    <3>1. check'[d] = check[d]
      BY <1>3, <2>2 DEF TypeOK
    <3> QED
      BY <1>5, <3>1, OthersKept DEF ResolveFirst, colours
  <2> QED
    BY <2>1, <2>2
<1> QED
  BY <1>6, <1>7 DEF ResolveFirst, SalesOK, EveryColourAnnounced, colours

(* The colour of a holding is written with its alert, unless its previous  *)
(* colour was the same, and told of.                                       *)
LEMMA ColourTold ==
    ASSUME Inv, NEW c \in Checks, check[c].pc = "colour", Colour(c)
    PROVE  /\ monitor_lights' \in [Securities -> Row \cup {None}]
           /\ announced' \subseteq Securities \X Lights
           /\ announced \subseteq announced'
           /\ EveryColourAnnounced'
<1> USE DEF Inv
<1> DEFINE s == check[c].current
           found == check[c].found[s]
<1>1. s \in Securities /\ found # None
  BY DEF Colouring
<1>2. found \in Row /\ found.light \in Lights
  BY <1>1 DEF TypeOK, Check, Finding, Row
<1>3. CASE s \in check[c].held
  <2>1. /\ monitor_lights' = [monitor_lights EXCEPT ![s] = found]
        /\ announced' = announced \cup Announced(s, check[c].previous, found.light)
    BY <1>3 DEF Colour
  <2>2. Announced(s, check[c].previous, found.light) \subseteq {<<s, found.light>>}
    BY DEF Announced
  <2>3. found.light # "GREEN" => <<s, found.light>> \in announced'
    <3>1. CASE check[c].previous = found.light
      <4>1. check[c].previous # None
        BY <1>2, <3>1
      <4> QED
        BY <2>1, <3>1, <4>1 DEF PreviousTold
    <3>2. CASE check[c].previous # found.light
      BY <2>1, <3>2 DEF Announced
    <3> QED
      BY <3>1, <3>2
  <2>4. ASSUME NEW t \in Securities, monitor_lights'[t] # None, monitor_lights'[t].light # "GREEN"
        PROVE  <<t, monitor_lights'[t].light>> \in announced'
    <3>1. CASE t = s
      BY <2>1, <2>3, <2>4, <3>1 DEF TypeOK
    <3>2. CASE t # s
      BY <2>1, <2>4, <3>2 DEF TypeOK, EveryColourAnnounced
    <3> QED
      BY <3>1, <3>2
  <2>5. monitor_lights' \in [Securities -> Row \cup {None}]
    BY <1>1, <1>2, <2>1 DEF TypeOK
  <2>6. announced' \subseteq Securities \X Lights
    BY <1>1, <1>2, <2>1, <2>2 DEF TypeOK
  <2> QED
    BY <2>1, <2>4, <2>5, <2>6 DEF EveryColourAnnounced
<1>4. CASE s \notin check[c].held
  BY <1>4 DEF Colour, colours, TypeOK, EveryColourAnnounced
<1> QED
  BY <1>3, <1>4

LEMMA ColourNextInv == ASSUME Inv, NEW c \in Checks, ColourNext(c) PROVE Inv'
<1> USE DEF Inv
<1> DEFINE s == First(check[c].todo)
           new == [check[c] EXCEPT !.current = s, !.todo = @ \ {s}, !.previous = Previous(s)]
<1>1. /\ s \in check[c].todo
      /\ s \in Securities
      /\ check[c].found[s] # None
      /\ check[c].todo \subseteq ToColour(c)
      /\ check[c].pending \subseteq Recorded
  BY FirstIsOne DEF Colouring, ColourNext, ToColour
<1>2. check[c] \in Check
  BY DEF TypeOK
<1>3. check' = [check EXCEPT ![c] = new]
  BY <1>2 DEF ColourNext, TypeOK, Check
<1>4. new \in Check
  BY <1>1, <1>2, PreviousTyped DEF Check
<1>5. /\ monitor_sales' \in [1..MaxSales -> Sale \cup {None}]
      /\ Recorded \subseteq Recorded'
  <2>1. PendingOf(s) \subseteq Recorded
    BY DEF PendingOf, Pending
  <2> QED
    BY <1>1, <2>1, ResolvedTyped DEF ColourNext, Recorded
<1>6. /\ monitor_lights' \in [Securities -> Row \cup {None}]
      /\ announced' \subseteq Securities \X Lights
      /\ announced \subseteq announced'
      /\ EveryColourAnnounced'
  BY ColourTold DEF ColourNext
<1>7. TypeOK'
  BY <1>3, <1>4, <1>5, <1>6 DEF TypeOK, ColourNext, world, ledgers, bounds
<1>8. ASSUME NEW d \in Checks PROVE Colouring(d)' /\ PreviousTold(d)'
  <2>1. CASE d = c
    <3>1. /\ check'[c].current = s /\ check'[c].pending = check[c].pending
          /\ check'[c].found = check[c].found /\ check'[c].todo = check[c].todo \ {s}
          /\ check'[c].previous = Previous(s)
      BY <1>2, <1>3 DEF TypeOK, Check
    <3>2. Colouring(c)'
      BY <1>1, <1>5, <3>1 DEF Colouring, ToColour
    <3>3. PreviousTold(c)'
      BY <1>1, <1>6, <3>1, ReadColourTold DEF PreviousTold
    <3> QED
      BY <2>1, <3>2, <3>3
  <2>2. CASE d # c
    <3>1. check'[d] = check[d]
      BY <1>3, <2>2 DEF TypeOK
    <3> QED
      BY <1>5, <1>6, <3>1, OthersKept
  <2> QED
    BY <2>1, <2>2
<1> QED
  BY <1>6, <1>7, <1>8 DEF ColourNext, SalesOK

LEMMA ColourLastInv == ASSUME Inv, NEW c \in Checks, ColourLast(c) PROVE Inv'
<1> USE DEF Inv
<1>1. /\ monitor_lights' \in [Securities -> Row \cup {None}]
      /\ announced' \subseteq Securities \X Lights
      /\ announced \subseteq announced'
      /\ EveryColourAnnounced'
  BY ColourTold DEF ColourLast
<1>2. TypeOK'
  BY <1>1, NoCheckTyped DEF TypeOK, ColourLast, world, ledgers, bounds
<1>3. ASSUME NEW d \in Checks PROVE Colouring(d)' /\ PreviousTold(d)'
  <2>1. CASE d = c
    <3>1. check'[c].pc = "idle"
      BY NoCheckTyped DEF TypeOK, ColourLast
    <3> QED
      BY <2>1, <3>1 DEF Colouring, PreviousTold
  <2>2. CASE d # c
    <3>1. check'[d] = check[d]
      BY <2>2 DEF TypeOK, ColourLast
    <3> QED
      BY <1>1, <3>1, OthersKept DEF ColourLast, Recorded
  <2> QED
    BY <2>1, <2>2
<1> QED
  BY <1>1, <1>2, <1>3 DEF ColourLast, SalesOK

-----------------------------------------------------------------------------
(* The owner, the authority, time and failures. *)

(* Steps that leave the checks, the colours and the sales alone. *)
LEMMA Aside ==
    ASSUME Inv, TypeOK', UNCHANGED <<check, colours, monitor_sales, sale>>
    PROVE  Inv'
<1>1. ASSUME NEW c \in Checks PROVE Colouring(c)' /\ PreviousTold(c)'
  BY OthersKept DEF Inv, colours, Recorded
<1> QED
  BY <1>1 DEF Inv, SalesOK, EveryColourAnnounced, colours

LEMMA EventTyped == ASSUME TypeOK, Event PROVE events' \in 0..EventBudget
BY DEF TypeOK, Event

LEMMA SaleLoadInv ==
    ASSUME Inv, NEW u \in Sellers, NEW s \in Securities, SaleLoad(u, s)
    PROVE  Inv'
<1> USE DEF Inv
<1>1. PICK quantity \in 1..monitor_holdings[s] :
         sale' = [sale EXCEPT ![u] = [security |-> s, held |-> monitor_holdings[s],
                                      quantity |-> quantity, light |-> Previous(s)]]
  BY DEF SaleLoad
<1> DEFINE read == [security |-> s, held |-> monitor_holdings[s],
                    quantity |-> quantity, light |-> Previous(s)]
<1>2. /\ monitor_holdings[s] \in 1..MaxQuantity
      /\ quantity \in 1..MaxQuantity
      /\ quantity <= monitor_holdings[s]
  BY DEF TypeOK
<1>3. read \in SaleRead
  BY <1>2, PreviousTyped DEF SaleRead
<1>4. TypeOK'
  BY <1>1, <1>3, EventTyped DEF TypeOK, SaleLoad, world, ledgers, colours
<1>5. SalesOK'
  <2> SUFFICES ASSUME NEW v \in Sellers, sale'[v] # None
               PROVE  sale'[v].quantity <= sale'[v].held
    BY DEF SalesOK
  <2>1. CASE v = u
    BY <1>1, <1>2, <2>1 DEF TypeOK
  <2>2. CASE v # u
    BY <1>1, <2>2 DEF TypeOK, SalesOK
  <2> QED
    BY <2>1, <2>2
<1>6. ASSUME NEW c \in Checks PROVE Colouring(c)' /\ PreviousTold(c)'
  BY OthersKept DEF SaleLoad, colours, Recorded
<1> QED
  BY <1>4, <1>5, <1>6 DEF SaleLoad, EveryColourAnnounced, colours

LEMMA SaleBookInv ==
    ASSUME Inv, NEW u \in Sellers, SaleBook(u)
    PROVE  Inv'
<1> USE DEF Inv
<1> DEFINE read == sale[u]
<1>1. PICK i \in 1..MaxSales :
         /\ monitor_sales[i] = None
         /\ monitor_sales' = [monitor_sales EXCEPT ![i] = SaleRow(read)]
  BY DEF SaleBook
<1>2. read \in SaleRead /\ read.quantity <= read.held
  BY DEF SaleBook, TypeOK, SalesOK
<1>3. SaleRow(read) \in Sale
  BY <1>2 DEF SaleRow, SaleRead, Sale, Lights
<1>4. /\ monitor_sales' \in [1..MaxSales -> Sale \cup {None}]
      /\ Recorded \subseteq Recorded'
  BY <1>1, <1>3 DEF TypeOK, Recorded
<1>5. monitor_holdings' \in [Securities -> 0..MaxQuantity]
  <2>1. read.security \in Securities /\ read.held - read.quantity \in 0..MaxQuantity
    BY <1>2 DEF SaleRead
  <2> QED
    BY <2>1 DEF SaleBook, TypeOK
<1>6. sale' = [sale EXCEPT ![u] = None]
  BY DEF SaleBook
<1>7. TypeOK'
  BY <1>4, <1>5, <1>6 DEF TypeOK, SaleBook, world, colours, bounds
<1>8. ASSUME NEW c \in Checks PROVE Colouring(c)' /\ PreviousTold(c)'
  BY <1>4, OthersKept DEF SaleBook, colours
<1> QED
  BY <1>6, <1>7, <1>8 DEF SaleBook, EveryColourAnnounced, colours, SalesOK, TypeOK

LEMMA OwnerInv == ASSUME Inv, Owner PROVE Inv'
<1> USE DEF Inv
<1>1. ASSUME NEW s \in Securities, UpsertHolding(s) PROVE Inv'
  <2>1. TypeOK'
    BY <1>1, EventTyped DEF TypeOK, UpsertHolding, world, colours, requests
  <2> QED
    BY <1>1, <2>1, Aside DEF UpsertHolding, requests
<1>2. ASSUME NEW s \in Securities, RemoveHolding(s) PROVE Inv'
  <2>1. TypeOK'
    BY <1>2, EventTyped DEF TypeOK, RemoveHolding, world, colours, requests
  <2> QED
    BY <1>2, <2>1, Aside DEF RemoveHolding, requests
<1>3. ASSUME NEW s \in Securities, ImportRow(s) PROVE Inv'
  <2>1. TypeOK'
    BY <1>3 DEF TypeOK, ImportRow, world, colours, bounds
  <2> QED
    BY <1>3, <2>1, Aside DEF ImportRow
<1>4. ASSUME NEW s \in Securities, Escalate(s) PROVE Inv'
  <2>1. monitor_lights[s].report \in Reports \cup {None}
    BY <1>4 DEF Escalate, TypeOK, Row
  <2>2. monitor_reviews' \subseteq Reviews
    BY <1>4, <2>1 DEF Escalate, AddReview, TypeOK, Reviews
  <2>3. TypeOK'
    BY <1>4, <2>2, EventTyped DEF TypeOK, Escalate, world, ledgers, colours, requests
  <2> QED
    BY <1>4, <2>3, Aside DEF Escalate, requests
<1>5. ASSUME NEW s \in Securities, FlagReport(s) PROVE Inv'
  <2>1. PICK report \in 1..authority[s].report : AddReview(s, report, "flag")
    BY <1>5 DEF FlagReport
  <2>2. report \in Reports
    BY DEF TypeOK, Reports
  <2>3. monitor_reviews' \subseteq Reviews
    BY <2>1, <2>2 DEF AddReview, TypeOK, Reviews
  <2>4. TypeOK'
    BY <1>5, <2>3, EventTyped DEF TypeOK, FlagReport, world, ledgers, colours, requests
  <2> QED
    BY <1>5, <2>4, Aside DEF FlagReport, requests
<1>6. ASSUME NEW s \in Securities, PaperTrade(s) PROVE Inv'
  <2>1. TypeOK'
    BY <1>6, EventTyped DEF TypeOK, PaperTrade, world, colours, requests
  <2> QED
    BY <1>6, <2>1, Aside DEF PaperTrade, requests
<1>7. CASE ImportClear
  <2>1. TypeOK'
    BY <1>7, EventTyped DEF TypeOK, ImportClear, world, colours
  <2> QED
    BY <1>7, <2>1, Aside DEF ImportClear
<1> QED
  BY <1>1, <1>2, <1>3, <1>4, <1>5, <1>6, <1>7, SaleLoadInv, SaleBookInv DEF Owner

LEMMA EnvironmentInv == ASSUME Inv, Environment PROVE Inv'
<1> USE DEF Inv
<1>1. ASSUME NEW s \in Securities, NewReport(s) PROVE Inv'
  <2>1. PICK verdict \in Outcomes :
           authority' = [authority EXCEPT ![s] = [report |-> @.report + 1, verdict |-> verdict]]
    BY <1>1 DEF NewReport
  <2>2. authority[s].report + 1 \in Reports
    BY <1>1 DEF NewReport, TypeOK, Reports
  <2>3. authority' \in [Securities -> [report : Reports, verdict : Outcomes]]
    BY <2>1, <2>2 DEF TypeOK
  <2>4. TypeOK'
    BY <1>1, <2>3, EventTyped DEF TypeOK, NewReport, ledgers, colours, requests
  <2> QED
    BY <1>1, <2>4, Aside DEF NewReport, requests
<1>2. ASSUME NEW s \in Securities, Outage(s) PROVE Inv'
  <2>1. TypeOK'
    BY <1>2, EventTyped DEF TypeOK, Outage, ledgers, colours, requests
  <2> QED
    BY <1>2, <2>1, Aside DEF Outage, requests
<1>3. ASSUME NEW s \in Securities, Recover(s) PROVE Inv'
  <2>1. TypeOK'
    BY <1>3 DEF TypeOK, Recover, ledgers, colours, requests, bounds
  <2> QED
    BY <1>3, <2>1, Aside DEF Recover, requests
<1>4. CASE NextDay
  <2>1. TypeOK'
    BY <1>4, EventTyped DEF TypeOK, NextDay, world, ledgers, colours, requests
  <2> QED
    BY <1>4, <2>1, Aside DEF NextDay, requests
<1>5. CASE Crash
  <2>1. TypeOK'
    BY <1>5, EventTyped, NoCheckTyped DEF TypeOK, Crash, world, ledgers, colours
  <2>2. \A c \in Checks : Colouring(c)' /\ PreviousTold(c)'
    BY <1>5, NoCheckTyped DEF Crash, Colouring, PreviousTold
  <2> QED
    BY <1>5, <2>1, <2>2 DEF Crash, SalesOK, EveryColourAnnounced, colours
<1> QED
  BY <1>1, <1>2, <1>3, <1>4, <1>5 DEF Environment

-----------------------------------------------------------------------------
LEMMA StepInv == ASSUME Inv, [Next]_vars PROVE Inv'
<1>1. ASSUME NEW c \in Checks, CheckStep(c) PROVE Inv'
  BY <1>1, StartInv, ScreenInv, ClockInv, BeginInv, ResolveFirstInv, ColourNextInv, ColourLastInv
     DEF CheckStep
<1>2. CASE UNCHANGED vars
  <2>1. TypeOK'
    BY <1>2 DEF Inv, TypeOK, vars, world, ledgers, colours, requests, bounds
  <2> QED
    BY <1>2, <2>1, Aside DEF vars, requests
<1> QED
  BY <1>1, <1>2, OwnerInv, EnvironmentInv DEF Next

LEMMA Invariance == Spec => []Inv
BY InitInv, StepInv, PTL DEF Spec

(* Only the clock of a check writes the flags. *)
LEMMA FlagsStep ==
    ASSUME [Next]_vars, flags' # flags
    PROVE  \E c \in Checks : Clock(c)
<1>1. ASSUME NEW c \in Checks, CheckStep(c) PROVE Clock(c)
  BY <1>1 DEF CheckStep, Start, Screen, Begin, ResolveFirst, ColourNext, ColourLast
<1>2. ~Owner
  BY DEF Owner, SaleLoad, SaleBook, UpsertHolding, RemoveHolding, ImportRow, Escalate, FlagReport,
         PaperTrade, ImportClear
<1>3. ~Environment
  BY DEF Environment, NewReport, Outage, Recover, NextDay, Crash
<1> QED
  BY <1>1, <1>2, <1>3 DEF Next, vars

(* What the clock of a check does to one flag. *)
LEMMA ClockOfFlag ==
    ASSUME TypeOK, NEW c \in Checks, Clock(c),
           NEW sc \in Scopes, NEW s \in Securities, NEW a \in Alerts
    PROVE  LET f == flags[sc][s][a]  after == flags'[sc][s][a] IN
           \/ Scope(c) = sc /\ Flagged(c, s, a) /\ after = Raised(f)
           \/ Scope(c) = sc /\ ~Flagged(c, s, a) /\ after = Cleared(f)
           \/ Scope(c) # sc /\ after = f
<1>1. flags'[sc][s][a] = ApplyClock(c)[sc][s][a]
  BY DEF Clock
<1>2. CASE Scope(c) = sc /\ Flagged(c, s, a)
  BY <1>1, <1>2 DEF ApplyClock
<1>3. CASE Scope(c) = sc /\ ~Flagged(c, s, a)
  BY <1>1, <1>3 DEF ApplyClock, InScope
<1>4. CASE Scope(c) # sc
  BY <1>1, <1>4 DEF ApplyClock, InScope
<1> QED
  BY <1>2, <1>3, <1>4

(* Every variable keeps its type: sales of overlapping requests never      *)
(* leave a negative holding, and a resolved sale keeps what it recorded.   *)
THEOREM TypeCorrect == Spec => []TypeOK
<1>1. Inv => TypeOK
  BY DEF Inv
<1> QED
  BY <1>1, Invariance, PTL

(* However many runs overlap, a holding is shown YELLOW or RED only after  *)
(* an alert told so: a run that writes a colour writes its alert with it,  *)
(* or it read that very colour and somebody told of it before.             *)
THEOREM ColoursAnnounced == Spec => []EveryColourAnnounced
<1>1. Inv => EveryColourAnnounced
  BY DEF Inv
<1> QED
  BY <1>1, Invariance, PTL

(* A disposal flag is cleared only by a check of its own ledger that did   *)
(* not find the holding so, whatever sweeps of the other ledger overlap.   *)
THEOREM OwnCheckClears == Spec => ClearedByItsOwnCheck
<1>1. ASSUME Inv, [Next]_vars,
             NEW sc \in Scopes, NEW s \in Securities, NEW a \in Alerts,
             flags[sc][s][a].live, ~flags'[sc][s][a].live
      PROVE  \E c \in Checks : /\ Scope(c) = sc
                               /\ check[c].pc = "screen" /\ check'[c].pc # "screen"
                               /\ ~Flagged(c, s, a)
  <2>1. PICK c \in Checks : Clock(c)
    BY <1>1, FlagsStep
  <2>2. Scope(c) = sc /\ ~Flagged(c, s, a)
    <3>1. \/ Scope(c) = sc /\ Flagged(c, s, a)
             /\ flags'[sc][s][a] = Raised(flags[sc][s][a])
          \/ Scope(c) = sc /\ ~Flagged(c, s, a)
          \/ flags'[sc][s][a] = flags[sc][s][a]
      BY <1>1, <2>1, ClockOfFlag DEF Inv
    <3>2. Raised(flags[sc][s][a]).live
      BY DEF Raised
    <3> QED
      BY <1>1, <3>1, <3>2
  <2>3. check[c].pc = "screen" /\ check'[c].pc # "screen"
    <3>1. check \in [Checks -> Check] /\ check[c] \in Check
      BY <1>1 DEF Inv, TypeOK
    <3>2. check'[c] = IF c \in Runs THEN [check[c] EXCEPT !.pc = "begin"] ELSE NoCheck
      BY <2>1, <3>1 DEF Clock
    <3> QED
      BY <2>1, <3>1, <3>2, NoCheckTyped DEF Clock, Check
  <2> QED
    BY <2>2, <2>3
<1>2. Inv /\ [Next]_vars =>
        [\A sc \in Scopes, s \in Securities, a \in Alerts :
            flags[sc][s][a].live /\ ~flags'[sc][s][a].live =>
                \E c \in Checks : /\ Scope(c) = sc
                                  /\ check[c].pc = "screen" /\ check'[c].pc # "screen"
                                  /\ ~Flagged(c, s, a)]_vars
  BY <1>1
<1> QED
  BY <1>2, Invariance, PTL DEF Spec, ClearedByItsOwnCheck

(* A live flag keeps the day its duty began through any number of checks,  *)
(* and a duty that was cleared begins again on the day it is raised.       *)
THEOREM ClockKept == Spec => ClockKeepsItsStart
<1>1. ASSUME Inv, [Next]_vars,
             NEW sc \in Scopes, NEW s \in Securities, NEW a \in Alerts,
             flags'[sc][s][a].live
      PROVE  flags'[sc][s][a].first_flagged_at =
                 IF flags[sc][s][a].live THEN flags[sc][s][a].first_flagged_at ELSE day
  <2>1. CASE flags' = flags
    BY <1>1, <2>1
  <2>2. CASE flags' # flags
    <3>1. PICK c \in Checks : Clock(c)
      BY <1>1, <2>2, FlagsStep
    <3>2. flags[sc][s][a] \in Flag
      BY <1>1 DEF Inv, TypeOK
    <3>3. ~Cleared(flags[sc][s][a]).live
      BY <3>2 DEF Cleared, Flag
    <3>4. \/ flags'[sc][s][a] = Raised(flags[sc][s][a])
          \/ flags'[sc][s][a] = Cleared(flags[sc][s][a])
          \/ flags'[sc][s][a] = flags[sc][s][a]
      BY <1>1, <3>1, ClockOfFlag DEF Inv
    <3> QED
      BY <1>1, <3>3, <3>4 DEF Raised
  <2> QED
    BY <2>1, <2>2
<1>2. Inv /\ [Next]_vars =>
        [\A sc \in Scopes, s \in Securities, a \in Alerts :
            flags'[sc][s][a].live =>
                flags'[sc][s][a].first_flagged_at =
                    IF flags[sc][s][a].live THEN flags[sc][s][a].first_flagged_at ELSE day]_vars
  BY <1>1
<1> QED
  BY <1>2, Invariance, PTL DEF Spec, ClockKeepsItsStart
-----------------------------------------------------------------------------
(* The screen of a filing, and the rounding in it: what a verdict says of  *)
(* the amounts themselves.                                                 *)
LEMMA Grows ==
    ASSUME NEW b \in Nat, NEW x \in Int, NEW y \in Int, x <= y
    PROVE  b * x <= b * y
<1> DEFINE d == y - x
<1>1. d \in Nat /\ y = x + d
  OBVIOUS
<1> HIDE DEF d
<1>2. b * d >= 0 /\ b * (x + d) = b * x + b * d
  BY <1>1
<1> QED
  BY <1>1, <1>2

(* Division rounds down. *)
LEMMA Quotient ==
    ASSUME NEW a \in Int, NEW b \in Nat \ {0}, NEW k \in Int
    PROVE  a \div b < k <=> a < b * k
<1> DEFINE q == a \div b
<1>1. q \in Int /\ b * q <= a /\ a < b * q + b
  OBVIOUS
<1> HIDE DEF q
<1>2. ASSUME q < k PROVE a < b * k
  <2>1. b * (q + 1) <= b * k /\ b * (q + 1) = b * q + b
    BY <1>1, <1>2, Grows
  <2> QED
    BY <1>1, <2>1
<1>3. ASSUME q >= k PROVE b * k <= a
  <2>1. b * k <= b * q
    BY <1>1, <1>3, Grows
  <2> QED
    BY <1>1, <2>1
<1> QED
  BY <1>1, <1>2, <1>3 DEF q

-----------------------------------------------------------------------------
(* What the screen reads of a filing, before any rounding: the debt, the   *)
(* cash and what they are measured against.                                *)
Sheet(filing) == LatestAnnualFact(filing.gaap)
Debt(filing) == SumComponents(filing.gaap, DebtGroups, Sheet(filing).end).total
Cash(filing) == SumComponents(filing.gaap, CashGroups, Sheet(filing).end).total
Shares(filing) == LatestSharesOutstanding(filing.dei)
Whole(filing, methodology) ==
    IF methodology = "AAOIFI" THEN Shares(filing) * filing.price ELSE Sheet(filing).value
Limit(methodology) == IF methodology = "AAOIFI" THEN AaoifiLimit ELSE ScLimit

(* The facts of a filing are numbers, and so are their sums. *)
Numeric(filing) ==
    /\ Sheet(filing) # None => /\ Sheet(filing).value \in Int
                              /\ Debt(filing) \in Int /\ Cash(filing) \in Int
    /\ Shares(filing) \in Nat \cup {None} /\ Shares(filing) # 0
    /\ filing.price \in Int \cup {None}

(* part is less than num/den of limit, a percentage of whole. *)
Below(part, whole, limit, num, den) == den * 100 * Percent * part < num * limit * whole

(* A rounded ratio under a limit is one of amounts under it. *)
LEMMA RoundedBelow ==
    ASSUME NEW part \in Int, NEW whole \in Nat \ {0}, NEW k \in Int, Ratio(part, whole) < k
    PROVE  100 * Percent * part < k * whole
<1> DEFINE a == 100 * Percent * part + whole \div 2
<1>1. a \in Int /\ 100 * Percent * part <= a
  BY DEF Percent
<1>2. a < whole * k
  <2>1. a \div whole < k
    BY DEF Ratio
  <2> HIDE DEF a
  <2> QED
    BY <1>1, <2>1, Quotient
<1>3. whole * k = k * whole
  OBVIOUS
<1>4. 100 * Percent * part \in Int /\ k * whole \in Int
  BY DEF Percent
<1> HIDE DEF a
<1> QED
  BY <1>1, <1>2, <1>3, <1>4

(* What a screen with ratios has computed. *)
LEMMA RatiosRead ==
    ASSUME NEW filing, NEW methodology \in {"SC_MY_SAC", "AAOIFI"}, Numeric(filing),
           ScreenUsSymbol(filing, methodology).status = "COMPLIANT"
    PROVE  LET r == ScreenUsSymbol(filing, methodology).ratios IN
           /\ filing.registered /\ ExcludedActivity[filing.sic] = None
           /\ {"tickers", "submissions", "facts"} \cap filing.unanswered = {}
           /\ Whole(filing, methodology) \in Nat \ {0}
           /\ Debt(filing) \in Int /\ Cash(filing) \in Int
           /\ r.debt_ratio = Ratio(Debt(filing), Whole(filing, methodology))
           /\ r.cash_ratio = Ratio(Cash(filing), Whole(filing, methodology))
           /\ r.limit = Limit(methodology)
           /\ r.debt_ratio < r.limit /\ r.cash_ratio < r.limit
<1> DEFINE sc == ComputeRatios(filing.gaap)
           ratios == IF methodology = "AAOIFI" /\ sc # None
                     THEN AaoifiRatios(sc, filing.dei, filing.price) ELSE sc
<1>1. /\ filing.registered /\ ExcludedActivity[filing.sic] = None
      /\ "tickers" \notin filing.unanswered /\ "submissions" \notin filing.unanswered
      /\ "facts" \notin filing.unanswered
      /\ ratios # None /\ ScreenUsSymbol(filing, methodology) = ByRatios(ratios)
  <2> HIDE DEF ratios
  <2>1. ScreenUsSymbol(filing, methodology) =
          IF "tickers" \in filing.unanswered THEN Undated("ERROR")
          ELSE IF ~filing.registered THEN Undated("UNKNOWN")
          ELSE IF "submissions" \in filing.unanswered THEN Undated("ERROR")
          ELSE IF ExcludedActivity[filing.sic] # None THEN ByActivity(filing)
          ELSE IF "facts" \in filing.unanswered THEN Undated("ERROR")
          ELSE IF ratios = None THEN Undated("UNKNOWN")
          ELSE ByRatios(ratios)
    BY DEF ScreenUsSymbol, ratios
  <2>2. /\ Undated("ERROR").status # "COMPLIANT" /\ Undated("UNKNOWN").status # "COMPLIANT"
        /\ ByActivity(filing).status # "COMPLIANT"
    BY DEF Undated, ByActivity
  <2> QED
    BY <2>1, <2>2
<1>2. /\ ByRatios(ratios).ratios = ratios /\ ByRatios(ratios).status = "COMPLIANT"
      /\ ~(ratios.debt_ratio >= ratios.limit) /\ ~(ratios.cash_ratio >= ratios.limit)
  <2> HIDE DEF ratios
  <2> QED
    BY <1>1 DEF ByRatios
<1>3. /\ sc # None /\ Sheet(filing) # None /\ Sheet(filing).value \in Nat \ {0}
      /\ Debt(filing) \in Int /\ Cash(filing) \in Int
      /\ sc = [report_date |-> Sheet(filing).end, debt |-> Debt(filing), cash |-> Cash(filing),
               debt_ratio |-> Ratio(Debt(filing), Sheet(filing).value),
               cash_ratio |-> Ratio(Cash(filing), Sheet(filing).value),
               limit |-> ScLimit,
               debt_line |-> SumComponents(filing.gaap, DebtGroups, Sheet(filing).end).found]
  <2>1. sc # None
    BY <1>1
  <2> QED
    BY <2>1 DEF ComputeRatios, Sheet, Debt, Cash, Numeric
<1>4. /\ Whole(filing, methodology) \in Nat \ {0}
      /\ ratios.debt_ratio = Ratio(Debt(filing), Whole(filing, methodology))
      /\ ratios.cash_ratio = Ratio(Cash(filing), Whole(filing, methodology))
      /\ ratios.limit = Limit(methodology)
  <2>1. CASE methodology = "AAOIFI"
    <3>1. ratios = AaoifiRatios(sc, filing.dei, filing.price)
      BY <1>3, <2>1
    <3>2. /\ Shares(filing) # None /\ filing.price # None /\ ~(filing.price <= 0)
          /\ ratios = [sc EXCEPT !.debt_ratio = Ratio(sc.debt, Shares(filing) * filing.price),
                                 !.cash_ratio = Ratio(sc.cash, Shares(filing) * filing.price),
                                 !.limit = AaoifiLimit]
      <4> HIDE DEF sc, ratios
      <4> QED
        BY <1>1, <3>1 DEF AaoifiRatios, Shares
    <3>3. Shares(filing) \in Nat \ {0} /\ filing.price \in Nat \ {0}
      BY <3>2 DEF Numeric
    <3>4. Shares(filing) * filing.price \in Nat \ {0}
      BY <3>3
    <3> HIDE DEF sc, ratios
    <3> QED
      BY <1>3, <2>1, <3>2, <3>4 DEF Whole, Limit
  <2>2. CASE methodology # "AAOIFI"
    <3>1. ratios = sc
      BY <2>2
    <3> HIDE DEF sc, ratios
    <3> QED
      BY <1>3, <2>2, <3>1 DEF Whole, Limit
  <2> QED
    BY <2>1, <2>2
<1> HIDE DEF ratios, sc
<1>5. ScreenUsSymbol(filing, methodology).ratios = ratios
  BY <1>1, <1>2
<1>6. Ratio(Debt(filing), Whole(filing, methodology)) \in Int
      /\ Ratio(Cash(filing), Whole(filing, methodology)) \in Int /\ Limit(methodology) \in Int
  BY <1>3, <1>4 DEF Ratio, Percent, Limit, ScLimit, AaoifiLimit
<1>7. ratios.debt_ratio < ratios.limit /\ ratios.cash_ratio < ratios.limit
  BY <1>2, <1>4, <1>6
<1> QED
  BY <1>1, <1>3, <1>4, <1>5, <1>7

(* A filing that passes is registered, read in full and of no excluded     *)
(* activity, and its debt and its cash are strictly under the limit, and   *)
(* not only the percentages that _screen_us_symbol rounds to four decimals *)
(* before it compares them.                                                *)
THEOREM PassesBelowTheLimit ==
    ASSUME NEW filing, NEW methodology \in {"SC_MY_SAC", "AAOIFI"}, Numeric(filing),
           ScreenUsSymbol(filing, methodology).status = "COMPLIANT"
    PROVE  /\ filing.registered /\ ExcludedActivity[filing.sic] = None
           /\ {"tickers", "submissions", "facts"} \cap filing.unanswered = {}
           /\ Below(Debt(filing), Whole(filing, methodology), Limit(methodology), 1, 1)
           /\ Below(Cash(filing), Whole(filing, methodology), Limit(methodology), 1, 1)
<1> DEFINE w == Whole(filing, methodology)
           k == Limit(methodology)
<1>1. /\ w \in Nat \ {0} /\ k \in Int /\ Debt(filing) \in Int /\ Cash(filing) \in Int
      /\ Ratio(Debt(filing), w) < k /\ Ratio(Cash(filing), w) < k
  BY RatiosRead DEF Limit, ScLimit, AaoifiLimit, Percent
<1> HIDE DEF w, k
<1>2. 100 * Percent * Debt(filing) < k * w /\ 100 * Percent * Cash(filing) < k * w
  BY <1>1, RoundedBelow
<1>3. Below(Debt(filing), w, k, 1, 1) /\ Below(Cash(filing), w, k, 1, 1)
  BY <1>1, <1>2 DEF Below, Percent
<1> QED
  BY <1>3, RatiosRead DEF w, k
(* Without a reason the limit and both ratios are known and well apart.    *)
LEMMA NothingNear ==
    ASSUME NEW v, NearLimitReasons(v) = {}
    PROVE  /\ v.limit # None /\ v.limit # 0
           /\ v.debt_ratio # None /\ ~(10 * v.debt_ratio >= 9 * v.limit)
           /\ v.cash_ratio # None /\ ~(10 * v.cash_ratio >= 9 * v.limit)
<1> DEFINE reason(ratio) == IF ratio = None THEN {"data_unavailable"}
                            ELSE IF 10 * ratio >= 9 * v.limit THEN {"near_limit"} ELSE {}
<1>1. v.limit # None /\ v.limit # 0
  BY DEF NearLimitReasons
<1>2. UNION {reason(ratio) : ratio \in {v.debt_ratio, v.cash_ratio}} = {}
  BY <1>1 DEF NearLimitReasons
<1> HIDE DEF reason
<1>3. reason(v.debt_ratio) = {} /\ reason(v.cash_ratio) = {}
  BY <1>2
<1> QED
  BY <1>1, <1>3 DEF reason

(* A GREEN colour is the colour of a plain PASS. *)
LEMMA GreenIsPlain ==
    ASSUME NEW v, NEW prior, NEW flagged, NEW escalated,
           Classify(v, prior, flagged, escalated) = "GREEN"
    PROVE  v.status = "PASS" /\ PassReasons(v, prior) = {} /\ ~flagged /\ ~escalated
<1>1. ~escalated /\ ScreenLight(v, prior, flagged) = "GREEN"
  BY DEF Classify
<1>2. v.status = "PASS" /\ PassReasons(v, prior) = {} /\ ~flagged
  BY <1>1 DEF ScreenLight
<1> QED
  BY <1>1, <1>2

LEMMA NineTenths ==
    ASSUME NEW n \in Int, NEW y \in Int
    PROVE  9 * (10 * n) * y = 10 * ((9 * n) * y) /\ (9 * n) * y \in Int
  OBVIOUS

(* A GREEN holding is one whose filing passes with a debt line, whose debt  *)
(* and cash are under nine tenths of the limit before any rounding, whose   *)
(* previous report passed or is unknown, and which nobody flagged or        *)
(* escalated: no missing figure and no rounding makes a holding GREEN.      *)
THEOREM GreenIsWellBelow ==
    ASSUME NEW filing, NEW methodology \in {"SC_MY_SAC", "AAOIFI"}, Numeric(filing),
           NEW prior, NEW flagged, NEW escalated,
           Classify(EvaluateUs(filing, methodology), prior, flagged, escalated) = "GREEN"
    PROVE  /\ ScreenUsSymbol(filing, methodology).status = "COMPLIANT"
           /\ ScreenUsSymbol(filing, methodology).ratios.debt_line
           /\ prior \in {None, "COMPLIANT"} /\ ~flagged /\ ~escalated
           /\ Below(Debt(filing), Whole(filing, methodology), Limit(methodology), 9, 10)
           /\ Below(Cash(filing), Whole(filing, methodology), Limit(methodology), 9, 10)
<1> DEFINE v == EvaluateUs(filing, methodology)
           screen == ScreenUsSymbol(filing, methodology)
           w == Whole(filing, methodology)
           k == Limit(methodology)
<1>1. v.status = "PASS" /\ PassReasons(v, prior) = {} /\ ~flagged /\ ~escalated
  BY GreenIsPlain
<1>2. /\ v.market = "US"
      /\ v.status = CASE screen.status = "COMPLIANT" -> "PASS"
                      [] screen.status = "NON_COMPLIANT" -> "REJECT"
                      [] OTHER -> "UNKNOWN"
      /\ v.debt_ratio = IF screen.ratios = None THEN None ELSE screen.ratios.debt_ratio
      /\ v.cash_ratio = IF screen.ratios = None THEN None ELSE screen.ratios.cash_ratio
      /\ v.limit = IF screen.ratios = None THEN None ELSE screen.ratios.limit
      /\ v.debt_line = (screen.ratios # None /\ screen.ratios.debt_line)
  BY DEF EvaluateUs
<1>3. screen.status = "COMPLIANT"
  <2> HIDE DEF v, screen
  <2> QED
    BY <1>1, <1>2
<1>4. /\ w \in Nat \ {0} /\ Debt(filing) \in Int /\ Cash(filing) \in Int
      /\ screen.ratios.debt_ratio = Ratio(Debt(filing), w)
      /\ screen.ratios.cash_ratio = Ratio(Cash(filing), w)
      /\ screen.ratios.limit = k
  BY <1>3, RatiosRead
<1> HIDE DEF v, screen, w
<1>5. NearLimitReasons(v) = {} /\ v.debt_line /\ prior \in {None, "COMPLIANT"}
  BY <1>1, <1>2 DEF PassReasons
<1>6. /\ screen.ratios # None
      /\ ~(10 * Ratio(Debt(filing), w) >= 9 * k) /\ ~(10 * Ratio(Cash(filing), w) >= 9 * k)
  BY <1>2, <1>4, <1>5, NothingNear
<1>7. screen.ratios.debt_line
  BY <1>2, <1>5, <1>6
<1>8. k \in {10 * 33000, 10 * 30000}
  BY DEF Limit, ScLimit, AaoifiLimit, Percent
<1> HIDE DEF k
<1>9. PICK n \in {33000, 30000} : k = 10 * n
  BY <1>8
<1>10. Ratio(Debt(filing), w) \in Int /\ Ratio(Cash(filing), w) \in Int
  BY <1>4 DEF Ratio, Percent
<1>11. Ratio(Debt(filing), w) < 9 * n /\ Ratio(Cash(filing), w) < 9 * n
  BY <1>6, <1>9, <1>10
<1>12. /\ 100 * Percent * Debt(filing) < (9 * n) * w
       /\ 100 * Percent * Cash(filing) < (9 * n) * w
  BY <1>4, <1>11, RoundedBelow
<1>13. 9 * k * w = 10 * ((9 * n) * w) /\ (9 * n) * w \in Int
  BY <1>4, <1>9, NineTenths
<1>14. Below(Debt(filing), w, k, 9, 10) /\ Below(Cash(filing), w, k, 9, 10)
  BY <1>4, <1>12, <1>13 DEF Below, Percent
<1> QED
  BY <1>1, <1>3, <1>5, <1>14, <1>7 DEF screen, w, k

=============================================================================
