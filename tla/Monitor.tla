-------------------------------- MODULE Monitor --------------------------------
(***************************************************************************)
(* The Shariah monitor of self-reported holdings (holdings_monitor.py) and *)
(* the disposal clock it shares with the sweep of the paper ledger         *)
(* (holdings_compliance.py).                                               *)
(*                                                                         *)
(* A check lists positions, screens them one by one over the network, and  *)
(* only then writes: first the clock, then for each holding the pending    *)
(* sales, the alert and the colour.  Checks, sales and edits of the        *)
(* holdings overlap: each request has a connection of its own.             *)
(*                                                                         *)
(* Holdings are at one broker and the paper ledger is one account, so a    *)
(* security names a position of either.  Money is abstracted to the colour *)
(* that decides what a sale owes.                                          *)
(***************************************************************************)
EXTENDS TrafficLight, FiniteSets

CONSTANTS
    Securities,
    Outcomes,       \* verdicts that an annual report may get
    Runs,           \* monitor runs that may be active at once
    Sweeps,         \* sweeps of the paper ledger that may be active at once
    Sellers,        \* sale requests that may be active at once
    OpeningHoldings,    \* securities that the owner has entered at the start
    MaxReports, MaxQuantity, MaxSales, MaxDay,
    EventBudget     \* bound on edits, sales, reports, outages, days and crashes, together

ASSUME MonitorAssumption ==
    /\ IsFiniteSet(Securities)
    /\ OpeningHoldings \subseteq Securities
    /\ Outcomes \subseteq Verdict
    /\ Runs \cap Sweeps = {}
    /\ {MaxReports, MaxQuantity, MaxSales, MaxDay} \subseteq Nat \ {0}
    /\ EventBudget \in Nat
    /\ None \notin Nat \cup Lights \cup ScreenStatuses

VARIABLES
    authority,      \* what the authority holds of a security: its latest report and verdict
    outage,         \* securities whose screen cannot be fetched at the moment
    screens,        \* shariah_screens: the last status logged of each report
    monitor_holdings, paper_positions,
    monitor_lights, announced,      \* announced: the colours that monitor_alerts tells of
    monitor_sales, monitor_reviews,
    flags,          \* holdings_compliance_flags
    check, sale, import,            \* the requests in flight
    day, events

world == <<authority, outage>>
ledgers == <<monitor_holdings, paper_positions>>
colours == <<monitor_lights, announced>>
requests == <<check, sale, import>>
bounds == <<day, events>>
vars == <<world, screens, ledgers, colours, monitor_sales, monitor_reviews, flags, requests, bounds>>

-----------------------------------------------------------------------------
Checks == Runs \cup Sweeps
Scopes == {"self", "paper"}
Scope(c) == IF c \in Runs THEN "self" ELSE "paper"

Reports == 1..MaxReports
Alerts == {"NON_COMPLIANT_HOLDING", "UNCONFIRMED_HOLDING"}
Reviews == [security : Securities, report : Reports \cup {None}, kind : {"flag", "escalation"}]
Row == [light : Lights, report : Reports \cup {None}]
Sale == [security : Securities, light_at_sale : Lights \cup {"UNSCREENED"},
         resolved_light : {"RED", "GREEN", None}]
Flag == [first_flagged_at : 0..MaxDay \cup {None}, live : BOOLEAN]
NeverFlagged == [first_flagged_at |-> None, live |-> FALSE]

Finding == [light : Lights, report : Reports \cup {None}]
Check == [pc : {"idle", "screen", "begin", "resolve", "colour"},
          held : SUBSET Securities,             \* positions with a quantity, as listed
          todo : SUBSET Securities,
          found : [Securities -> Finding \cup {None}],
          current : Securities \cup {None},
          pending : SUBSET (1..MaxSales),
          previous : Lights \cup {None}]
NoCheck == [pc |-> "idle", held |-> {}, todo |-> {}, found |-> [s \in Securities |-> None],
            current |-> None, pending |-> {}, previous |-> None]

SaleRead == [security : Securities, held : 1..MaxQuantity, quantity : 1..MaxQuantity,
             light : Lights \cup {None}]

ASSUME NoneIsNoRecord == None \notin Row \cup Sale \cup Finding \cup SaleRead

TypeOK ==
    /\ authority \in [Securities -> [report : Reports, verdict : Outcomes]]
    /\ outage \subseteq Securities
    /\ screens \in [Securities -> [Reports -> ScreenStatuses \cup {None}]]
    /\ monitor_holdings \in [Securities -> 0..MaxQuantity]
    /\ paper_positions \subseteq Securities
    /\ monitor_lights \in [Securities -> Row \cup {None}]
    /\ announced \subseteq Securities \X Lights
    /\ monitor_sales \in [1..MaxSales -> Sale \cup {None}]
    /\ monitor_reviews \subseteq Reviews
    /\ flags \in [Scopes -> [Securities -> [Alerts -> Flag]]]
    /\ check \in [Checks -> Check]
    /\ sale \in [Sellers -> SaleRead \cup {None}]
    /\ import \subseteq Securities
    /\ day \in 0..MaxDay /\ events \in 0..EventBudget

Init ==
    /\ authority \in [Securities -> [report : {1}, verdict : Outcomes]]
    /\ outage = {}
    /\ screens = [s \in Securities |-> [d \in Reports |-> None]]
    /\ monitor_holdings = [s \in Securities |-> IF s \in OpeningHoldings THEN 1 ELSE 0]
    /\ paper_positions = {}
    /\ monitor_lights = [s \in Securities |-> None]
    /\ announced = {}
    /\ monitor_sales = [i \in 1..MaxSales |-> None]
    /\ monitor_reviews = {}
    /\ flags = [sc \in Scopes |-> [s \in Securities |-> [a \in Alerts |-> NeverFlagged]]]
    /\ check = [c \in Checks |-> NoCheck]
    /\ sale = [u \in Sellers |-> None]
    /\ import = {}
    /\ day = 0 /\ events = 0

Event == events < EventBudget /\ events' = events + 1

-----------------------------------------------------------------------------
(* What a screen of s finds now. *)

Unavailable == [market |-> "US", status |-> "UNKNOWN", mixed |-> FALSE, dated |-> FALSE,
                debt_ratio |-> None, cash_ratio |-> None, limit |-> None, debt_line |-> FALSE]

Evaluate(s) == IF s \in outage THEN Unavailable ELSE authority[s].verdict
ReportOf(s) == IF Evaluate(s).dated THEN authority[s].report ELSE None

(* A review applies only to the report it names. *)
Reviewed(s, kind) == [security |-> s, report |-> ReportOf(s), kind |-> kind] \in monitor_reviews

(* The raw status logged of the screen. *)
Logged(v) == CASE v.status = "PASS" -> "COMPLIANT"
               [] v.status = "REJECT" -> "NON_COMPLIANT"
               [] OTHER -> "UNKNOWN"

NoteScreen(s) ==
    IF ReportOf(s) = None THEN screens
    ELSE [screens EXCEPT ![s][ReportOf(s)] = Logged(Evaluate(s))]

Light(s) == Classify(Evaluate(s), PriorReportStatus(screens[s], ReportOf(s)),
                     Reviewed(s, "flag"), Reviewed(s, "escalation"))

(* The paper sweep alerts on the status of the verdict, not on the colour; *)
(* it is written here with the colour that stands for the alert.           *)
StatusLight(s) == CASE Evaluate(s).status = "PASS" -> "GREEN"
                    [] Evaluate(s).status = "REJECT" -> "RED"
                    [] OTHER -> "YELLOW"

AlertOf(light) == CASE light = "RED" -> "NON_COMPLIANT_HOLDING"
                    [] light = "YELLOW" -> "UNCONFIRMED_HOLDING"
                    [] OTHER -> None

-----------------------------------------------------------------------------
(* The check: run_monitor, and the compliance sweep of the paper ledger.   *)

Held == {s \in Securities : monitor_holdings[s] > 0}
Recorded == {i \in 1..MaxSales : monitor_sales[i] # None}
Pending == {i \in Recorded : monitor_sales[i].resolved_light = None}
PendingOf(s) == {i \in Pending : monitor_sales[i].security = s}

HeldPositions(c) == IF Scope(c) = "paper" THEN paper_positions ELSE Held

(* A symbol sold out while its sale is pending is screened too. *)
Positions(c) ==
    IF Scope(c) = "paper" THEN paper_positions
    ELSE Held \cup {monitor_sales[i].security : i \in Pending}

Start(c) ==
    /\ check[c].pc = "idle"
    /\ check' = [check EXCEPT ![c] = [NoCheck EXCEPT !.pc = "screen", !.todo = Positions(c),
                                                     !.held = HeldPositions(c)]]
    /\ UNCHANGED <<world, screens, ledgers, colours, monitor_sales, monitor_reviews, flags,
                   sale, import, bounds>>

(* Positions are taken in the fixed order in which they are listed. *)
First(positions) == CHOOSE s \in positions : TRUE

(* One fetch of the authority, over the network: everything else may move on. *)
Screen(c) ==
    LET s == First(check[c].todo) IN
    /\ check[c].pc = "screen"
    /\ check[c].todo # {}
    /\ screens' = NoteScreen(s)
    /\ LET light == IF Scope(c) = "self" THEN Light(s) ELSE StatusLight(s) IN
       check' = [check EXCEPT ![c].found[s] = [light |-> light, report |-> ReportOf(s)],
                              ![c].todo = @ \ {s}]
    /\ UNCHANGED <<world, ledgers, colours, monitor_sales, monitor_reviews, flags,
                   sale, import, bounds>>

Flagged(c, s, a) ==
    /\ s \in check[c].held
    /\ check[c].found[s] # None
    /\ AlertOf(check[c].found[s].light) = a

RaisedAfresh(f) == [live |-> TRUE, first_flagged_at |-> day]

(* The upsert of a flag: only a cleared one starts a new clock. *)
Raised(f) == [live |-> TRUE,
              first_flagged_at |-> IF f.live THEN f.first_flagged_at ELSE day]

StillOpen(f) == f
Cleared(f) == [f EXCEPT !.live = FALSE]

InAnyScope(c, sc) == TRUE
InScope(c, sc) == Scope(c) = sc

(* apply_disposal_clock: raises what this check flagged, and clears every  *)
(* other flag of its scope, all in one transaction.                        *)
ApplyClock(c) ==
    [sc \in Scopes |-> [s \in Securities |-> [a \in Alerts |->
        CASE Scope(c) = sc /\ Flagged(c, s, a) -> Raised(flags[sc][s][a])
          [] InScope(c, sc) /\ ~Flagged(c, s, a) -> Cleared(flags[sc][s][a])
          [] OTHER -> flags[sc][s][a]]]]

Clock(c) ==
    /\ check[c].pc = "screen"
    /\ check[c].todo = {}
    /\ flags' = ApplyClock(c)
    /\ check' = [check EXCEPT ![c] = IF c \in Runs THEN [@ EXCEPT !.pc = "begin"] ELSE NoCheck]
    /\ UNCHANGED <<world, screens, ledgers, colours, monitor_sales, monitor_reviews,
                   sale, import, bounds>>

-----------------------------------------------------------------------------
(* The colours.  The connection commits when the next holding asks for its *)
(* colour (the tables are ensured by a script), so a transaction holds the *)
(* alert and the colour of one holding and the sales of the next.          *)

ToColour(c) == {s \in Securities : check[c].found[s] # None}

(* The first holding: its pending sales are listed outside a transaction. *)
Begin(c) ==
    /\ check[c].pc = "begin"
    /\ \/ /\ ToColour(c) = {}
          /\ check' = [check EXCEPT ![c] = NoCheck]
       \/ LET s == First(ToColour(c)) IN
          /\ ToColour(c) # {}
          /\ check' = [check EXCEPT ![c].pc = "resolve", ![c].current = s,
                                    ![c].pending = PendingOf(s),
                                    ![c].todo = ToColour(c) \ {s}]
    /\ UNCHANGED <<world, screens, ledgers, colours, monitor_sales, monitor_reviews, flags,
                   sale, import, bounds>>

(* A pending sale takes the colour found, unless that is YELLOW. *)
Resolved(c, s, pending) ==
    LET light == check[c].found[s].light IN
    [i \in 1..MaxSales |->
        IF i \in pending /\ light # "YELLOW"
        THEN [monitor_sales[i] EXCEPT !.resolved_light = light]
        ELSE monitor_sales[i]]

Previous(s) == IF monitor_lights[s] = None THEN None ELSE monitor_lights[s].light

ResolveFirst(c) ==
    LET s == check[c].current IN
    /\ check[c].pc = "resolve"
    /\ monitor_sales' = Resolved(c, s, check[c].pending)
    /\ check' = [check EXCEPT ![c].pc = "colour", ![c].previous = Previous(s),
                              ![c].pending = {}]
    /\ UNCHANGED <<world, screens, ledgers, colours, monitor_reviews, flags, sale, import, bounds>>

AnnouncedOnlyChanges(s, previous, light) ==
    IF previous = light \/ previous = None THEN {} ELSE {<<s, light>>}

(* The first GREEN of a holding is not announced; every other change is. *)
Announced(s, previous, light) ==
    IF previous = light \/ (previous = None /\ light = "GREEN") THEN {} ELSE {<<s, light>>}

ColourOnChange(c) ==
    LET s == check[c].current  found == check[c].found[s]
        alert == Announced(s, check[c].previous, found.light) IN
    IF s \in check[c].held /\ alert # {}
    THEN /\ monitor_lights' = [monitor_lights EXCEPT ![s] = found]
         /\ announced' = announced \cup alert
    ELSE UNCHANGED colours

(* Nothing is coloured that was not held when the run listed the holdings. *)
Colour(c) ==
    LET s == check[c].current  found == check[c].found[s] IN
    IF s \in check[c].held
    THEN /\ monitor_lights' = [monitor_lights EXCEPT ![s] = found]
         /\ announced' = announced \cup Announced(s, check[c].previous, found.light)
    ELSE UNCHANGED colours

ColourNext(c) ==
    LET s == First(check[c].todo) IN
    /\ check[c].pc = "colour"
    /\ check[c].todo # {}
    /\ Colour(c)
    /\ monitor_sales' = Resolved(c, s, PendingOf(s))
    /\ check' = [check EXCEPT ![c].current = s, ![c].todo = @ \ {s}, ![c].previous = Previous(s)]
    /\ UNCHANGED <<world, screens, ledgers, monitor_reviews, flags, sale, import, bounds>>

ColourLast(c) ==
    /\ check[c].pc = "colour"
    /\ check[c].todo = {}
    /\ Colour(c)
    /\ check' = [check EXCEPT ![c] = NoCheck]
    /\ UNCHANGED <<world, screens, ledgers, monitor_sales, monitor_reviews, flags,
                   sale, import, bounds>>

-----------------------------------------------------------------------------
(* The owner's requests. *)

(* record_sale reads the holding and its colour... *)
SaleLoad(u, s) ==
    /\ Event
    /\ sale[u] = None
    /\ \E i \in 1..MaxSales : monitor_sales[i] = None
    /\ \E quantity \in 1..monitor_holdings[s] :
         sale' = [sale EXCEPT ![u] = [security |-> s, held |-> monitor_holdings[s],
                                      quantity |-> quantity, light |-> Previous(s)]]
    /\ UNCHANGED <<world, screens, ledgers, colours, monitor_sales, monitor_reviews, flags,
                   check, import, day>>

SettledAtSale(read) ==
    [security |-> read.security,
     light_at_sale |-> IF read.light = None THEN "UNSCREENED" ELSE read.light,
     resolved_light |-> read.light]

(* The colour at the sale decides at once, or leaves the sale pending. *)
SaleRow(read) ==
    [security |-> read.security,
     light_at_sale |-> IF read.light = None THEN "UNSCREENED" ELSE read.light,
     resolved_light |-> IF read.light \in {"RED", "GREEN"} THEN read.light ELSE None]

(* ... and books the sale, leaving of the holding what it read less what   *)
(* was sold; a row deleted in between stays deleted.                       *)
SaleBook(u) ==
    LET read == sale[u] IN
    /\ read # None
    /\ \E i \in 1..MaxSales :
         /\ monitor_sales[i] = None
         /\ \A j \in 1..(i - 1) : monitor_sales[j] # None
         /\ monitor_sales' = [monitor_sales EXCEPT ![i] = SaleRow(read)]
    /\ monitor_holdings' = [monitor_holdings EXCEPT
           ![read.security] = IF @ = 0 THEN 0 ELSE read.held - read.quantity]
    /\ sale' = [sale EXCEPT ![u] = None]
    /\ UNCHANGED <<world, screens, paper_positions, colours, monitor_reviews, flags,
                   check, import, bounds>>

UpsertHolding(s) ==
    /\ Event
    /\ \E quantity \in 1..MaxQuantity :
         monitor_holdings' = [monitor_holdings EXCEPT ![s] = quantity]
    /\ UNCHANGED <<world, screens, paper_positions, colours, monitor_sales, monitor_reviews, flags,
                   requests, day>>

RemoveHolding(s) ==
    /\ Event
    /\ monitor_holdings' = [monitor_holdings EXCEPT ![s] = 0]
    /\ UNCHANGED <<world, screens, paper_positions, colours, monitor_sales, monitor_reviews, flags,
                   requests, day>>

(* The import of an export deletes every holding of the broker; the first  *)
(* row's upsert commits that before it writes, and each row commits.       *)
ImportClear ==
    /\ Event
    /\ import = {}
    /\ monitor_holdings' = [s \in Securities |-> 0]
    /\ import' \in SUBSET Securities \ {{}}
    /\ UNCHANGED <<world, screens, paper_positions, colours, monitor_sales, monitor_reviews, flags,
                   check, sale, day>>

ImportRow(s) ==
    /\ s \in import
    /\ monitor_holdings' = [monitor_holdings EXCEPT ![s] = 1]
    /\ import' = import \ {s}
    /\ UNCHANGED <<world, screens, paper_positions, colours, monitor_sales, monitor_reviews, flags,
                   check, sale, bounds>>

AddReview(s, report, kind) ==
    monitor_reviews' = monitor_reviews \cup {[security |-> s, report |-> report, kind |-> kind]}

(* The owner escalates the report that the holding is shown with, if any... *)
Escalate(s) ==
    /\ Event
    /\ monitor_lights[s] # None
    /\ AddReview(s, monitor_lights[s].report, "escalation")
    /\ UNCHANGED <<world, screens, ledgers, colours, monitor_sales, flags, requests, day>>

(* ... and a model that reads a report may flag it, by which time the      *)
(* report need not be the latest.  It cannot escalate.                     *)
FlagReport(s) ==
    /\ Event
    /\ \E report \in 1..authority[s].report : AddReview(s, report, "flag")
    /\ UNCHANGED <<world, screens, ledgers, colours, monitor_sales, flags, requests, day>>

PaperTrade(s) ==
    /\ Event
    /\ paper_positions' = IF s \in paper_positions THEN paper_positions \ {s}
                          ELSE paper_positions \cup {s}
    /\ UNCHANGED <<world, screens, monitor_holdings, colours, monitor_sales, monitor_reviews,
                   flags, requests, day>>

-----------------------------------------------------------------------------
(* The authority, time and failures. *)

NewReport(s) ==
    /\ Event
    /\ authority[s].report < MaxReports
    /\ \E verdict \in Outcomes :
         authority' = [authority EXCEPT ![s] = [report |-> @.report + 1, verdict |-> verdict]]
    /\ UNCHANGED <<outage, screens, ledgers, colours, monitor_sales, monitor_reviews, flags,
                   requests, day>>

Outage(s) ==
    /\ Event
    /\ s \notin outage
    /\ outage' = outage \cup {s}
    /\ UNCHANGED <<authority, screens, ledgers, colours, monitor_sales, monitor_reviews, flags,
                   requests, day>>

Recover(s) ==
    /\ s \in outage
    /\ outage' = outage \ {s}
    /\ UNCHANGED <<authority, screens, ledgers, colours, monitor_sales, monitor_reviews, flags,
                   requests, bounds>>

NextDay ==
    /\ Event
    /\ day < MaxDay
    /\ day' = day + 1
    /\ UNCHANGED <<world, screens, ledgers, colours, monitor_sales, monitor_reviews, flags,
                   requests>>

(* The server stops: what the requests in flight had read is gone. *)
Crash ==
    /\ Event
    /\ check' = [c \in Checks |-> NoCheck]
    /\ sale' = [u \in Sellers |-> None]
    /\ import' = {}
    /\ UNCHANGED <<world, screens, ledgers, colours, monitor_sales, monitor_reviews, flags,
                   day>>

-----------------------------------------------------------------------------
CheckStep(c) ==
    \/ Start(c)
    \/ Screen(c)
    \/ Clock(c)
    \/ Begin(c)
    \/ ResolveFirst(c)
    \/ ColourNext(c)
    \/ ColourLast(c)

Owner ==
    \/ \E u \in Sellers, s \in Securities : SaleLoad(u, s)
    \/ \E u \in Sellers : SaleBook(u)
    \/ \E s \in Securities :
         \/ UpsertHolding(s) \/ RemoveHolding(s) \/ ImportRow(s)
         \/ Escalate(s) \/ FlagReport(s) \/ PaperTrade(s)
    \/ ImportClear

Environment ==
    \/ \E s \in Securities : NewReport(s) \/ Outage(s) \/ Recover(s)
    \/ NextDay
    \/ Crash

Next == (\E c \in Checks : CheckStep(c)) \/ Owner \/ Environment

(* The scheduler asks for a run and a sweep again and again, and a request *)
(* that is in flight ends.                                                 *)
Fairness ==
    /\ \A c \in Checks : WF_vars(CheckStep(c))
    /\ \A u \in Sellers : WF_vars(SaleBook(u))
    /\ \A s \in Securities : WF_vars(ImportRow(s))

Spec == Init /\ [][Next]_vars /\ Fairness

-----------------------------------------------------------------------------
(* Properties. *)

(* Whatever overlaps or dies, a holding shown YELLOW or RED has an alert   *)
(* that told so (run_monitor writes the alert and the colour together).    *)
EveryColourAnnounced ==
    \A s \in Securities :
        monitor_lights[s] # None /\ monitor_lights[s].light # "GREEN"
            => <<s, monitor_lights[s].light>> \in announced

(* A flag is cleared only by a check of its own ledger that did not find   *)
(* the holding flagged so: a sweep of one ledger never ends a duty of the  *)
(* other (apply_disposal_clock, scope_prefix).                             *)
ClearedByItsOwnCheck ==
    [][\A sc \in Scopes, s \in Securities, a \in Alerts :
          flags[sc][s][a].live /\ ~flags'[sc][s][a].live =>
              \E c \in Checks : /\ Scope(c) = sc
                                /\ check[c].pc = "screen" /\ check'[c].pc # "screen"
                                /\ ~Flagged(c, s, a)]_vars

(* However often a duty is seen again, its clock keeps the day it began    *)
(* while it is not cleared, and a duty raised again begins anew.           *)
ClockKeepsItsStart ==
    [][\A sc \in Scopes, s \in Securities, a \in Alerts :
          flags'[sc][s][a].live =>
              flags'[sc][s][a].first_flagged_at =
                  IF flags[sc][s][a].live THEN flags[sc][s][a].first_flagged_at ELSE day]_vars

(* Once the colour of a security stays decided, no sale of it stays        *)
(* pending, held or sold out (run_monitor, record_sale).                   *)
PendingSalesResolve ==
    \A s \in Securities :
        <>[](Light(s) \in {"RED", "GREEN"}) => []<>(PendingOf(s) = {})

(* Once a security is held for good and the authority and the reviews no   *)
(* longer change its colour, the colour shown is that one, however the     *)
(* checks overlapped.                                                      *)
LightsFollowTheAuthority ==
    \A s \in Securities, light \in Lights :
        <>[](s \in Held /\ Light(s) = light)
            => <>[](monitor_lights[s] # None /\ monitor_lights[s].light = light)

(* ... and the disposal clock runs exactly while a RED security is held. *)
DutiesFollowTheHoldings ==
    \A s \in Securities :
        /\ <>[](s \in Held /\ Light(s) = "RED")
               => <>[]flags["self"][s]["NON_COMPLIANT_HOLDING"].live
        /\ <>[](s \notin Held)
               => <>[]~flags["self"][s]["NON_COMPLIANT_HOLDING"].live
=============================================================================
