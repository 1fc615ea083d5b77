-------------------------------- MODULE Bridge --------------------------------
(***************************************************************************)
(* The bridge between a conversation and the deployed server: the HTTP     *)
(* client with its cache, its single flight and its token bucket           *)
(* (bridge/client.py, cache.py, ratelimit.py), the standing jobs           *)
(* (bridge/schedules.py), and behind the server the file cache in front of *)
(* SEC EDGAR (sec_edgar_cache.py) and the ticker map that the server's     *)
(* process keeps (sec_edgar_screen.py).                                    *)
(*                                                                         *)
(* One Tick is REQUEST_TIMEOUT_SECONDS / RequestTimeout.  Ages and waits   *)
(* are relative and ages stop at AgeCap, so time has no horizon; the steps *)
(* of the program between two waits take no tick.  A process is            *)
(* interrupted at any moment.                                              *)
(***************************************************************************)
EXTENDS Integers, FiniteSetsExt

CONSTANTS
    Askers,         \* threads that answer questions through the client
    Scheduler,      \* the thread that runs Scheduler.tick
    Screens,        \* GET routes whose answer rests on documents of SEC EDGAR
    Compliance, Publications,   \* portfolio_compliance, one of Screens, and publications
    Lifetime,       \* cache_ttl_seconds of a route, in ticks
    DiskLifetime,   \* SEC_EDGAR_CACHE_TTL_HOURS
    RequestTimeout, AcquireTimeout, MaxAttempts, MaxEntries, Capacity, Refill,
    MaxPublication, \* bound on the fingerprints that come out
    None

Callers == Askers \cup {Scheduler}
Routes == Screens \cup {Publications}
Documents == {"tickers", "filing"}    \* what a screen asks SEC for

ASSUME BridgeAssumption ==
    /\ Scheduler \notin Askers /\ Compliance \in Screens /\ Publications \notin Screens
    /\ IsFiniteSet(Screens)
    /\ Lifetime \in [Routes -> Nat \ {0}]
    /\ {DiskLifetime, RequestTimeout, AcquireTimeout, MaxAttempts, MaxEntries, Capacity}
           \subseteq Nat \ {0}
    /\ Refill \in Nat /\ MaxPublication \in Nat
    /\ None \notin Int /\ None \notin Callers /\ None \notin Routes

VARIABLES
    disk,           \* age of the filing in the server's file cache
    mapped,         \* the server's process keeps the ticker map
    listed,         \* the fingerprints that GET /api/universe/publications lists
    advanced,       \* the disposal clock was advanced since the scheduler's clock job began
    entries,        \* ResponseCache._entries: an answer and the ticks it has left
    flight,         \* ResponseCache._inflight: the leader
    tokens,         \* TokenBucket._tokens of the general zone
    call,           \* the call that each thread is in
    seen,           \* the set publication_watch_job closes over
    excused         \* fingerprints out when the watch had seen none, and those
                    \* that a message was sent about, whether it arrived or not

server == <<disk, mapped, listed, advanced>>
client == <<entries, flight, tokens>>
watch == <<seen, excused>>
vars == <<server, client, call, watch>>

-----------------------------------------------------------------------------
(* No answer that is not a fallback is older than this when it is given.   *)
Freshness == DiskLifetime + RequestTimeout + Max({Lifetime[r] : r \in Routes})
AgeCap == Freshness
Ages == 0..AgeCap

(* Fingerprints (publication, document and activation) are numbered as     *)
(* they come out.                                                          *)
Fingerprint == 1..MaxPublication

(* What a 200 carries: the age of the filing a screen rests on (none if    *)
(* the ticker is unknown to SEC, or SEC could not be read), whether it is  *)
(* an expired one, and the fingerprints listed.                            *)
Answer == [age : Ages \cup {None}, fallback : BOOLEAN, listed : SUBSET Fingerprint]
Steps == {"idle", "join", "wait", "reread", "acquire", "sent", "handled", "put", "land", "done"}
Call == [pc : Steps, route : Routes, waited : Nat, attempt : 0..MaxAttempts,
         answer : Answer \cup {None}]

TypeOK ==
    /\ disk \in Ages \cup {None} /\ mapped \in BOOLEAN
    /\ listed \subseteq Fingerprint /\ advanced \in BOOLEAN
    /\ \A r \in Routes : \/ entries[r] = None
                         \/ entries[r].answer \in Answer /\ entries[r].left \in 0..Lifetime[r]
    /\ Cardinality({r \in Routes : entries[r] # None}) <= MaxEntries
    /\ flight \in [Routes -> Callers \cup {None}]
    /\ \A r \in Routes : flight[r] # None =>
           /\ call[flight[r]].route = r
           /\ call[flight[r]].pc \in {"acquire", "sent", "handled", "put", "land"}
    /\ tokens \in 0..Capacity
    /\ call \in [Callers -> Call]
    /\ seen \subseteq Fingerprint /\ excused \subseteq Fingerprint

Idle == [pc |-> "idle", route |-> Compliance, waited |-> 0, attempt |-> 0, answer |-> None]
Empty == [r \in Routes |-> None]
Latest == Max(listed \cup {0})

Init ==
    /\ disk = None /\ mapped = FALSE
    /\ listed = {} /\ advanced = FALSE
    /\ entries = Empty /\ flight = Empty /\ tokens = Capacity
    /\ call = [c \in Callers |-> Idle]
    /\ seen = {} /\ excused = {}

Go(c, pc) == call' = [call EXCEPT ![c].pc = pc, ![c].waited = 0]
Answered(c, a, pc) ==
    call' = [call EXCEPT ![c].pc = pc, ![c].waited = 0, ![c].attempt = 0, ![c].answer = a]

-----------------------------------------------------------------------------
(* The cache.                                                              *)
WhateverIsThere(r) == entries[r] # None
Fresh(r) == entries[r] # None /\ entries[r].left > 0
Popped(r) == IF entries[r] # None /\ ~Fresh(r) THEN [entries EXCEPT ![r] = None] ELSE entries
Kept(r) == {k \in Routes : entries[k] # None}
Soonest(r) == CHOOSE k \in Kept(r) : \A l \in Kept(r) : entries[k].left <= entries[l].left
Crammed(r, a) == [entries EXCEPT ![r] = [answer |-> a, left |-> Lifetime[r]]]
Stored(r, a) ==
    LET room == IF Cardinality(Kept(r)) < MaxEntries THEN entries
                ELSE [entries EXCEPT ![Soonest(r)] = None]
    IN [room EXCEPT ![r] = [answer |-> a, left |-> Lifetime[r]]]

EvenRefreshes(r, bypass) == TRUE
Cacheable(r, bypass) == ~bypass

(* call: a hit is returned, a miss joins the flight, an uncached call goes *)
(* its own way.                                                            *)
Ask(c, r, bypass) ==
    /\ call[c].pc = "idle"
    /\ call' = [call EXCEPT ![c] =
           [Idle EXCEPT !.route = r,
                        !.pc = IF ~Cacheable(r, bypass) THEN "acquire"
                               ELSE IF Fresh(r) THEN "done" ELSE "join",
                        !.answer = IF Cacheable(r, bypass) /\ Fresh(r)
                                   THEN entries[r].answer ELSE None]]
    /\ entries' = IF Cacheable(r, bypass) THEN Popped(r) ELSE entries
    /\ UNCHANGED <<server, flight, tokens, watch>>

Join(c) ==
    LET r == call[c].route IN
    /\ call[c].pc = "join"
    /\ IF flight[r] = None
       THEN flight' = [flight EXCEPT ![r] = c] /\ Go(c, "acquire")
       ELSE UNCHANGED flight /\ Go(c, "wait")
    /\ UNCHANGED <<server, entries, tokens, watch>>

GiveUpWaiting(c) ==
    /\ call[c].pc = "wait" /\ call[c].waited = RequestTimeout
    /\ Go(c, "reread")
    /\ UNCHANGED <<server, client, watch>>

Reread(c) ==
    LET r == call[c].route IN
    /\ call[c].pc = "reread"
    /\ IF Fresh(r) THEN Answered(c, entries[r].answer, "done") ELSE Go(c, "acquire")
    /\ entries' = Popped(r)
    /\ UNCHANGED <<server, flight, tokens, watch>>

Leads(c) == flight[call[c].route] = c
Finish(c, a) == Answered(c, a, IF ~Leads(c) THEN "done" ELSE IF a = None THEN "land" ELSE "put")

Put(c) ==
    /\ call[c].pc = "put"
    /\ entries' = Stored(call[c].route, call[c].answer)
    /\ Go(c, "land")
    /\ UNCHANGED <<server, flight, tokens, watch>>

(* end_flight: the waiting followers are woken.                            *)
AfterSuccess(c) == IF call[c].answer = None THEN flight ELSE [flight EXCEPT ![call[c].route] = None]
Landed(c) == [flight EXCEPT ![call[c].route] = None]
Land(c) ==
    LET woken == {d \in Callers : call[d].pc = "wait" /\ call[d].route = call[c].route} IN
    /\ call[c].pc = "land"
    /\ flight' = Landed(c)
    /\ call' = [d \in Callers |->
           IF d = c THEN [call[d] EXCEPT !.pc = "done"]
           ELSE IF d \in woken THEN [call[d] EXCEPT !.pc = "reread", !.waited = 0]
           ELSE call[d]]
    /\ UNCHANGED <<server, entries, tokens, watch>>

-----------------------------------------------------------------------------
(* _perform: a token for every attempt, or no answer when none came free.  *)
Acquire(c) ==
    /\ call[c].pc = "acquire" /\ tokens > 0
    /\ tokens' = tokens - 1
    /\ call' = [call EXCEPT ![c].pc = "sent", ![c].waited = 0, ![c].attempt = @ + 1]
    /\ UNCHANGED <<server, entries, flight, watch>>

Limited(c) ==
    /\ call[c].pc = "acquire" /\ tokens = 0 /\ call[c].waited = AcquireTimeout
    /\ Finish(c, None)
    /\ UNCHANGED <<server, client, watch>>

ServeDisk == disk # None /\ disk < DiskLifetime
Fetched(reached) ==
    IF ServeDisk THEN [age |-> disk, fallback |-> FALSE]
    ELSE IF reached THEN [age |-> 0, fallback |-> FALSE]
    ELSE [age |-> disk, fallback |-> disk # None]
Written(reached) == IF ~ServeDisk /\ reached THEN 0 ELSE disk

(* resolve_cik: the ticker map is fetched in the same way, and once the    *)
(* process keeps it, it is never fetched again: it may be of any age, and  *)
(* have expired when it was read.                                          *)
Resolves(reached) == mapped \/ "tickers" \in reached

ClockJobRuns == call[Scheduler].pc # "idle" /\ call[Scheduler].route = Compliance

(* The server answers a request: a screen reads the file cache or SEC      *)
(* itself, some of whose documents may not be reached, and GET             *)
(* /portfolio/compliance advances the disposal clock.                      *)
Handle(c, reached, registered) ==
    LET r == call[c].route
        reads == r \in Screens /\ Resolves(reached) /\ registered
        screen == IF reads THEN Fetched("filing" \in reached) ELSE [age |-> None, fallback |-> FALSE]
    IN
    /\ call[c].pc = "sent"
    /\ call' = [call EXCEPT
           ![c].pc = "handled",
           ![c].answer = [age |-> screen.age, fallback |-> screen.fallback,
                          listed |-> IF r = Publications THEN listed ELSE {}]]
    /\ disk' = IF reads THEN Written("filing" \in reached) ELSE disk
    /\ mapped' = (mapped \/ (r \in Screens /\ Resolves(reached)))
    /\ advanced' = (advanced \/ (r = Compliance /\ ClockJobRuns))
    /\ UNCHANGED <<listed, client, watch>>

Receive(c) ==
    /\ call[c].pc = "handled"
    /\ Finish(c, call[c].answer)
    /\ UNCHANGED <<server, client, watch>>

(* 429 or 502..504, before or after the server handled the request.        *)
Again(c) == call[c].attempt < MaxAttempts
Refuse(c) ==
    /\ call[c].pc \in {"sent", "handled"}
    /\ IF Again(c)
       THEN call' = [call EXCEPT ![c].pc = "acquire", ![c].waited = 0, ![c].answer = None]
       ELSE Finish(c, None)
    /\ UNCHANGED <<server, client, watch>>

(* A timeout, a dead connection or another status: not in RETRY_STATUS.    *)
Lose(c) ==
    /\ call[c].pc \in {"sent", "handled"}
    /\ Finish(c, None)
    /\ UNCHANGED <<server, client, watch>>
Expire(c) == call[c].waited = RequestTimeout /\ Lose(c)

Return(c) ==
    /\ c \in Askers /\ call[c].pc = "done"
    /\ call' = [call EXCEPT ![c] = Idle]
    /\ UNCHANGED <<server, client, watch>>

-----------------------------------------------------------------------------
(* The jobs.                                                               *)
Fingerprints(a) == a.listed

ReportClock ==
    /\ call[Scheduler].pc = "done" /\ call[Scheduler].route = Compliance
    /\ call' = [call EXCEPT ![Scheduler] = Idle]
    /\ advanced' = FALSE
    /\ UNCHANGED <<disk, mapped, listed, client, watch>>

RecordedFirst(found) == found
AfterRaise(found) == seen

(* publication_watch_job: with nothing seen before, whatever is listed is  *)
(* taken for known without a word; else a message is sent of what is new.  *)
(* Relay.send returns when the message is lost as when it arrives, and no  *)
(* one looks; a notification that raises ends the job before it has        *)
(* recorded what it saw.                                                   *)
ReportWatch ==
    LET a == call[Scheduler].answer
        fresh == Fingerprints(a) \ seen
        Look(found, messages) ==
            /\ seen' = found
            /\ excused' = IF found = {} THEN 1..Latest ELSE excused \cup messages
    IN
    /\ call[Scheduler].pc = "done" /\ call[Scheduler].route = Publications
    /\ \/ a = None /\ UNCHANGED watch
       \/ a # None /\ (seen = {} \/ fresh = {}) /\ Look(Fingerprints(a), {})
       \/ /\ a # None /\ seen # {} /\ fresh # {}
          /\ Look(Fingerprints(a), fresh) \/ Look(AfterRaise(Fingerprints(a)), {})
    /\ call' = [call EXCEPT ![Scheduler] = Idle]
    /\ advanced' = FALSE
    /\ UNCHANGED <<disk, mapped, listed, client>>

-----------------------------------------------------------------------------
(* Time and the rest of the world.                                         *)
Waiting(c) ==
    \/ call[c].pc \in {"idle", "done"}
    \/ call[c].pc = "wait" /\ call[c].waited < RequestTimeout
    \/ call[c].pc = "acquire" /\ tokens = 0 /\ call[c].waited < AcquireTimeout
    \/ call[c].pc \in {"sent", "handled"} /\ call[c].waited < RequestTimeout

Older(age) == IF age = None THEN None ELSE Min({age + 1, AgeCap})
(* How long ago a document on disk has expired is not told apart.          *)
Expiring(age) == IF age # None /\ age + 1 >= DiskLifetime THEN AgeCap ELSE Older(age)
Aged(a) == IF a = None THEN None ELSE [a EXCEPT !.age = Older(@)]

Tick ==
    /\ \A c \in Callers : Waiting(c)
    /\ disk' = Expiring(disk)
    /\ entries' = [r \in Routes |->
           IF entries[r] = None THEN None
           ELSE [answer |-> Aged(entries[r].answer), left |-> Max({0, entries[r].left - 1})]]
    /\ tokens' = Min({Capacity, tokens + Refill})
    /\ call' = [c \in Callers |->
           IF call[c].pc \in {"idle", "done"} THEN call[c]
           ELSE [call[c] EXCEPT !.waited = @ + 1, !.answer = Aged(@)]]
    /\ UNCHANGED <<mapped, listed, advanced, flight, watch>>

OtherCalls == tokens > 0 /\ tokens' = tokens - 1 /\ UNCHANGED <<server, entries, flight, call, watch>>

(* A list is ingested, or one that is listed is activated or ingested      *)
(* anew; no row is ever deleted.                                           *)
Publish ==
    /\ Latest < MaxPublication
    /\ \E gone \in {{}} \cup {{f} : f \in listed} :
         listed' = (listed \ gone) \cup {Latest + 1}
    /\ excused' = IF seen = {} THEN 1..(Latest + 1) ELSE excused
    /\ UNCHANGED <<disk, mapped, advanced, client, call, seen>>

(* The server's process stops and starts; its files stay.                  *)
RestartServer ==
    /\ mapped' = FALSE
    /\ UNCHANGED <<disk, listed, advanced, client, call, watch>>

Restart ==
    /\ call' = [c \in Callers |-> Idle]
    /\ entries' = Empty /\ flight' = Empty /\ tokens' = Capacity
    /\ seen' = {} /\ excused' = 1..Latest /\ advanced' = FALSE
    /\ UNCHANGED <<disk, mapped, listed>>

-----------------------------------------------------------------------------
Start(c) ==
    \/ c \in Askers /\ \E r \in Routes : Ask(c, r, FALSE)
    \/ c = Scheduler /\ (Ask(c, Compliance, TRUE) \/ Ask(c, Publications, FALSE))
Report(c) == c = Scheduler /\ (ReportClock \/ ReportWatch)

(* What a thread does by itself, and what the network does to its request. *)
Program(c) ==
    \/ Join(c) \/ GiveUpWaiting(c) \/ Reread(c) \/ Put(c) \/ Land(c)
    \/ Acquire(c) \/ Limited(c) \/ Expire(c) \/ Return(c) \/ Report(c)
Network(c) ==
    \/ \E reached \in SUBSET Documents, registered \in BOOLEAN : Handle(c, reached, registered)
    \/ Receive(c) \/ Refuse(c) \/ Lose(c)
Environment == Tick \/ OtherCalls \/ Publish \/ RestartServer \/ Restart

Next == Environment \/ \E c \in Callers : Start(c) \/ Program(c) \/ Network(c)

(* Threads run, timeouts fire, and time passes.                            *)
Fairness == WF_vars(Tick) /\ \A c \in Callers : WF_vars(Program(c))
Spec == Init /\ [][Next]_vars /\ Fairness

-----------------------------------------------------------------------------
(* However the two caches stack and the answers are delayed, the filing    *)
(* that was read for an answer, no outage of SEC excusing it, is younger   *)
(* than the sum of the two lifetimes and one request (bridge/cache.py get  *)
(* and put, sec_edgar_cache.py cached_fetch).  The ticker map that named   *)
(* the company is no part of this: the server's process keeps it for good, *)
(* and it may be of any age (sec_edgar_screen.py resolve_cik).             *)
AnswersStayFresh ==
    \A c \in Callers :
        LET a == call[c].answer IN
        call[c].pc = "done" /\ a # None /\ a.age # None /\ ~a.fallback => a.age < Freshness

ClockReallyAdvances ==
    LET job == call[Scheduler] IN
    job.pc = "done" /\ job.route = Compliance /\ job.answer # None => advanced
SeenWasTold == seen \subseteq excused

(* A job that reports the disposal clock as advanced has really had the    *)
(* server advance it, whatever the cache holds and whoever is fetching     *)
(* (refresh_disposal_clock).  And a fingerprint passes into what the watch *)
(* has seen only with a message sent about it, or because it was out at a  *)
(* moment when the watch had seen none: however old the list that a job is *)
(* given, and whatever notifications raise (publication_watch_job).        *)
JobsCanBeBelieved == ClockReallyAdvances /\ SeenWasTold

(* A thread that calls comes back, and leaves no flight behind: however    *)
(* the network fails, with followers waiting and the bucket empty (call,   *)
(* _perform, end_flight).                                                  *)
Busy(c) == call[c].pc # "idle" \/ \E r \in Routes : flight[r] = c
EveryCallEnds == \A c \in Callers : Busy(c) ~> ~Busy(c)
=============================================================================
