----------------------------- MODULE BridgeProofs -----------------------------
(***************************************************************************)
(* Proofs about Bridge for every set of callers and routes, every timeout  *)
(* and every lifetime.                                                     *)
(***************************************************************************)
EXTENDS Bridge, FiniteSums

LEMMA OfTwo ==
    ASSUME NEW a \in Int, NEW b \in Int
    PROVE  /\ Max({a, b}) = IF a >= b THEN a ELSE b
           /\ Min({a, b}) = IF a <= b THEN a ELSE b
<1>1. \E x \in {a, b} : \A y \in {a, b} : x >= y
  OBVIOUS
<1>2. \E x \in {a, b} : \A y \in {a, b} : x <= y
  OBVIOUS
<1>3. /\ Max({a, b}) \in {a, b} /\ \A y \in {a, b} : Max({a, b}) >= y
      /\ Min({a, b}) \in {a, b} /\ \A y \in {a, b} : Min({a, b}) <= y
  BY <1>1, <1>2 DEF Max, Min
<1> QED
  BY <1>3

LEMMA RoutesFinite == IsFiniteSet(Routes) /\ Compliance \in Routes /\ Publications \in Routes
<1>1. IsFiniteSet(Screens \cup {Publications})
  BY BridgeAssumption, FS_AddElement
<1> QED
  BY <1>1, BridgeAssumption DEF Routes

(* The bound on the age of an answer counts every route's lifetime. *)
LEMMA Times ==
    /\ DiskLifetime \in Nat /\ DiskLifetime > 0 /\ RequestTimeout \in Nat /\ RequestTimeout > 0
    /\ AcquireTimeout \in Nat /\ Capacity \in Nat /\ MaxAttempts \in Nat /\ MaxAttempts > 0
    /\ MaxEntries \in Nat /\ MaxEntries > 0 /\ MaxPublication \in Nat /\ Refill \in Nat
    /\ None \notin Int
    /\ \A r \in Routes : Lifetime[r] \in Nat /\ Lifetime[r] > 0
    /\ Freshness \in Nat
    /\ \A r \in Routes : DiskLifetime + RequestTimeout + Lifetime[r] <= Freshness
<1>1. /\ DiskLifetime \in Nat /\ DiskLifetime > 0 /\ RequestTimeout \in Nat /\ RequestTimeout > 0
      /\ AcquireTimeout \in Nat /\ Capacity \in Nat /\ MaxAttempts \in Nat /\ MaxAttempts > 0
      /\ MaxEntries \in Nat /\ MaxEntries > 0 /\ MaxPublication \in Nat /\ Refill \in Nat
      /\ None \notin Int
      /\ \A r \in Routes : Lifetime[r] \in Nat /\ Lifetime[r] > 0
  BY BridgeAssumption
<1> DEFINE L == {Lifetime[r] : r \in Routes}
<1>2. PICK r \in Routes : \A k \in Routes : Lifetime[k] <= Lifetime[r]
  <2>1. \A k \in Routes : Lifetime[k] \in Int
    BY <1>1
  <2> QED
    BY <2>1, RoutesFinite, Largest
<1>3. \E x \in L : \A y \in L : x >= y
  BY <1>1, <1>2
<1>4. Max(L) \in L /\ \A y \in L : Max(L) >= y
  BY <1>3 DEF Max
<1>5. Max(L) \in Nat /\ \A k \in Routes : Lifetime[k] <= Max(L)
  BY <1>1, <1>4
<1>6. Freshness = DiskLifetime + RequestTimeout + Max(L)
  BY DEF Freshness
<1> HIDE DEF L
<1>7. Freshness \in Nat /\ \A k \in Routes : DiskLifetime + RequestTimeout + Lifetime[k] <= Freshness
  BY <1>1, <1>5, <1>6
<1> QED
  BY <1>1, <1>7

(* The fingerprints that have come out are numbered up to the latest. *)
LEMMA GreatestOf ==
    ASSUME NEW L \in SUBSET Fingerprint
    PROVE  Max(L \cup {0}) \in L \cup {0} /\ \A x \in L \cup {0} : x <= Max(L \cup {0})
<1> DEFINE S == L \cup {0}
           same == [x \in S |-> x]
<1>1. S \subseteq 0..MaxPublication /\ IsFiniteSet(0..MaxPublication)
  BY Times, FS_Interval DEF Fingerprint
<1>2. IsFiniteSet(S) /\ S # {} /\ \A x \in S : x \in Int /\ same[x] = x
  <2>1. IsFiniteSet(S)
    <3> HIDE DEF S
    <3> QED
      BY <1>1, FS_Subset
  <2>2. \A x \in S : x \in Int /\ same[x] = x
    BY <1>1
  <2> QED
    BY <2>1, <2>2
<1> HIDE DEF S, same
<1>3. \E x \in S : \A y \in S : same[y] <= same[x]
  BY <1>2, Largest
<1>4. \E x \in S : \A y \in S : x >= y
  BY <1>2, <1>3
<1>5. Max(S) \in S /\ \A x \in S : Max(S) >= x
  BY <1>4 DEF Max
<1> QED
  BY <1>2, <1>5 DEF S

LEMMA LatestIs ==
    ASSUME listed \subseteq Fingerprint
    PROVE  /\ Latest \in 0..MaxPublication /\ 1..Latest \subseteq Fingerprint
           /\ listed \subseteq 1..Latest
<1>1. Latest \in listed \cup {0} /\ \A x \in listed \cup {0} : x <= Latest
  BY GreatestOf DEF Latest
<1>2. \A x \in listed : x \in 1..MaxPublication
  BY DEF Fingerprint
<1>3. Latest \in 0..MaxPublication
  BY <1>1, <1>2, Times
<1> QED
  BY <1>1, <1>2, <1>3, Times DEF Fingerprint

-----------------------------------------------------------------------------
(* The invariant.  Leading: the steps of a call that a flight may wait for. *)
Leading == {"acquire", "sent", "handled", "put", "land"}

(* How old the document under an answer can be at each step of its call.   *)
AgeOK(q) ==
    q.answer # None /\ q.answer.age # None /\ ~q.answer.fallback =>
      /\ q.pc = "handled" => q.answer.age < DiskLifetime + q.waited
      /\ q.pc \in {"put", "land"} => q.answer.age < DiskLifetime + RequestTimeout
      /\ q.pc = "done" => q.answer.age < Freshness

CallOK(q) ==
    /\ q \in Call
    /\ q.pc \in {"join", "wait", "reread", "acquire"} => q.attempt < MaxAttempts
    /\ q.pc \in {"sent", "handled"} => q.waited <= RequestTimeout
    /\ q.answer # None => q.pc \in {"handled", "put", "land", "done"}
    /\ q.pc = "put" => q.answer # None
    /\ AgeOK(q)

(* What has aged in the file cache, in the request and in the cache of the *)
(* client is what the answer has not left to live.                         *)
EntryOK(r, e) ==
    e # None =>
      /\ e \in [answer : Answer, left : 0..Lifetime[r]]
      /\ e.left > 0 /\ e.answer.age # None /\ ~e.answer.fallback
           => e.answer.age + e.left < DiskLifetime + RequestTimeout + Lifetime[r]

(* The scheduler never takes the disposal clock from the cache. *)
ClockOK(q, moved) ==
    q.route = Compliance => q.pc \notin {"join", "wait", "reread"} /\ (q.answer # None => moved)

Leaders ==
    \A r \in Routes : flight[r] # None => call[flight[r]].route = r /\ call[flight[r]].pc \in Leading

CallsOK == call \in [Callers -> Call] /\ \A c \in Callers : CallOK(call[c])
CacheOK ==
    /\ DOMAIN entries = Routes /\ \A r \in Routes : EntryOK(r, entries[r])
    /\ Cardinality({r \in Routes : entries[r] # None}) <= MaxEntries
FlightOK == flight \in [Routes -> Callers \cup {None}] /\ Leaders
RestOK ==
    /\ disk \in Ages \cup {None} /\ mapped \in BOOLEAN /\ advanced \in BOOLEAN
    /\ listed \subseteq Fingerprint /\ tokens \in 0..Capacity
    /\ seen \subseteq Fingerprint /\ excused \subseteq Fingerprint

Inv == CallsOK /\ CacheOK /\ FlightOK /\ RestOK /\ ClockOK(call[Scheduler], advanced)

LEMMA InvImplies == Inv => TypeOK /\ AnswersStayFresh /\ ClockReallyAdvances
<1> SUFFICES ASSUME Inv PROVE TypeOK /\ AnswersStayFresh /\ ClockReallyAdvances
  OBVIOUS
<1>1. TypeOK
  <2>1. \A r \in Routes : \/ entries[r] = None
                          \/ entries[r].answer \in Answer /\ entries[r].left \in 0..Lifetime[r]
    BY DEF Inv, CacheOK, EntryOK
  <2> QED
    BY <2>1 DEF Inv, CallsOK, CacheOK, FlightOK, RestOK, Leaders, Leading, TypeOK
<1>2. AnswersStayFresh
  BY DEF Inv, CallsOK, CallOK, AgeOK, AnswersStayFresh
<1>3. ClockReallyAdvances
  BY DEF Inv, ClockOK, ClockReallyAdvances
<1> QED
  BY <1>1, <1>2, <1>3

LEMMA IdleOK == CallOK(Idle) /\ Idle \in Call /\ ClockOK(Idle, FALSE)
<1>1. Idle \in Call
  BY RoutesFinite, Times DEF Idle, Call, Steps
<1> QED
  BY <1>1 DEF Idle, CallOK, AgeOK, ClockOK

LEMMA InvInit == Init => Inv
<1> SUFFICES ASSUME Init PROVE Inv
  OBVIOUS
<1>1. CallsOK
  BY IdleOK DEF Init, CallsOK
<1>2. CacheOK
  <2>1. \A r \in Routes : entries[r] = None
    BY DEF Init, Empty
  <2>2. {r \in Routes : entries[r] # None} = {}
    BY <2>1
  <2>3. Cardinality({r \in Routes : entries[r] # None}) <= MaxEntries
    BY <2>2, FS_EmptySet, Times
  <2> QED
    BY <2>1, <2>3 DEF Init, Empty, CacheOK, EntryOK
<1>3. FlightOK
  BY DEF Init, Empty, FlightOK, Leaders
<1>4. RestOK
  <2>1. 0 \in 0..MaxPublication /\ Capacity \in 0..Capacity
    BY Times
  <2> QED
    BY <2>1 DEF Init, RestOK
<1>5. Scheduler \in Callers
  BY DEF Callers
<1> QED
  BY <1>1, <1>2, <1>3, <1>4, <1>5, IdleOK DEF Init, Inv, ClockOK

-----------------------------------------------------------------------------
(* A step of one call, which keeps the flight it leads waiting for it.     *)
Moves(c) ==
    /\ call' \in [Callers -> Call]
    /\ \A d \in Callers \ {c} : call'[d] = call[d]
    /\ CallOK(call'[c])
    /\ call[c].pc \in Leading /\ Leads(c)
         => call'[c].route = call[c].route /\ call'[c].pc \in Leading
    /\ c = Scheduler => ClockOK(call'[c], advanced')

LEMMA MovesOK ==
    ASSUME Inv, NEW c \in Callers, Moves(c), flight' = flight, c # Scheduler /\ advanced => advanced'
    PROVE  CallsOK' /\ FlightOK' /\ ClockOK(call[Scheduler], advanced)'
<1>1. CallsOK'
  BY DEF Moves, Inv, CallsOK
<1>2. FlightOK'
  <2>1. ASSUME NEW r \in Routes, flight[r] # None
        PROVE  call'[flight[r]].route = r /\ call'[flight[r]].pc \in Leading
    <3>1. /\ flight[r] \in Callers /\ call[flight[r]].route = r
          /\ call[flight[r]].pc \in Leading
      BY <2>1 DEF Inv, FlightOK, Leaders
    <3>2. CASE flight[r] = c
      BY <3>1, <3>2 DEF Moves, Leads
    <3>3. CASE flight[r] # c
      BY <3>1, <3>3 DEF Moves
    <3> QED
      BY <3>2, <3>3
  <2> QED
    BY <2>1 DEF Inv, FlightOK, Leaders
<1>3. ClockOK(call[Scheduler], advanced)'
  <2>1. Scheduler \in Callers
    BY DEF Callers
  <2>2. CASE c = Scheduler
    BY <2>2 DEF Moves
  <2>3. CASE c # Scheduler
    BY <2>1, <2>3 DEF Moves, Inv, ClockOK
  <2> QED
    BY <2>2, <2>3
<1> QED
  BY <1>1, <1>2, <1>3

LEMMA GoIs ==
    ASSUME Inv, NEW c \in Callers, NEW pc \in Steps, Go(c, pc)
    PROVE  /\ call' \in [Callers -> Call]
           /\ \A d \in Callers \ {c} : call'[d] = call[d]
           /\ call'[c].pc = pc /\ call'[c].waited = 0 /\ call'[c].route = call[c].route
           /\ call'[c].attempt = call[c].attempt /\ call'[c].answer = call[c].answer
<1> DEFINE q == [call[c] EXCEPT !.pc = pc, !.waited = 0]
<1>1. call \in [Callers -> Call] /\ call[c] \in Call
  BY DEF Inv, CallsOK
<1>2. call' = [call EXCEPT ![c] = q]
  BY DEF Go
<1>3. q \in Call /\ q.pc = pc /\ q.waited = 0 /\ q.route = call[c].route
      /\ q.attempt = call[c].attempt /\ q.answer = call[c].answer
  BY <1>1 DEF Call
<1> HIDE DEF q
<1> QED
  BY <1>1, <1>2, <1>3

LEMMA AnsweredIs ==
    ASSUME Inv, NEW c \in Callers, NEW pc \in Steps, NEW a \in Answer \cup {None}, Answered(c, a, pc)
    PROVE  /\ call' \in [Callers -> Call]
           /\ \A d \in Callers \ {c} : call'[d] = call[d]
           /\ call'[c].pc = pc /\ call'[c].waited = 0 /\ call'[c].route = call[c].route
           /\ call'[c].attempt = 0 /\ call'[c].answer = a
<1> DEFINE q == [call[c] EXCEPT !.pc = pc, !.waited = 0, !.attempt = 0, !.answer = a]
<1>1. call \in [Callers -> Call] /\ call[c] \in Call
  BY DEF Inv, CallsOK
<1>2. call' = [call EXCEPT ![c] = q]
  BY DEF Answered
<1>3. q \in Call /\ q.pc = pc /\ q.waited = 0 /\ q.route = call[c].route
      /\ q.attempt = 0 /\ q.answer = a
  <2>1. 0 \in 0..MaxAttempts /\ 0 \in Nat
    BY Times
  <2> QED
    BY <1>1, <2>1 DEF Call
<1> HIDE DEF q
<1> QED
  BY <1>1, <1>2, <1>3

LEMMA FinishMoves ==
    ASSUME Inv, NEW c \in Callers, call[c].pc \in {"acquire", "sent", "handled"},
           NEW a \in Answer \cup {None},
           a # None /\ a.age # None /\ ~a.fallback => a.age < DiskLifetime + RequestTimeout,
           c = Scheduler /\ call[c].route = Compliance /\ a # None => advanced',
           Finish(c, a)
    PROVE  Moves(c)
<1> DEFINE pc == IF ~Leads(c) THEN "done" ELSE IF a = None THEN "land" ELSE "put"
<1>1. pc \in Steps /\ Answered(c, a, pc)
  BY DEF Finish, Steps
<1>2. pc \in {"done", "land", "put"} /\ (Leads(c) => pc \in Leading) /\ (pc = "put" => a # None)
  BY DEF Leading
<1> HIDE DEF pc
<1>3. /\ call' \in [Callers -> Call]
      /\ \A d \in Callers \ {c} : call'[d] = call[d]
      /\ call'[c].pc = pc /\ call'[c].waited = 0 /\ call'[c].route = call[c].route
      /\ call'[c].attempt = 0 /\ call'[c].answer = a
  BY <1>1, AnsweredIs
<1>4. a # None /\ a.age # None => a.age \in Int
  BY DEF Answer, Ages
<1>5. DiskLifetime + RequestTimeout \in Int /\ DiskLifetime + RequestTimeout < Freshness
  <2>1. DiskLifetime + RequestTimeout + Lifetime[Compliance] <= Freshness
    BY Times, RoutesFinite
  <2> QED
    BY <2>1, Times, RoutesFinite
<1>6. Freshness \in Int
  BY Times
<1>7. AgeOK(call'[c])
  BY <1>2, <1>3, <1>4, <1>5, <1>6 DEF AgeOK
<1> QED
  BY <1>2, <1>3, <1>7 DEF Moves, CallOK, ClockOK

-----------------------------------------------------------------------------
(* What the program and the network do to a call.                          *)
LEMMA GiveUpMoves == ASSUME Inv, NEW c \in Callers, GiveUpWaiting(c) PROVE Moves(c)
<1>1. Go(c, "reread") /\ "reread" \in Steps /\ call[c].pc = "wait" /\ "wait" \notin Leading
      /\ advanced' = advanced
  BY DEF GiveUpWaiting, Steps, Leading, server
<1>2. CallOK(call[c]) /\ (c = Scheduler => ClockOK(call[c], advanced))
  BY DEF Inv, CallsOK
<1>3. call[c].route # Compliance \/ c # Scheduler
  BY <1>1, <1>2 DEF ClockOK
<1> QED
  BY <1>1, <1>2, <1>3, GoIs DEF Moves, CallOK, AgeOK, ClockOK

LEMMA LimitedMoves == ASSUME Inv, NEW c \in Callers, Limited(c) PROVE Moves(c)
BY FinishMoves DEF Limited

LEMMA LoseMoves == ASSUME Inv, NEW c \in Callers, Lose(c) PROVE Moves(c)
BY FinishMoves DEF Lose

LEMMA ReceiveMoves == ASSUME Inv, NEW c \in Callers, Receive(c) PROVE Moves(c)
<1>1. /\ call[c].pc = "handled" /\ Finish(c, call[c].answer) /\ advanced' = advanced
      /\ CallOK(call[c]) /\ (c = Scheduler => ClockOK(call[c], advanced))
  BY DEF Receive, server, Inv, CallsOK
<1>2. call[c].answer \in Answer \cup {None} /\ call[c].waited \in Nat /\ call[c].waited <= RequestTimeout
  BY <1>1 DEF CallOK, Call
<1> DEFINE a == call[c].answer
<1>3. a # None /\ a.age # None /\ ~a.fallback => a.age < DiskLifetime + RequestTimeout
  <2> SUFFICES ASSUME a # None, a.age # None, ~a.fallback PROVE a.age < DiskLifetime + RequestTimeout
    OBVIOUS
  <2>1. a.age < DiskLifetime + call[c].waited
    BY <1>1 DEF CallOK, AgeOK
  <2>2. a.age \in Int
    BY <1>2 DEF Answer, Ages
  <2> HIDE DEF a
  <2> QED
    BY <1>2, <2>1, <2>2, Times
<1>4. c = Scheduler /\ call[c].route = Compliance /\ a # None => advanced'
  BY <1>1 DEF ClockOK
<1> QED
  BY <1>1, <1>2, <1>3, <1>4, FinishMoves

LEMMA RefuseMoves == ASSUME Inv, NEW c \in Callers, Refuse(c) PROVE Moves(c)
<1>1. CASE ~Again(c)
  BY <1>1, FinishMoves DEF Refuse
<1>2. CASE Again(c)
  <2> DEFINE q == [call[c] EXCEPT !.pc = "acquire", !.waited = 0, !.answer = None]
  <2>1. call' = [call EXCEPT ![c] = q] /\ advanced' = advanced /\ call[c].attempt < MaxAttempts
    BY <1>2 DEF Refuse, Again, server
  <2>2. call \in [Callers -> Call] /\ call[c] \in Call /\ "acquire" \in Steps
    BY DEF Inv, CallsOK, Steps
  <2>3. /\ q \in Call /\ q.pc = "acquire" /\ q.route = call[c].route /\ q.answer = None
        /\ q.attempt = call[c].attempt
    BY <2>2 DEF Call
  <2> HIDE DEF q
  <2>4. call' \in [Callers -> Call] /\ call'[c] = q /\ \A d \in Callers \ {c} : call'[d] = call[d]
    BY <2>1, <2>2, <2>3
  <2>5. CallOK(q)
    BY <2>1, <2>3 DEF CallOK, AgeOK
  <2> QED
    BY <2>3, <2>4, <2>5 DEF Moves, ClockOK, Leading
<1> QED
  BY <1>1, <1>2

LEMMA AcquireMoves == ASSUME Inv, NEW c \in Callers, Acquire(c) PROVE Moves(c)
<1> DEFINE n == call[c].attempt + 1
           q == [call[c] EXCEPT !.pc = "sent", !.waited = 0, !.attempt = n]
<1>1. call' = [call EXCEPT ![c] = q] /\ advanced' = advanced /\ call[c].pc = "acquire"
  BY DEF Acquire, server
<1>2. call \in [Callers -> Call] /\ CallOK(call[c]) /\ "sent" \in Steps
  BY DEF Inv, CallsOK, Steps
<1>3. call[c] \in Call /\ call[c].attempt < MaxAttempts /\ call[c].answer = None
  BY <1>1, <1>2 DEF CallOK
<1>4. n \in 0..MaxAttempts
  BY <1>3, Times DEF Call
<1> HIDE DEF n
<1>5. /\ q \in Call /\ q.pc = "sent" /\ q.route = call[c].route /\ q.answer = None
      /\ q.waited = 0
  BY <1>2, <1>3, <1>4 DEF Call
<1> HIDE DEF q
<1>6. call' \in [Callers -> Call] /\ call'[c] = q /\ \A d \in Callers \ {c} : call'[d] = call[d]
  BY <1>1, <1>2, <1>5
<1>7. CallOK(q)
  BY <1>5, Times DEF CallOK, AgeOK
<1> QED
  BY <1>5, <1>6, <1>7 DEF Moves, ClockOK, Leading

LEMMA HandleMoves ==
    ASSUME Inv, NEW c \in Callers, NEW reached, NEW registered, Handle(c, reached, registered)
    PROVE  Moves(c) /\ RestOK' /\ (advanced => advanced')
<1> DEFINE r == call[c].route
           reads == r \in Screens /\ Resolves(reached) /\ registered
           screen == IF reads THEN Fetched("filing" \in reached)
                     ELSE [age |-> None, fallback |-> FALSE]
           a == [age |-> screen.age, fallback |-> screen.fallback,
                 listed |-> IF r = Publications THEN listed ELSE {}]
           q == [call[c] EXCEPT !.pc = "handled", !.answer = a]
<1>1. /\ call' = [call EXCEPT ![c] = q] /\ call[c].pc = "sent"
      /\ advanced' = (advanced \/ (r = Compliance /\ ClockJobRuns))
      /\ disk' = IF reads THEN Written("filing" \in reached) ELSE disk
      /\ mapped' \in BOOLEAN
      /\ UNCHANGED <<listed, tokens, seen, excused>>
  BY DEF Handle, client, watch
<1>2. call \in [Callers -> Call] /\ CallOK(call[c]) /\ "handled" \in Steps
  BY DEF Inv, CallsOK, Steps
<1>3. call[c] \in Call /\ call[c].waited <= RequestTimeout /\ call[c].waited \in Nat
  BY <1>1, <1>2 DEF CallOK, Call
<1>4. disk \in Ages \cup {None} /\ listed \subseteq Fingerprint /\ 0 \in Ages
  BY Times DEF Inv, RestOK, Ages, AgeCap
<1>5. /\ screen.age \in Ages \cup {None} /\ screen.fallback \in BOOLEAN
      /\ screen.age # None /\ ~screen.fallback => screen.age < DiskLifetime
  <2> HIDE DEF reads
  <2> QED
    BY <1>4, Times DEF Fetched, ServeDisk
<1>6. (IF r = Publications THEN listed ELSE {}) \subseteq Fingerprint
  BY <1>4
<1>7. a \in Answer /\ a.age = screen.age /\ a.fallback = screen.fallback
  <2> HIDE DEF screen
  <2> QED
    BY <1>5, <1>6 DEF Answer
<1> HIDE DEF a, screen
<1>8. /\ q \in Call /\ q.pc = "handled" /\ q.route = r /\ q.answer = a
      /\ q.waited = call[c].waited
  BY <1>2, <1>3, <1>7 DEF Call
<1> HIDE DEF q
<1>9. call' \in [Callers -> Call] /\ call'[c] = q /\ \A d \in Callers \ {c} : call'[d] = call[d]
  BY <1>1, <1>2, <1>8
<1>10. AgeOK(q)
  <2> SUFFICES ASSUME a # None, a.age # None, ~a.fallback PROVE a.age < DiskLifetime + q.waited
    BY <1>8 DEF AgeOK
  <2>1. a.age \in Int /\ a.age < DiskLifetime
    BY <1>5, <1>7 DEF Ages
  <2> QED
    BY <1>3, <1>8, <2>1, Times
<1>11. c = Scheduler => ClockOK(q, advanced')
  BY <1>1, <1>8 DEF ClockOK, ClockJobRuns
<1>12. Moves(c)
  BY <1>3, <1>8, <1>9, <1>10, <1>11 DEF Moves, CallOK, Leading
<1>13. RestOK'
  <2>1. disk' \in Ages \cup {None}
    <3> HIDE DEF reads
    <3> QED
      BY <1>1, <1>4 DEF Written
  <2> QED
    BY <1>1, <2>1 DEF Inv, RestOK
<1> QED
  BY <1>1, <1>12, <1>13

-----------------------------------------------------------------------------
(* What the cache of the client does.                                      *)
LEMMA HitOK ==
    ASSUME Inv, NEW r \in Routes, Fresh(r)
    PROVE  LET a == entries[r].answer IN
           a \in Answer /\ (a.age # None /\ ~a.fallback => a.age < Freshness)
<1> DEFINE e == entries[r]
           a == e.answer
<1>1. e # None /\ e.left > 0 /\ EntryOK(r, e)
  BY DEF Fresh, Inv, CacheOK
<1>2. e \in [answer : Answer, left : 0..Lifetime[r]]
  BY <1>1 DEF EntryOK
<1>3. a \in Answer
  BY <1>2
<1>4. ASSUME a.age # None, ~a.fallback PROVE a.age < Freshness
  <2>1. a.age + e.left < DiskLifetime + RequestTimeout + Lifetime[r]
    BY <1>1, <1>4 DEF EntryOK
  <2>2. a.age \in Int /\ e.left \in Int /\ e.left > 0
    BY <1>1, <1>2, <1>3, <1>4, Times DEF Answer, Ages
  <2>3. DiskLifetime + RequestTimeout + Lifetime[r] <= Freshness /\ Freshness \in Int
        /\ DiskLifetime + RequestTimeout + Lifetime[r] \in Int
    BY Times
  <2> HIDE DEF a, e
  <2> QED
    BY <2>1, <2>2, <2>3
<1> QED
  BY <1>3, <1>4

LEMMA PoppedOK == ASSUME Inv, NEW r \in Routes, entries' = Popped(r) PROVE CacheOK'
<1>1. DOMAIN entries = Routes /\ \A k \in Routes : EntryOK(k, entries[k])
  BY DEF Inv, CacheOK
<1>2. DOMAIN entries' = Routes /\ \A k \in Routes : entries'[k] \in {entries[k], None}
  BY <1>1 DEF Popped
<1>3. \A k \in Routes : EntryOK(k, entries'[k])
  BY <1>1, <1>2 DEF EntryOK
<1> DEFINE A == {k \in Routes : entries[k] # None}
           B == {k \in Routes : entries'[k] # None}
<1>4. B \subseteq A /\ IsFiniteSet(A) /\ Cardinality(A) <= MaxEntries
  BY <1>2, RoutesFinite, FS_Subset DEF Inv, CacheOK
<1>5. Cardinality(B) <= Cardinality(A) /\ Cardinality(A) \in Nat /\ Cardinality(B) \in Nat
  <2> HIDE DEF A, B
  <2> QED
    BY <1>4, FS_Subset, FS_CardinalityType
<1>6. Cardinality(B) <= MaxEntries
  <2> HIDE DEF A, B
  <2> QED
    BY <1>4, <1>5, Times
<1> QED
  BY <1>2, <1>3, <1>6 DEF CacheOK

LEMMA OneMore ==
    ASSUME NEW S, IsFiniteSet(S), NEW x
    PROVE  /\ IsFiniteSet(S \cup {x}) /\ Cardinality(S \cup {x}) \in Nat
           /\ Cardinality(S) \in Nat /\ Cardinality(S \cup {x}) <= Cardinality(S) + 1
<1>1. IsFiniteSet(S \cup {x})
      /\ (Cardinality(S \cup {x}) = Cardinality(S) \/ Cardinality(S \cup {x}) = Cardinality(S) + 1)
  BY FS_AddElement
<1>2. Cardinality(S) \in Nat
  BY FS_CardinalityType
<1> QED
  BY <1>1, <1>2

LEMMA StoredOK ==
    ASSUME Inv, NEW r \in Routes, NEW a \in Answer, entries' = Stored(r, a),
           a.age # None /\ ~a.fallback => a.age < DiskLifetime + RequestTimeout
    PROVE  CacheOK'
<1> DEFINE A == {k \in Routes : entries[k] # None}
           B == {k \in Routes : entries'[k] # None}
           new == [answer |-> a, left |-> Lifetime[r]]
           room == IF Cardinality(A) < MaxEntries THEN entries
                   ELSE [entries EXCEPT ![Soonest(r)] = None]
<1>1. DOMAIN entries = Routes /\ \A k \in Routes : EntryOK(k, entries[k])
  BY DEF Inv, CacheOK
<1>2. IsFiniteSet(A) /\ Cardinality(A) \in Nat /\ Cardinality(A) <= MaxEntries
  <2>1. A \subseteq Routes
    OBVIOUS
  <2> QED
    BY <2>1, RoutesFinite, FS_Subset, FS_CardinalityType DEF Inv, CacheOK
<1>3. entries' = [room EXCEPT ![r] = new]
  BY DEF Stored, Kept
<1>4. /\ DOMAIN room = Routes
      /\ \A k \in Routes : room[k] \in {entries[k], None}
  BY <1>1
<1>5. DOMAIN entries' = Routes /\ entries'[r] = new /\ \A k \in Routes \ {r} : entries'[k] = room[k]
  <2> HIDE DEF room, new
  <2> QED
    BY <1>3, <1>4
<1>6. EntryOK(r, new)
  <2>1. Lifetime[r] \in 0..Lifetime[r] /\ Lifetime[r] \in Int
    BY Times
  <2>2. new \in [answer : Answer, left : 0..Lifetime[r]]
    BY <2>1
  <2>3. ASSUME a.age # None, ~a.fallback
        PROVE  a.age + Lifetime[r] < DiskLifetime + RequestTimeout + Lifetime[r]
    <3>1. a.age \in Int /\ a.age < DiskLifetime + RequestTimeout
      BY <2>3 DEF Answer, Ages
    <3> QED
      BY <2>1, <3>1, Times
  <2> QED
    BY <2>2, <2>3 DEF EntryOK
<1>7. \A k \in Routes : EntryOK(k, entries'[k])
  <2> HIDE DEF room, new
  <2>1. \A k \in Routes : EntryOK(k, room[k])
    BY <1>1, <1>4 DEF EntryOK
  <2> QED
    BY <1>5, <1>6, <2>1
<1>8. Cardinality(B) <= MaxEntries
  <2>1. CASE Cardinality(A) < MaxEntries
    <3>1. room = entries
      BY <2>1
    <3>2. B \subseteq A \cup {r}
      BY <1>5, <3>1
    <3> HIDE DEF A, B
    <3>3. IsFiniteSet(A \cup {r}) /\ Cardinality(A \cup {r}) <= Cardinality(A) + 1
          /\ Cardinality(A \cup {r}) \in Nat
      BY <1>2, OneMore
    <3>4. Cardinality(B) <= Cardinality(A \cup {r}) /\ Cardinality(B) \in Nat
      BY <3>2, <3>3, FS_Subset, FS_CardinalityType
    <3> QED
      BY <1>2, <2>1, <3>3, <3>4, Times
  <2>2. CASE ~(Cardinality(A) < MaxEntries)
    <3> DEFINE s == Soonest(r)
    <3>1. room = [entries EXCEPT ![s] = None]
      BY <2>2
    <3>2. A # {}
      BY <1>2, <2>2, FS_EmptySet, Times
    <3>3. s \in A
      <4> DEFINE left == [k \in A |-> entries[k].left]
      <4>1. \A k \in A : left[k] \in Int
        <5>1. \A k \in A : entries[k].left \in 0..Lifetime[k] /\ Lifetime[k] \in Nat
          BY <1>1, Times DEF EntryOK
        <5> QED
          BY <5>1
      <4>2. \E k \in A : \A l \in A : left[k] <= left[l]
        <5> HIDE DEF A, left
        <5> QED
          BY <1>2, <3>2, <4>1, Least
      <4>3. \E k \in A : \A l \in A : entries[k].left <= entries[l].left
        BY <4>2
      <4>4. Kept(r) = A
        BY DEF Kept
      <4> HIDE DEF A
      <4> QED
        BY <4>3, <4>4 DEF Soonest
    <3>4. B \subseteq (A \ {s}) \cup {r}
      <4> HIDE DEF s
      <4> QED
        BY <1>1, <1>5, <3>1
    <3> HIDE DEF A, B, s
    <3>5. IsFiniteSet(A \ {s}) /\ Cardinality(A \ {s}) = Cardinality(A) - 1
      BY <1>2, <3>3, FS_RemoveElement
    <3>6. IsFiniteSet((A \ {s}) \cup {r}) /\ Cardinality((A \ {s}) \cup {r}) <= Cardinality(A)
          /\ Cardinality((A \ {s}) \cup {r}) \in Nat
      <4>1. Cardinality((A \ {s}) \cup {r}) <= Cardinality(A \ {s}) + 1
        BY <3>5, OneMore
      <4>2. IsFiniteSet((A \ {s}) \cup {r}) /\ Cardinality((A \ {s}) \cup {r}) \in Nat
        BY <3>5, OneMore
      <4> QED
        BY <1>2, <3>5, <4>1, <4>2
    <3>7. Cardinality(B) <= Cardinality((A \ {s}) \cup {r}) /\ Cardinality(B) \in Nat
      BY <3>4, <3>6, FS_Subset, FS_CardinalityType
    <3> QED
      BY <1>2, <3>6, <3>7, Times
  <2> QED
    BY <2>1, <2>2
<1> QED
  BY <1>5, <1>7, <1>8 DEF CacheOK

-----------------------------------------------------------------------------
(* What a call does with the cache and the flight.                         *)
LEMMA AskOK ==
    ASSUME Inv, NEW c \in Callers, NEW r \in Routes, NEW bypass \in BOOLEAN, Ask(c, r, bypass),
           c = Scheduler /\ r = Compliance => bypass
    PROVE  Inv'
<1> DEFINE hit == Cacheable(r, bypass) /\ Fresh(r)
           pc == IF ~Cacheable(r, bypass) THEN "acquire" ELSE IF Fresh(r) THEN "done" ELSE "join"
           a == IF hit THEN entries[r].answer ELSE None
           q == [Idle EXCEPT !.route = r, !.pc = pc, !.answer = a]
<1>1. /\ call[c].pc = "idle" /\ call' = [call EXCEPT ![c] = q]
      /\ entries' = (IF Cacheable(r, bypass) THEN Popped(r) ELSE entries)
      /\ UNCHANGED <<server, flight, tokens, watch>>
  BY DEF Ask
<1>2. a \in Answer \cup {None}
      /\ (a # None => pc = "done" /\ ~bypass
                      /\ (a.age # None /\ ~a.fallback => a.age < Freshness))
  BY HitOK DEF Cacheable
<1>3. pc \in {"acquire", "done", "join"} /\ (bypass => pc = "acquire")
  BY DEF Cacheable
<1> HIDE DEF pc, a, hit
<1>4. q \in Call /\ q.pc = pc /\ q.route = r /\ q.answer = a /\ q.attempt = 0
  <2>1. pc \in Steps
    BY <1>3 DEF Steps
  <2> QED
    BY <1>2, <2>1, IdleOK DEF Call, Idle
<1> HIDE DEF q
<1>5. CallOK(q) /\ (c = Scheduler => ClockOK(q, advanced))
  <2>1. AgeOK(q)
    BY <1>2, <1>4 DEF AgeOK
  <2> QED
    BY <1>2, <1>3, <1>4, <2>1, Times DEF CallOK, ClockOK
<1>6. Moves(c)
  <2>1. call \in [Callers -> Call]
    BY DEF Inv, CallsOK
  <2>2. call' \in [Callers -> Call] /\ call'[c] = q /\ \A d \in Callers \ {c} : call'[d] = call[d]
    BY <1>1, <1>4, <2>1
  <2> QED
    BY <1>1, <1>5, <2>2 DEF Moves, Leading, server
<1>7. CallsOK' /\ FlightOK' /\ ClockOK(call[Scheduler], advanced)'
  BY <1>1, <1>6, MovesOK DEF server
<1>8. CacheOK'
  BY <1>1, PoppedOK DEF Inv, CacheOK
<1>9. RestOK'
  BY <1>1 DEF Inv, RestOK, server, watch
<1> QED
  BY <1>7, <1>8, <1>9 DEF Inv

LEMMA JoinOK == ASSUME Inv, NEW c \in Callers, Join(c) PROVE Inv'
<1> DEFINE r == call[c].route
           pc == IF flight[r] = None THEN "acquire" ELSE "wait"
<1>1. /\ call[c].pc = "join" /\ pc \in {"acquire", "wait"} /\ pc \in Steps /\ Go(c, pc)
      /\ flight' = (IF flight[r] = None THEN [flight EXCEPT ![r] = c] ELSE flight)
      /\ UNCHANGED <<server, entries, tokens, watch>>
  BY DEF Join, Steps
<1>2. /\ call \in [Callers -> Call] /\ CallOK(call[c])
      /\ flight \in [Routes -> Callers \cup {None}]
  BY DEF Inv, CallsOK, FlightOK
<1>3. r \in Routes /\ call[c].answer = None /\ call[c].attempt < MaxAttempts
  BY <1>1, <1>2 DEF CallOK, Call
<1>4. /\ call' \in [Callers -> Call]
      /\ \A d \in Callers \ {c} : call'[d] = call[d]
      /\ call'[c].pc = pc /\ call'[c].route = r
      /\ call'[c].attempt = call[c].attempt /\ call'[c].answer = None
  <2> HIDE DEF pc
  <2> QED
    BY <1>1, <1>3, GoIs
<1>5. CallsOK'
  <2>1. CallOK(call'[c])
    BY <1>1, <1>3, <1>4 DEF CallOK, AgeOK
  <2> QED
    BY <1>4, <2>1 DEF Inv, CallsOK
<1>6. FlightOK'
  <2>1. flight' \in [Routes -> Callers \cup {None}]
    BY <1>1, <1>2
  <2>2. ASSUME NEW k \in Routes, flight'[k] # None
        PROVE  call'[flight'[k]].route = k /\ call'[flight'[k]].pc \in Leading
    <3>1. CASE flight[k] = None
      <4>1. k = r /\ flight'[k] = c
        BY <1>1, <1>2, <2>2, <3>1
      <4>2. pc = "acquire"
        BY <3>1, <4>1
      <4> QED
        BY <1>4, <4>1, <4>2 DEF Leading
    <3>2. CASE flight[k] # None
      <4>1. flight'[k] = flight[k]
        BY <1>1, <1>2, <1>3, <3>2
      <4>2. flight[k] \in Callers /\ call[flight[k]].route = k /\ call[flight[k]].pc \in Leading
        BY <1>2, <3>2 DEF Inv, FlightOK, Leaders
      <4>3. flight[k] # c
        BY <1>1, <4>2 DEF Leading
      <4> QED
        BY <1>4, <4>1, <4>2, <4>3
    <3> QED
      BY <3>1, <3>2
  <2> QED
    BY <2>1, <2>2 DEF FlightOK, Leaders
<1>7. ClockOK(call[Scheduler], advanced)'
  <2>1. Scheduler \in Callers /\ ClockOK(call[Scheduler], advanced) /\ advanced' = advanced
    BY <1>1 DEF Callers, Inv, server
  <2>2. CASE c = Scheduler
    BY <1>1, <1>4, <2>1, <2>2 DEF ClockOK
  <2>3. CASE c # Scheduler
    BY <1>4, <2>1, <2>3
  <2> QED
    BY <2>2, <2>3
<1>8. CacheOK' /\ RestOK'
  BY <1>1 DEF Inv, CacheOK, RestOK, server, watch
<1> QED
  BY <1>5, <1>6, <1>7, <1>8 DEF Inv

LEMMA RereadOK == ASSUME Inv, NEW c \in Callers, Reread(c) PROVE Inv'
<1> DEFINE r == call[c].route
<1>1. /\ call[c].pc = "reread" /\ entries' = Popped(r)
      /\ UNCHANGED <<server, flight, tokens, watch>>
      /\ IF Fresh(r) THEN Answered(c, entries[r].answer, "done") ELSE Go(c, "acquire")
  BY DEF Reread
<1>2. CallOK(call[c]) /\ (c = Scheduler => ClockOK(call[c], advanced))
  BY DEF Inv, CallsOK
<1>3. /\ r \in Routes /\ call[c].answer = None /\ call[c].attempt < MaxAttempts
      /\ c = Scheduler => r # Compliance
  BY <1>1, <1>2 DEF CallOK, Call, ClockOK
<1>4. Moves(c)
  <2>1. CASE Fresh(r)
    <3> DEFINE a == entries[r].answer
    <3>1. a \in Answer /\ (a.age # None /\ ~a.fallback => a.age < Freshness)
      BY <1>3, <2>1, HitOK
    <3>2. Answered(c, a, "done") /\ "done" \in Steps
      BY <1>1, <2>1 DEF Steps
    <3> HIDE DEF a
    <3>3. /\ call' \in [Callers -> Call]
          /\ \A d \in Callers \ {c} : call'[d] = call[d]
          /\ call'[c].pc = "done" /\ call'[c].route = call[c].route
          /\ call'[c].attempt = 0 /\ call'[c].answer = a
      BY <3>1, <3>2, AnsweredIs
    <3>4. AgeOK(call'[c])
      BY <3>1, <3>3 DEF AgeOK
    <3> QED
      BY <1>1, <1>3, <3>3, <3>4 DEF Moves, CallOK, ClockOK, Leading
  <2>2. CASE ~Fresh(r)
    <3>1. Go(c, "acquire") /\ "acquire" \in Steps
      BY <1>1, <2>2 DEF Steps
    <3> QED
      BY <1>1, <1>3, <3>1, GoIs DEF Moves, CallOK, AgeOK, ClockOK, Leading
  <2> QED
    BY <2>1, <2>2
<1>5. CallsOK' /\ FlightOK' /\ ClockOK(call[Scheduler], advanced)'
  BY <1>1, <1>4, MovesOK DEF server
<1>6. CacheOK'
  BY <1>1, <1>3, PoppedOK
<1>7. RestOK'
  BY <1>1 DEF Inv, RestOK, server, watch
<1> QED
  BY <1>5, <1>6, <1>7 DEF Inv

LEMMA PutOK == ASSUME Inv, NEW c \in Callers, Put(c) PROVE Inv'
<1> DEFINE r == call[c].route
           a == call[c].answer
<1>1. /\ call[c].pc = "put" /\ entries' = Stored(r, a) /\ Go(c, "land") /\ "land" \in Steps
      /\ UNCHANGED <<server, flight, tokens, watch>>
  BY DEF Put, Steps
<1>2. CallOK(call[c]) /\ (c = Scheduler => ClockOK(call[c], advanced))
  BY DEF Inv, CallsOK
<1>3. /\ r \in Routes /\ a \in Answer
      /\ a.age # None /\ ~a.fallback => a.age < DiskLifetime + RequestTimeout
  BY <1>1, <1>2 DEF CallOK, AgeOK, Call
<1>4. Moves(c)
  <2>1. /\ call' \in [Callers -> Call]
        /\ \A d \in Callers \ {c} : call'[d] = call[d]
        /\ call'[c].pc = "land" /\ call'[c].route = r
        /\ call'[c].attempt = call[c].attempt /\ call'[c].answer = a
    BY <1>1, GoIs
  <2> HIDE DEF a, r
  <2>2. CallOK(call'[c])
    BY <1>3, <2>1 DEF CallOK, AgeOK
  <2>3. advanced' = advanced
    BY <1>1 DEF server
  <2> QED
    BY <1>2, <2>1, <2>2, <2>3 DEF Moves, ClockOK, Leading, r, a
<1>5. CallsOK' /\ FlightOK' /\ ClockOK(call[Scheduler], advanced)'
  BY <1>1, <1>4, MovesOK DEF server
<1>6. CacheOK'
  <2> HIDE DEF a, r
  <2> QED
    BY <1>1, <1>3, StoredOK
<1>7. RestOK'
  BY <1>1 DEF Inv, RestOK, server, watch
<1> QED
  BY <1>5, <1>6, <1>7 DEF Inv

(* The flight is over before anybody can lead another one of its route.    *)
LEMMA LandOK == ASSUME Inv, NEW c \in Callers, Land(c) PROVE Inv'
<1> DEFINE r == call[c].route
           woken == {d \in Callers : call[d].pc = "wait" /\ call[d].route = r}
<1>1. /\ call[c].pc = "land" /\ flight' = [flight EXCEPT ![r] = None]
      /\ call' = [d \in Callers |->
                   IF d = c THEN [call[d] EXCEPT !.pc = "done"]
                   ELSE IF d \in woken THEN [call[d] EXCEPT !.pc = "reread", !.waited = 0]
                   ELSE call[d]]
      /\ UNCHANGED <<server, entries, tokens, watch>>
  BY DEF Land, Landed
<1>2. call \in [Callers -> Call] /\ flight \in [Routes -> Callers \cup {None}]
  BY DEF Inv, CallsOK, FlightOK
<1>3. ASSUME NEW d \in Callers
      PROVE  /\ call'[d] \in Call /\ CallOK(call'[d]) /\ call'[d].route = call[d].route
             /\ call'[d].answer = call[d].answer
             /\ call'[d].pc = call[d].pc \/ (call[d].pc = "wait" /\ call'[d].pc = "reread")
                \/ (d = c /\ call'[d].pc = "done")
  <2>1. call[d] \in Call /\ CallOK(call[d]) /\ "done" \in Steps /\ "reread" \in Steps
    BY <1>2 DEF Inv, CallsOK, Steps
  <2>2. CASE d = c
    <3>1. call'[d] = [call[d] EXCEPT !.pc = "done"]
      BY <1>1, <2>2
    <3>2. /\ call'[d] \in Call /\ call'[d].pc = "done" /\ call'[d].answer = call[d].answer
          /\ call'[d].route = call[d].route
      BY <2>1, <3>1 DEF Call
    <3>3. AgeOK(call'[d])
      <4> DEFINE a == call[d].answer
      <4> SUFFICES ASSUME a # None, a.age # None, ~a.fallback PROVE a.age < Freshness
        BY <3>2 DEF AgeOK
      <4>1. a \in Answer /\ a.age < DiskLifetime + RequestTimeout
        BY <1>1, <2>1, <2>2 DEF CallOK, AgeOK, Call
      <4>2. a.age \in Int
        BY <4>1 DEF Answer, Ages
      <4>3. DiskLifetime + RequestTimeout + Lifetime[Compliance] <= Freshness
            /\ Lifetime[Compliance] \in Nat
        BY Times, RoutesFinite
      <4> HIDE DEF a
      <4> QED
        BY <4>1, <4>2, <4>3, Times
    <3> QED
      BY <2>2, <3>2, <3>3 DEF CallOK
  <2>3. CASE d # c /\ d \in woken
    <3> DEFINE q == [call[d] EXCEPT !.pc = "reread", !.waited = 0]
    <3>1. call'[d] = q /\ call[d].pc = "wait"
      BY <1>1, <2>3
    <3>2. /\ q \in Call /\ q.pc = "reread" /\ q.answer = call[d].answer
          /\ q.route = call[d].route /\ q.attempt = call[d].attempt
      BY <2>1 DEF Call
    <3> HIDE DEF q
    <3> QED
      BY <2>1, <3>1, <3>2 DEF CallOK, AgeOK
  <2>4. CASE d # c /\ d \notin woken
    BY <1>1, <2>1, <2>4
  <2> QED
    BY <2>2, <2>3, <2>4
<1>4. CallsOK'
  <2>1. call' \in [Callers -> Call]
    <3>1. DOMAIN call' = Callers /\ call' = [d \in Callers |-> call'[d]]
      BY <1>1
    <3> QED
      BY <1>3, <3>1
  <2> QED
    BY <1>3, <2>1 DEF CallsOK
<1>5. FlightOK'
  <2>1. flight' \in [Routes -> Callers \cup {None}]
    BY <1>1, <1>2
  <2>2. ASSUME NEW k \in Routes, flight'[k] # None
        PROVE  call'[flight'[k]].route = k /\ call'[flight'[k]].pc \in Leading
    <3>1. k # r /\ flight'[k] = flight[k]
      BY <1>1, <1>2, <2>2
    <3>2. flight[k] \in Callers /\ call[flight[k]].route = k /\ call[flight[k]].pc \in Leading
      BY <1>2, <2>2, <3>1 DEF Inv, FlightOK, Leaders
    <3>3. flight[k] # c
      BY <3>1, <3>2
    <3> QED
      BY <1>3, <3>1, <3>2, <3>3 DEF Leading
  <2> QED
    BY <2>1, <2>2 DEF FlightOK, Leaders
<1>6. ClockOK(call[Scheduler], advanced)'
  <2>1. Scheduler \in Callers /\ ClockOK(call[Scheduler], advanced) /\ advanced' = advanced
    BY <1>1 DEF Callers, Inv, server
  <2> QED
    BY <1>1, <1>3, <2>1 DEF ClockOK
<1>7. CacheOK' /\ RestOK'
  BY <1>1 DEF Inv, CacheOK, RestOK, server, watch
<1> QED
  BY <1>4, <1>5, <1>6, <1>7 DEF Inv

-----------------------------------------------------------------------------
(* The threads that return and report.                                     *)
LEMMA ToIdle ==
    ASSUME Inv, NEW c \in Callers, call[c].pc = "done", call' = [call EXCEPT ![c] = Idle]
    PROVE  Moves(c)
BY IdleOK DEF Inv, CallsOK, Moves, Leading, ClockOK, Idle

LEMMA ReportOK == ASSUME Inv, ReportClock \/ ReportWatch PROVE Inv'
<1>1. /\ call[Scheduler].pc = "done" /\ call' = [call EXCEPT ![Scheduler] = Idle]
      /\ advanced' = FALSE /\ UNCHANGED <<disk, mapped, listed, client>> /\ Scheduler \in Callers
  BY DEF ReportClock, ReportWatch, Callers, watch, client
<1>2. Moves(Scheduler)
  BY <1>1, ToIdle
<1>3. CallsOK' /\ FlightOK' /\ ClockOK(call[Scheduler], advanced)'
  BY <1>1, <1>2, MovesOK DEF client
<1>4. CacheOK'
  BY <1>1 DEF Inv, CacheOK, client
<1>5. seen' \subseteq Fingerprint /\ excused' \subseteq Fingerprint
  <2>1. seen \subseteq Fingerprint /\ excused \subseteq Fingerprint /\ 1..Latest \subseteq Fingerprint
    BY LatestIs DEF Inv, RestOK, Fingerprint
  <2>2. CASE ReportClock
    BY <2>1, <2>2 DEF ReportClock, watch
  <2>3. CASE ReportWatch
    <3>1. PICK a : a = call[Scheduler].answer
      OBVIOUS
    <3>2. a # None => Fingerprints(a) \subseteq Fingerprint
      BY <1>1, <3>1 DEF Inv, CallsOK, Call, Answer, Fingerprints
    <3> QED
      BY <2>1, <2>3, <3>1, <3>2 DEF ReportWatch, AfterRaise, watch
  <2> QED
    BY <2>2, <2>3
<1>6. RestOK'
  BY <1>1, <1>5 DEF Inv, RestOK, client
<1> QED
  BY <1>3, <1>4, <1>6 DEF Inv

-----------------------------------------------------------------------------
(* Time.                                                                   *)
LEMMA OlderOK ==
    ASSUME NEW age \in Ages \cup {None}
    PROVE  /\ Older(age) \in Ages \cup {None}
           /\ age = None <=> Older(age) = None
           /\ age # None => Older(age) \in Int /\ age \in Int /\ Older(age) <= age + 1
<1>1. CASE age = None
  BY <1>1 DEF Older
<1>2. CASE age # None
  <2>1. age \in Int /\ age >= 0 /\ AgeCap \in Nat
    BY <1>2, Times DEF Ages, AgeCap
  <2>2. age + 1 \in Int
    BY <2>1
  <2>3. Min({age + 1, AgeCap}) = IF age + 1 <= AgeCap THEN age + 1 ELSE AgeCap
    BY <2>1, <2>2, OfTwo
  <2>4. Older(age) \in Ages /\ Older(age) \in Int /\ Older(age) <= age + 1
    BY <1>2, <2>1, <2>3 DEF Older, Ages
  <2> QED
    BY <1>2, <2>1, <2>4, Times
<1> QED
  BY <1>1, <1>2

LEMMA AgedOK ==
    ASSUME NEW a \in Answer
    PROVE  /\ Aged(a) \in Answer /\ Aged(a).fallback = a.fallback
           /\ Aged(a).age # None =>
                a.age # None /\ a.age \in Int /\ Aged(a).age \in Int /\ Aged(a).age <= a.age + 1
<1>1. a.age \in Ages \cup {None} /\ (a.age # None => a.age \in Int)
  BY DEF Answer, Ages
<1>2. CASE a = None
  BY <1>1, <1>2 DEF Aged
<1>3. CASE a # None
  <2>1. Aged(a) = [a EXCEPT !.age = Older(a.age)]
    BY <1>3 DEF Aged
  <2>2. Aged(a) \in Answer /\ Aged(a).fallback = a.fallback /\ Aged(a).age = Older(a.age)
    BY <1>1, <2>1, OlderOK DEF Answer
  <2> QED
    BY <1>1, <2>2, OlderOK
<1> QED
  BY <1>2, <1>3

LEMMA TickOK == ASSUME Inv, Tick PROVE Inv'
<1>1. /\ call \in [Callers -> Call] /\ DOMAIN entries = Routes
      /\ UNCHANGED <<mapped, listed, advanced, flight, watch>>
  BY DEF Inv, CallsOK, CacheOK, Tick
<1>2. ASSUME NEW d \in Callers
      PROVE  /\ call'[d] \in Call /\ CallOK(call'[d])
             /\ call'[d].route = call[d].route /\ call'[d].pc = call[d].pc
             /\ call'[d].answer # None => call[d].answer # None
  <2> DEFINE a == call[d].answer
             q == [call[d] EXCEPT !.waited = call[d].waited + 1, !.answer = Aged(a)]
  <2>1. /\ call'[d] = IF call[d].pc \in {"idle", "done"} THEN call[d] ELSE q
        /\ Waiting(d) /\ call[d] \in Call /\ CallOK(call[d])
    BY <1>1 DEF Inv, CallsOK, Tick
  <2>2. CASE call[d].pc \in {"idle", "done"}
    BY <2>1, <2>2
  <2>3. CASE call[d].pc \notin {"idle", "done"}
    <3>1. /\ call[d].pc \in {"wait", "acquire", "sent", "handled"}
          /\ call[d].pc \in {"sent", "handled"} => call[d].waited < RequestTimeout
          /\ call[d].waited \in Nat
      BY <2>1, <2>3 DEF Waiting, Call
    <3>2. a \in Answer \cup {None} /\ (a # None => call[d].pc = "handled")
      BY <2>1, <3>1 DEF CallOK, Call
    <3>3. Aged(a) \in Answer \cup {None} /\ (a = None => Aged(a) = None)
      <4>1. a = None => Aged(a) = None
        BY DEF Aged
      <4> HIDE DEF a
      <4> QED
        BY <3>2, <4>1, AgedOK
    <3>4. /\ q \in Call /\ q.pc = call[d].pc /\ q.route = call[d].route
          /\ q.attempt = call[d].attempt /\ q.answer = Aged(a)
          /\ q.waited = call[d].waited + 1
      <4>1. call[d].waited + 1 \in Nat
        BY <3>1
      <4> DEFINE w == call[d].waited + 1
                 b == Aged(a)
      <4> HIDE DEF w, b
      <4> QED
        BY <2>1, <3>3, <4>1 DEF Call, w, b
    <3>5. AgeOK(q)
      <4> SUFFICES ASSUME Aged(a) # None, Aged(a).age # None, ~Aged(a).fallback
                   PROVE  Aged(a).age < DiskLifetime + q.waited /\ q.pc = "handled"
        BY <3>1, <3>4 DEF AgeOK
      <4>1. a # None
        BY <3>3
      <4>2. /\ ~a.fallback /\ a.age # None /\ a.age \in Int
            /\ Aged(a).age \in Int /\ Aged(a).age <= a.age + 1
        <5> HIDE DEF a
        <5> QED
          BY <3>2, <4>1, AgedOK
      <4>3. a.age < DiskLifetime + call[d].waited /\ call[d].pc = "handled"
        BY <2>1, <3>2, <4>1, <4>2 DEF CallOK, AgeOK
      <4> DEFINE b == Aged(a)
      <4> HIDE DEF a, b, q
      <4>4. b.age < DiskLifetime + q.waited
        BY <3>1, <3>4, <4>2, <4>3, Times DEF b
      <4> QED
        BY <3>4, <4>3, <4>4 DEF b
    <3>6. CallOK(q)
      <4> HIDE DEF q
      <4>1. q.pc \in {"sent", "handled"} => q.waited <= RequestTimeout
        BY <3>1, <3>4, Times
      <4>2. q.pc \in {"wait", "acquire"} => q.attempt < MaxAttempts
        BY <2>1, <3>4 DEF CallOK
      <4> QED
        BY <3>1, <3>2, <3>3, <3>4, <3>5, <4>1, <4>2 DEF CallOK
    <3> HIDE DEF q
    <3> QED
      BY <2>1, <2>3, <3>3, <3>4, <3>6
  <2> QED
    BY <2>2, <2>3
<1>3. CallsOK'
  <2>1. call' = [d \in Callers |-> call'[d]]
    BY DEF Tick
  <2> QED
    BY <1>2, <2>1 DEF CallsOK
<1>4. FlightOK'
  <2>1. flight' = flight /\ FlightOK
    BY <1>1 DEF Inv
  <2> QED
    BY <1>2, <2>1 DEF FlightOK, Leaders
<1>5. ClockOK(call[Scheduler], advanced)'
  <2>1. Scheduler \in Callers /\ ClockOK(call[Scheduler], advanced) /\ advanced' = advanced
    BY <1>1 DEF Callers, Inv
  <2> QED
    BY <1>2, <2>1 DEF ClockOK
<1>6. ASSUME NEW r \in Routes
      PROVE  EntryOK(r, entries'[r]) /\ (entries'[r] # None => entries[r] # None)
  <2> DEFINE e == entries[r]
             left == Max({0, e.left - 1})
             a == e.answer
             b == Aged(a)
             n == [answer |-> b, left |-> left]
  <2>1. entries'[r] = IF e = None THEN None ELSE n
    BY DEF Tick
  <2>2. CASE e = None
    BY <2>1, <2>2 DEF EntryOK
  <2>3. CASE e # None
    <3>1. EntryOK(r, e) /\ Lifetime[r] \in Nat
      BY Times DEF Inv, CacheOK
    <3>2. e.answer \in Answer /\ e.left \in 0..Lifetime[r]
      BY <2>3, <3>1 DEF EntryOK
    <3>3. e.left - 1 \in Int /\ 0 \in Int
      BY <3>1, <3>2
    <3>4. left = IF 0 >= e.left - 1 THEN 0 ELSE e.left - 1
      BY <3>3, OfTwo
    <3>5. left \in 0..Lifetime[r] /\ (left > 0 => left = e.left - 1 /\ e.left > 0)
      BY <3>1, <3>2, <3>4
    <3>6. EntryOK(r, n)
      <4>1. /\ b \in Answer
            /\ b.age # None /\ ~b.fallback =>
                 /\ ~a.fallback /\ a.age # None /\ a.age \in Int
                 /\ b.age \in Int /\ b.age <= a.age + 1
        <5> HIDE DEF a
        <5> QED
          BY <3>2, AgedOK DEF a, b
      <4>2. n.answer = b /\ n.left = left
        OBVIOUS
      <4>3. n \in [answer : Answer, left : 0..Lifetime[r]]
        <5> HIDE DEF b, left
        <5> QED
          BY <3>5, <4>1
      <4>4. ASSUME left > 0, b.age # None, ~b.fallback
            PROVE  b.age + left < DiskLifetime + RequestTimeout + Lifetime[r]
        <5>1. a.age + e.left < DiskLifetime + RequestTimeout + Lifetime[r]
          BY <2>3, <3>1, <3>5, <4>1, <4>4 DEF EntryOK
        <5>2. e.left \in Int
          BY <3>1, <3>2
        <5> HIDE DEF a, b, left, e
        <5> QED
          BY <3>1, <3>5, <4>1, <4>4, <5>1, <5>2, Times
      <4> HIDE DEF n, b, left
      <4> QED
        BY <4>2, <4>3, <4>4 DEF EntryOK
    <3> HIDE DEF n
    <3> QED
      BY <2>1, <2>3, <3>6
  <2> QED
    BY <2>2, <2>3
<1>7. CacheOK'
  <2>1. DOMAIN entries' = Routes
    BY DEF Tick
  <2> DEFINE A == {r \in Routes : entries[r] # None}
             B == {r \in Routes : entries'[r] # None}
  <2>2. B \subseteq A /\ IsFiniteSet(A) /\ Cardinality(A) <= MaxEntries
    BY <1>6, RoutesFinite, FS_Subset DEF Inv, CacheOK
  <2>3. Cardinality(B) <= MaxEntries
    <3> HIDE DEF A, B
    <3>1. Cardinality(B) <= Cardinality(A) /\ Cardinality(A) \in Nat /\ Cardinality(B) \in Nat
      BY <2>2, FS_Subset, FS_CardinalityType
    <3> QED
      BY <2>2, <3>1, Times
  <2> QED
    BY <1>6, <2>1, <2>3 DEF CacheOK
<1>8. RestOK'
  <2>1. disk' \in Ages \cup {None}
    <3>1. AgeCap \in Ages
      BY Times DEF Ages, AgeCap
    <3> QED
      BY <3>1, OlderOK DEF Inv, RestOK, Tick, Expiring
  <2>2. tokens' \in 0..Capacity
    <3>1. tokens \in 0..Capacity /\ tokens' = Min({Capacity, tokens + Refill})
      BY DEF Inv, RestOK, Tick
    <3>2. tokens + Refill \in Int /\ Capacity \in Int /\ tokens + Refill >= 0
      BY <3>1, Times
    <3>3. tokens' = IF Capacity <= tokens + Refill THEN Capacity ELSE tokens + Refill
      BY <3>1, <3>2, OfTwo
    <3> QED
      BY <3>2, <3>3, Times
  <2> QED
    BY <1>1, <2>1, <2>2 DEF Inv, RestOK, watch
<1> QED
  BY <1>3, <1>4, <1>5, <1>7, <1>8 DEF Inv

-----------------------------------------------------------------------------
(* The other steps of the world.                                           *)
LEMMA RestartOK == ASSUME Inv, Restart PROVE Inv'
<1>1. CallsOK'
  BY IdleOK DEF Restart, CallsOK
<1>2. CacheOK'
  <2>1. \A r \in Routes : entries'[r] = None
    BY DEF Restart, Empty
  <2>2. {r \in Routes : entries'[r] # None} = {}
    BY <2>1
  <2>3. Cardinality({r \in Routes : entries'[r] # None}) <= MaxEntries
    BY <2>2, FS_EmptySet, Times
  <2>4. DOMAIN entries' = Routes
    BY DEF Restart, Empty
  <2> QED
    BY <2>1, <2>3, <2>4 DEF CacheOK, EntryOK
<1>3. FlightOK'
  BY DEF Restart, Empty, FlightOK, Leaders
<1>4. RestOK'
  <2>1. Capacity \in 0..Capacity /\ 1..Latest \subseteq Fingerprint
    BY Times, LatestIs DEF Inv, RestOK
  <2> QED
    BY <2>1 DEF Inv, RestOK, Restart
<1>5. ClockOK(call[Scheduler], advanced)'
  <2>1. call'[Scheduler] = Idle
    BY DEF Restart, Callers
  <2> QED
    BY <2>1 DEF ClockOK, Idle
<1> QED
  BY <1>1, <1>2, <1>3, <1>4, <1>5 DEF Inv

LEMMA WorldOK == ASSUME Inv, OtherCalls \/ Publish \/ RestartServer PROVE Inv'
<1>0. 1..Latest \subseteq Fingerprint /\ Latest \in 0..MaxPublication
  BY LatestIs DEF Inv, RestOK
<1>1. /\ UNCHANGED <<entries, flight, call, disk, advanced, seen>>
      /\ tokens' \in 0..Capacity /\ listed' \subseteq Fingerprint /\ mapped' \in BOOLEAN
      /\ excused' \subseteq Fingerprint
  <2>1. /\ tokens \in 0..Capacity /\ listed \subseteq Fingerprint /\ mapped \in BOOLEAN
        /\ excused \subseteq Fingerprint
    BY DEF Inv, RestOK
  <2>2. CASE OtherCalls
    BY <2>1, <2>2, Times DEF OtherCalls, server, watch
  <2>3. CASE RestartServer
    BY <2>1, <2>3 DEF RestartServer, client, watch
  <2>4. CASE Publish
    <3>1. PICK gone : listed' = (listed \ gone) \cup {Latest + 1}
      BY <2>4 DEF Publish
    <3>2. Latest + 1 \in Fingerprint /\ 1..(Latest + 1) \subseteq Fingerprint
      BY <1>0, <2>4, Times DEF Publish, Fingerprint
    <3> QED
      BY <2>1, <2>4, <3>1, <3>2 DEF Publish, client
  <2> QED
    BY <2>2, <2>3, <2>4
<1>2. CallsOK' /\ CacheOK' /\ FlightOK'
  BY <1>1 DEF Inv, CallsOK, CacheOK, FlightOK, Leaders
<1>3. RestOK' /\ ClockOK(call[Scheduler], advanced)'
  BY <1>1 DEF Inv, RestOK, ClockOK
<1> QED
  BY <1>2, <1>3 DEF Inv

(* A step of a call that leaves the cache and the flights alone. *)
LEMMA Quiet ==
    ASSUME Inv, NEW c \in Callers, Moves(c), UNCHANGED <<entries, flight>>, RestOK',
           advanced => advanced'
    PROVE  Inv'
<1>1. CallsOK' /\ FlightOK' /\ ClockOK(call[Scheduler], advanced)'
  BY MovesOK
<1>2. CacheOK'
  BY DEF Inv, CacheOK
<1> QED
  BY <1>1, <1>2 DEF Inv

LEMMA StartOK == ASSUME Inv, NEW c \in Callers, Start(c) PROVE Inv'
<1>1. CASE c \in Askers /\ \E r \in Routes : Ask(c, r, FALSE)
  <2>1. PICK r \in Routes : Ask(c, r, FALSE)
    BY <1>1
  <2>2. c # Scheduler
    BY <1>1, BridgeAssumption
  <2> QED
    BY <2>1, <2>2, AskOK
<1>2. CASE Ask(c, Compliance, TRUE)
  BY <1>2, RoutesFinite, AskOK
<1>3. CASE Ask(c, Publications, FALSE)
  <2>1. Publications # Compliance
    BY BridgeAssumption
  <2> QED
    BY <1>3, <2>1, RoutesFinite, AskOK
<1> QED
  BY <1>1, <1>2, <1>3 DEF Start

LEMMA ProgramOK == ASSUME Inv, NEW c \in Callers, Program(c) PROVE Inv'
<1>1. CASE Join(c)
  BY <1>1, JoinOK
<1>2. CASE Reread(c)
  BY <1>2, RereadOK
<1>3. CASE Put(c)
  BY <1>3, PutOK
<1>4. CASE Land(c)
  BY <1>4, LandOK
<1>5. CASE GiveUpWaiting(c) \/ Limited(c) \/ Expire(c) \/ Return(c)
  <2>1. Moves(c)
    BY <1>5, GiveUpMoves, LimitedMoves, LoseMoves, ToIdle DEF Expire, Return
  <2>2. UNCHANGED <<server, client, watch>>
    BY <1>5 DEF GiveUpWaiting, Limited, Expire, Lose, Return
  <2>3. RestOK'
    BY <2>2 DEF Inv, RestOK, server, client, watch
  <2> QED
    BY <2>1, <2>2, <2>3, Quiet DEF server, client
<1>6. CASE Acquire(c)
  <2>1. tokens' \in 0..Capacity /\ UNCHANGED <<server, entries, flight, watch>>
    BY <1>6, Times DEF Acquire, Inv, RestOK
  <2>2. RestOK'
    BY <2>1 DEF Inv, RestOK, server, watch
  <2> QED
    BY <1>6, <2>1, <2>2, AcquireMoves, Quiet DEF server
<1>7. CASE Report(c)
  BY <1>7, ReportOK DEF Report
<1> QED
  BY <1>1, <1>2, <1>3, <1>4, <1>5, <1>6, <1>7 DEF Program

LEMMA NetworkOK == ASSUME Inv, NEW c \in Callers, Network(c) PROVE Inv'
<1>1. CASE \E reached \in SUBSET Documents, registered \in BOOLEAN : Handle(c, reached, registered)
  <2>1. PICK reached \in SUBSET Documents, registered \in BOOLEAN : Handle(c, reached, registered)
    BY <1>1
  <2>2. UNCHANGED <<entries, flight>>
    BY <2>1 DEF Handle, client
  <2> QED
    BY <2>1, <2>2, HandleMoves, Quiet
<1>2. CASE Receive(c) \/ Refuse(c) \/ Lose(c)
  <2>1. Moves(c)
    BY <1>2, ReceiveMoves, RefuseMoves, LoseMoves
  <2>2. UNCHANGED <<server, client, watch>>
    BY <1>2 DEF Receive, Refuse, Lose
  <2>3. RestOK'
    BY <2>2 DEF Inv, RestOK, server, client, watch
  <2> QED
    BY <2>1, <2>2, <2>3, Quiet DEF server, client
<1> QED
  BY <1>1, <1>2 DEF Network

LEMMA StepInv == Inv /\ [Next]_vars => Inv'
<1> SUFFICES ASSUME Inv, [Next]_vars PROVE Inv'
  OBVIOUS
<1>1. CASE Environment
  BY <1>1, TickOK, RestartOK, WorldOK DEF Environment
<1>2. CASE \E c \in Callers : Start(c) \/ Program(c) \/ Network(c)
  BY <1>2, StartOK, ProgramOK, NetworkOK
<1>3. CASE UNCHANGED vars
  <2>1. UNCHANGED <<server, entries, flight, tokens, call, watch>>
    BY <1>3 DEF vars, client
  <2> QED
    BY <2>1 DEF Inv, CallsOK, CacheOK, FlightOK, Leaders, RestOK, server, watch
<1> QED
  BY <1>1, <1>2, <1>3 DEF Next

-----------------------------------------------------------------------------
(* What the publication watch is told.  Every list that is under way or    *)
(* in the cache names fingerprints that have come out, and a fingerprint   *)
(* that the watch has seen is excused.                                     *)
Told(X) ==
    /\ \A c \in Callers : call[c].answer # None => call[c].answer.listed \subseteq X
    /\ \A r \in Routes : entries[r] # None => entries[r].answer.listed \subseteq X
Watched ==
    /\ Told(1..Latest) /\ seen \subseteq excused
    /\ seen = {} => 1..Latest \subseteq excused

LEMMA WatchedInit == Init => Watched
<1> SUFFICES ASSUME Init PROVE Watched
  OBVIOUS
<1>1. Latest = 0
  <2>1. {} \cup {0} = {0}
    OBVIOUS
  <2> QED
    BY <2>1, OfTwo DEF Init, Latest
<1>2. 1..Latest = {}
  BY <1>1
<1> QED
  BY <1>2 DEF Init, Watched, Told, Idle, Empty

(* A step of one call tells X if what the call has then is from X. *)
LEMMA ToldOfOne ==
    ASSUME NEW X, Told(X), NEW c \in Callers,
           \A d \in Callers \ {c} : call'[d].answer = call[d].answer,
           call'[c].answer # None => call'[c].answer.listed \subseteq X,
           \A r \in Routes : entries'[r] # None => entries'[r].answer.listed \subseteq X
    PROVE  Told(X)'
BY DEF Told

LEMMA AnswerIs ==
    ASSUME Inv, NEW c \in Callers, NEW pc, NEW a, Answered(c, a, pc)
    PROVE  call'[c].answer = a /\ \A d \in Callers \ {c} : call'[d].answer = call[d].answer
<1>1. call \in [Callers -> Call] /\ call[c] \in Call
  BY DEF Inv, CallsOK
<1>2. "answer" \in DOMAIN call[c]
  BY <1>1 DEF Call
<1> QED
  BY <1>1, <1>2 DEF Answered

LEMMA AnswerStays ==
    ASSUME Inv, NEW c \in Callers, NEW pc, Go(c, pc)
    PROVE  \A d \in Callers : call'[d].answer = call[d].answer
BY DEF Inv, CallsOK, Call, Go

LEMMA PoppedTold ==
    ASSUME Inv, NEW X, Told(X), NEW r \in Routes, entries' \in {entries, Popped(r)}
    PROVE  \A k \in Routes : entries'[k] # None => entries'[k].answer.listed \subseteq X
<1>1. \A k \in Routes : entries'[k] \in {entries[k], None}
  BY DEF Inv, CacheOK, Popped
<1> QED
  BY <1>1 DEF Told

LEMMA StoredTold ==
    ASSUME Inv, NEW X, Told(X), NEW r \in Routes, NEW a, a.listed \subseteq X,
           entries' = Stored(r, a)
    PROVE  \A k \in Routes : entries'[k] # None => entries'[k].answer.listed \subseteq X
<1> DEFINE room == IF Cardinality(Kept(r)) < MaxEntries THEN entries
                   ELSE [entries EXCEPT ![Soonest(r)] = None]
           new == [answer |-> a, left |-> Lifetime[r]]
<1>1. DOMAIN entries = Routes
  BY DEF Inv, CacheOK
<1>2. DOMAIN room = Routes /\ \A k \in Routes : room[k] \in {entries[k], None}
  BY <1>1
<1>3. entries' = [room EXCEPT ![r] = new]
  BY DEF Stored
<1>4. \A k \in Routes : entries'[k] = IF k = r THEN new ELSE room[k]
  <2> HIDE DEF room, new
  <2> QED
    BY <1>2, <1>3
<1> HIDE DEF room
<1> QED
  BY <1>2, <1>4 DEF Told

LEMMA CallTold ==
    ASSUME Inv, NEW X, Told(X), listed \subseteq X, NEW c \in Callers,
           Start(c) \/ Program(c) \/ Network(c)
    PROVE  Told(X)'
<1>1. /\ call \in [Callers -> Call] /\ call[c].route \in Routes
      /\ call[c].answer # None => call[c].answer.listed \subseteq X
      /\ \A r \in Routes : entries[r] # None => entries[r].answer.listed \subseteq X
      /\ call[c] \in Call
  BY DEF Inv, CallsOK, Told, Call
<1>2. ASSUME NEW r \in Routes, NEW bypass, Ask(c, r, bypass) PROVE Told(X)'
  <2> DEFINE a == IF Cacheable(r, bypass) /\ Fresh(r) THEN entries[r].answer ELSE None
             pc == IF ~Cacheable(r, bypass) THEN "acquire" ELSE IF Fresh(r) THEN "done" ELSE "join"
             q == [Idle EXCEPT !.route = r, !.pc = pc, !.answer = a]
  <2>1. call' = [call EXCEPT ![c] = q] /\ entries' \in {entries, Popped(r)}
    BY <1>2 DEF Ask
  <2>2. a # None => a.listed \subseteq X
    BY <1>1 DEF Fresh
  <2> HIDE DEF a, pc
  <2>3. q.answer = a
    BY DEF Idle
  <2>4. call'[c].answer = a /\ \A d \in Callers \ {c} : call'[d].answer = call[d].answer
    <3> HIDE DEF q
    <3> QED
      BY <1>1, <2>1, <2>3
  <2> QED
    BY <2>1, <2>2, <2>4, PoppedTold, ToldOfOne
<1>3. CASE Start(c)
  BY <1>2, <1>3, RoutesFinite DEF Start
<1>4. ASSUME \E pc : Go(c, pc), entries' = entries PROVE Told(X)'
  BY <1>1, <1>4, AnswerStays, ToldOfOne
<1>5. ASSUME NEW a, NEW pc, Answered(c, a, pc), a # None => a.listed \subseteq X,
             entries' \in {entries, Popped(call[c].route)}
      PROVE  Told(X)'
  BY <1>1, <1>5, AnswerIs, PoppedTold, ToldOfOne
<1>6. CASE Join(c) \/ GiveUpWaiting(c)
  BY <1>4, <1>6 DEF Join, GiveUpWaiting, client
<1>7. CASE Reread(c)
  <2>1. CASE Fresh(call[c].route)
    BY <1>1, <1>5, <1>7, <2>1 DEF Reread, Fresh
  <2>2. CASE ~Fresh(call[c].route)
    <3>1. Go(c, "acquire") /\ entries' = Popped(call[c].route)
      BY <1>7, <2>2 DEF Reread
    <3> QED
      BY <1>1, <3>1, AnswerStays, PoppedTold, ToldOfOne
  <2> QED
    BY <2>1, <2>2
<1>8. CASE Put(c)
  <2>1. /\ Go(c, "land") /\ entries' = Stored(call[c].route, call[c].answer)
        /\ call[c].answer # None
    BY <1>8 DEF Put, Inv, CallsOK, CallOK
  <2> QED
    BY <1>1, <2>1, AnswerStays, StoredTold, ToldOfOne
<1>9. CASE Land(c)
  <2>1. entries' = entries /\ \A d \in Callers : call'[d].answer = call[d].answer
    BY <1>1, <1>9 DEF Land, Call
  <2> QED
    BY <2>1 DEF Told
<1>10. CASE Limited(c) \/ Expire(c) \/ Lose(c) \/ Receive(c)
  <2>1. entries' = entries /\ \E a \in {None, call[c].answer} : Finish(c, a)
    BY <1>10 DEF Limited, Expire, Lose, Receive, client
  <2> QED
    BY <1>1, <1>5, <2>1 DEF Finish
<1>11. CASE Acquire(c) \/ Return(c) \/ Report(c) \/ (Refuse(c) /\ Again(c))
  <2>1. entries' = entries /\ \A d \in Callers : call'[d].answer \in {call[d].answer, None}
    BY <1>1, <1>11 DEF Acquire, Return, Report, ReportClock, ReportWatch, Refuse, client, Call, Idle
  <2> QED
    BY <2>1 DEF Told
<1>12. CASE Refuse(c) /\ ~Again(c)
  BY <1>5, <1>12 DEF Refuse, Finish, client
<1>13. ASSUME NEW reached, NEW registered, Handle(c, reached, registered) PROVE Told(X)'
  <2> DEFINE r == call[c].route
             reads == r \in Screens /\ Resolves(reached) /\ registered
             screen == IF reads THEN Fetched("filing" \in reached)
                       ELSE [age |-> None, fallback |-> FALSE]
             a == [age |-> screen.age, fallback |-> screen.fallback,
                   listed |-> IF r = Publications THEN listed ELSE {}]
  <2>1. a.listed \in {listed, {}} /\ call' = [call EXCEPT ![c].pc = "handled", ![c].answer = a]
    BY <1>13 DEF Handle
  <2> HIDE DEF a
  <2>2. call'[c].answer = a /\ \A d \in Callers \ {c} : call'[d].answer = call[d].answer
    BY <1>1, <2>1 DEF Call
  <2>3. entries' = entries
    BY <1>13 DEF Handle, client
  <2> QED
    BY <1>1, <2>1, <2>2, <2>3, ToldOfOne
<1> QED
  BY <1>3, <1>6, <1>7, <1>8, <1>9, <1>10, <1>11, <1>12, <1>13 DEF Program, Network

(* Time and restarts add nothing to what the lists name. *)
LEMMA WorldTold == ASSUME Inv, NEW X, Told(X), Environment \/ UNCHANGED vars PROVE Told(X)'
<1>1. CASE Tick
  <2>1. ASSUME NEW d \in Callers, call'[d].answer # None PROVE call'[d].answer.listed \subseteq X
    <3>1. call[d] \in Call /\ (call[d].answer # None => call[d].answer.listed \subseteq X)
      BY DEF Inv, CallsOK, Told
    <3> DEFINE a == call[d].answer
    <3>2. call'[d].answer \in {a, Aged(a)} /\ a \in Answer \cup {None}
      BY <1>1, <3>1 DEF Tick, Call
    <3> HIDE DEF a
    <3>3. a # None => Aged(a).listed = a.listed
      BY <3>2 DEF Aged, Answer
    <3>4. a = None => Aged(a) = None
      BY DEF Aged
    <3> QED
      BY <2>1, <3>1, <3>2, <3>3, <3>4 DEF a
  <2>2. ASSUME NEW r \in Routes, entries'[r] # None PROVE entries'[r].answer.listed \subseteq X
    <3>1. entries[r] # None /\ entries'[r].answer = Aged(entries[r].answer)
      BY <1>1, <2>2 DEF Tick
    <3>2. entries[r].answer \in Answer /\ entries[r].answer.listed \subseteq X
      BY <3>1 DEF Inv, CacheOK, EntryOK, Told
    <3>3. Aged(entries[r].answer).listed = entries[r].answer.listed
      BY <3>2 DEF Aged, Answer
    <3> QED
      BY <3>1, <3>2, <3>3
  <2> QED
    BY <2>1, <2>2 DEF Told
<1>2. CASE Restart
  BY <1>2 DEF Restart, Told, Idle, Empty
<1>3. CASE OtherCalls \/ Publish \/ RestartServer \/ UNCHANGED vars
  <2>1. UNCHANGED <<entries, call>>
    BY <1>3 DEF OtherCalls, Publish, RestartServer, vars, client
  <2> QED
    BY <2>1 DEF Told
<1> QED
  BY <1>1, <1>2, <1>3 DEF Environment

(* Of the steps, a publication alone raises the latest fingerprint. *)
LEMMA LatestMoves ==
    ASSUME Inv, [Next]_vars
    PROVE  /\ 1..Latest \subseteq (1..Latest)'
           /\ Publish => (1..Latest)' \subseteq 1..(Latest + 1)
           /\ ~Publish => listed' = listed /\ Latest' = Latest
<1>1. CASE Publish
  <2>1. listed \subseteq Fingerprint /\ listed' \subseteq Fingerprint
    BY StepInv DEF Inv, RestOK
  <2>2. /\ Latest \in 0..MaxPublication /\ listed \subseteq 1..Latest
    BY <2>1, LatestIs
  <2>3. /\ Latest' \in listed' \cup {0} /\ \A x \in listed' \cup {0} : x <= Latest'
    BY <2>1, GreatestOf DEF Latest
  <2>4. PICK gone : listed' = (listed \ gone) \cup {Latest + 1}
    BY <1>1 DEF Publish
  <2>5. \A x \in listed : x \in 1..Latest
    BY <2>2
  <2>6. Latest' = Latest + 1
    BY <2>2, <2>3, <2>4, <2>5, Times
  <2> QED
    BY <1>1, <2>2, <2>6, Times
<1>2. CASE ~Publish
  <2>1. listed' = listed
    BY <1>2 DEF Next, Environment, Tick, OtherCalls, RestartServer, Restart, Start, Ask, Program,
       Network, Join, GiveUpWaiting, Reread, Put, Land, Acquire, Limited, Expire, Lose, Return,
       Report, ReportClock, ReportWatch, Handle, Receive, Refuse, vars, server
  <2> QED
    BY <1>2, <2>1 DEF Latest
<1> QED
  BY <1>1, <1>2

LEMMA StepWatched == Inv /\ Watched /\ [Next]_vars => Watched'
<1> SUFFICES ASSUME Inv, Watched, [Next]_vars PROVE Watched'
  OBVIOUS
<1>1. listed \subseteq 1..Latest
  BY LatestIs DEF Inv, RestOK
<1>2. Told(1..Latest)'
  <2>1. ASSUME NEW X, X = 1..Latest PROVE Told(X)'
    BY <1>1, <2>1, CallTold, WorldTold DEF Watched, Next
  <2>2. PICK X : X = 1..Latest
    OBVIOUS
  <2>3. Told(X)' /\ X \subseteq (1..Latest)'
    BY <2>1, <2>2, LatestMoves
  <2> QED
    BY <2>3 DEF Told
<1>3. seen' \subseteq excused' /\ (seen' = {} => (1..Latest)' \subseteq excused')
  <2>1. CASE Publish
    BY <2>1, LatestMoves DEF Publish, Watched
  <2>2. CASE Restart /\ ~Publish
    BY <2>2, LatestMoves DEF Restart
  <2>3. CASE ReportWatch /\ ~Publish
    <3>1. PICK a : a = call[Scheduler].answer
      OBVIOUS
    <3>2. a # None => Fingerprints(a) \subseteq 1..Latest
      BY <3>1 DEF Watched, Told, Fingerprints, Callers
    <3>3. (1..Latest)' = 1..Latest
      BY <2>3, LatestMoves
    <3> QED
      BY <2>3, <3>1, <3>2, <3>3 DEF ReportWatch, AfterRaise, Watched, watch
  <2>4. CASE ~Publish /\ ~Restart /\ ~ReportWatch
    <3>1. UNCHANGED watch
      BY <2>4 DEF Next, Environment, Tick, OtherCalls, RestartServer, Start, Ask, Program,
         Network, Join, GiveUpWaiting, Reread, Put, Land, Acquire, Limited, Expire, Lose, Return,
         Report, ReportClock, Handle, Receive, Refuse, vars
    <3> QED
      BY <2>4, <3>1, LatestMoves DEF Watched, watch
  <2> QED
    BY <2>1, <2>2, <2>3, <2>4
<1> QED
  BY <1>2, <1>3 DEF Watched

-----------------------------------------------------------------------------
(* At any time the cache holds at most MaxEntries answers, every answer    *)
(* stays inside its lifetime, the bucket inside its capacity, and whoever  *)
(* a route's flight names as its leader is really fetching that route      *)
(* (bridge/cache.py begin_flight and end_flight, put; ratelimit.py).       *)
THEOREM TypeCorrect == Spec => []TypeOK
BY InvInit, StepInv, InvImplies, PTL DEF Spec

(* Whatever the two lifetimes, the timeout and the number of callers, the  *)
(* filing that was read for an answer is younger than the two lifetimes    *)
(* and one request together, unless SEC was out of reach (bridge/cache.py  *)
(* get and put, sec_edgar_cache.py cached_fetch).  It says nothing of the  *)
(* ticker map, which the server keeps while it runs.                       *)
THEOREM AnswersFresh == Spec => []AnswersStayFresh
BY InvInit, StepInv, InvImplies, PTL DEF Spec

(* A clock that the scheduler reports as advanced was advanced; and        *)
(* however old the list that the watch is given, whichever notification    *)
(* raises and whenever a publication comes out, each fingerprint it has    *)
(* seen either had a message sent about it or was out at a moment when the *)
(* watch had seen none (bridge/schedules.py refresh_disposal_clock,        *)
(* publication_watch_job).  Whether the message arrived is not claimed.    *)
THEOREM JobsBelieved == Spec => []JobsCanBeBelieved
<1>1. Inv /\ Watched => JobsCanBeBelieved
  BY InvImplies DEF Watched, JobsCanBeBelieved, SeenWasTold
<1> QED
  BY InvInit, StepInv, WatchedInit, StepWatched, <1>1, PTL DEF Spec
=============================================================================
