------------------------------- MODULE Hub_proofs -------------------------------
(***************************************************************************)
(* Two components on the hub's side, one after the other: the one mDNS     *)
(* query of HubLink, for any hubs, channels, link drops and refused        *)
(* deletes, and Stream, for any ids, table, periods and fast lists.        *)
(***************************************************************************)
EXTENDS HubLink, Stream, SequenceTheorems, TLAPS

States == {None, "running", "done", "taken"}

Slots == {"active", "parked", "undeleted"}

Queries ==
  [active : 0 .. 2, parked : 0 .. 2, undeleted : 0 .. 2, search : [Search -> States], refusals : Nat]

\* One slot at most is taken, by the one search there is, and in a state
\* that goes with the slot.
Whole(h) ==
  /\ h \in Queries
  /\ h.active # NoSearch => h.search[h.active] \in {"running", "done"}
  /\ h.parked # NoSearch => h.search[h.parked] \in {"running", "done"}
  /\ h.undeleted # NoSearch => h.search[h.undeleted] = "taken"
  /\ h.active = NoSearch \/ (h.parked = NoSearch /\ h.undeleted = NoSearch)
  /\ h.parked = NoSearch \/ h.undeleted = NoSearch
  /\ \A q \in Search : h.search[q] # None => q \in {h.active, h.parked, h.undeleted}

\* What is known of a query that nothing owns any more.
Loose(h, q) ==
  /\ h \in Queries /\ q \in Search /\ h.search[q] # None
  /\ h.active = NoSearch /\ h.parked = NoSearch /\ h.undeleted = NoSearch
  /\ \A r \in Search : h.search[r] # None => r = q

LEMMA Retires ==
  ASSUME NEW h, NEW q, Loose(h, q), h.search[q] # "running", NEW g \in hubQueryRetire(h, q)
  PROVE  Whole(g)
<1> DEFINE freed == [h EXCEPT !.search[q] = "taken"]
<1>1. /\ freed \in Queries /\ freed.search = [h.search EXCEPT ![q] = "taken"] /\ freed.search[q] = "taken"
      /\ freed.active = NoSearch /\ freed.parked = NoSearch /\ freed.undeleted = NoSearch
      /\ \A r \in Search : freed.search[r] # None => r = q
  BY DEF Loose, Queries, States
<1> HIDE DEF freed
<1>2. CASE g \in destroy(freed, q)
  <2>1. g = [freed EXCEPT !.search[q] = None]
    BY <1>1, <1>2 DEF destroy, None
  <2>2. /\ g.search = [freed.search EXCEPT ![q] = None] /\ g.active = NoSearch /\ g.parked = NoSearch
        /\ g.undeleted = NoSearch /\ g \in Queries
    BY <1>1, <2>1 DEF Queries, States
  <2> QED
    BY <1>1, <2>2 DEF Whole, Queries, Loose
<1>3. CASE \E u \in refused(freed, q) : g = [u EXCEPT !.undeleted = q]
  <2> DEFINE kept == [freed EXCEPT !.refusals = @ + 1]
  <2>1. g = [kept EXCEPT !.undeleted = q]
    BY <1>1, <1>3 DEF refused
  <2>a. /\ kept.search = freed.search /\ kept.active = NoSearch /\ kept.parked = NoSearch
        /\ kept \in Queries
    BY <1>1 DEF Queries
  <2> HIDE DEF kept
  <2>2. /\ g.search = freed.search /\ g.active = NoSearch /\ g.parked = NoSearch
        /\ g.undeleted = q /\ g \in Queries
    BY <1>1, <2>1, <2>a DEF Queries, Loose, Search
  <2> QED
    BY <1>1, <2>2 DEF Whole, Loose, NoSearch, Search
<1> QED
  BY <1>2, <1>3 DEF hubQueryRetire, freed

LEMMA Reaps ==
  ASSUME NEW h, Whole(h), NEW g \in hubQueryReap(h)
  PROVE  Whole(g)
<1>1. PICK f \in RetryDelete(h) : g \in ReapParked(f)
  BY DEF hubQueryReap
<1>2. Whole(f)
  <2>1. CASE h.undeleted = NoSearch
    BY <1>1, <2>1 DEF RetryDelete
  <2>2. CASE h.undeleted # NoSearch
    <3>0. h.undeleted \in Search /\ h.search[h.undeleted] = "taken" /\ h.active = NoSearch /\ h.parked = NoSearch
      BY <2>2 DEF Whole, Queries, Search, NoSearch
    <3>1. CASE \E d \in destroy(h, h.undeleted) : f = [d EXCEPT !.undeleted = NoSearch]
      <4>1. f = [[h EXCEPT !.search[h.undeleted] = None] EXCEPT !.undeleted = NoSearch]
        BY <3>0, <3>1 DEF destroy, None
      <4>2. /\ f.search = [h.search EXCEPT ![h.undeleted] = None] /\ f.active = NoSearch /\ f.parked = NoSearch
            /\ f.undeleted = NoSearch /\ f \in Queries
        BY <3>0, <4>1 DEF Whole, Queries, States, NoSearch
      <4> QED
        BY <3>0, <4>2 DEF Whole, Queries
    <3>2. CASE f \in refused(h, h.undeleted)
      <4>1. f = [h EXCEPT !.refusals = @ + 1]
        BY <3>0, <3>2 DEF refused
      <4>2. /\ f.search = h.search /\ f.active = h.active /\ f.parked = h.parked
            /\ f.undeleted = h.undeleted /\ f \in Queries
        BY <4>1 DEF Whole, Queries
      <4> QED
        BY <4>2 DEF Whole
    <3> QED
      BY <1>1, <2>2, <3>1, <3>2 DEF RetryDelete
  <2> QED
    BY <2>1, <2>2
<1>3. CASE ~(f.parked # NoSearch /\ f.search[f.parked] = "done")
  BY <1>1, <1>2, <1>3 DEF ReapParked
<1>4. CASE f.parked # NoSearch /\ f.search[f.parked] = "done"
  <2> DEFINE e == [f EXCEPT !.parked = NoSearch]
  <2>1. g \in hubQueryRetire(e, f.parked)
    BY <1>1, <1>4 DEF ReapParked
  <2>2. /\ e \in Queries /\ e.search = f.search /\ e.active = f.active /\ e.undeleted = f.undeleted
        /\ e.parked = NoSearch /\ f.parked \in Search
    BY <1>2, <1>4 DEF Whole, Queries, NoSearch, Search
  <2> HIDE DEF e
  <2>3. Loose(e, f.parked) /\ e.search[f.parked] # "running"
    BY <1>2, <1>4, <2>2 DEF Whole, Loose, None, NoSearch, Search
  <2> QED
    BY <2>1, <2>3, Retires
<1> QED
  BY <1>3, <1>4

LEMMA Releases ==
  ASSUME NEW h, Whole(h), h.active # NoSearch, h.search[h.active] = "done",
         NEW g \in hubQueryRetire([h EXCEPT !.active = NoSearch], h.active)
  PROVE  Whole(g)
<1> DEFINE e == [h EXCEPT !.active = NoSearch]
<1>1. /\ e \in Queries /\ e.search = h.search /\ e.active = NoSearch /\ e.undeleted = h.undeleted
      /\ e.parked = h.parked /\ h.active \in Search
  BY DEF Whole, Queries, NoSearch, Search
<1>2. g \in hubQueryRetire(e, h.active)
  OBVIOUS
<1> HIDE DEF e
<1>3. Loose(e, h.active) /\ e.search[h.active] # "running"
  BY <1>1 DEF Whole, Loose, None, NoSearch, Search
<1> QED
  BY <1>2, <1>3, Retires

LEMMA Cancels ==
  ASSUME NEW h, Whole(h), NEW g \in hubQueryCancel(h)
  PROVE  Whole(g)
<1>1. CASE h.active = NoSearch
  BY <1>1 DEF hubQueryCancel
<1>2. CASE h.active # NoSearch /\ h.search[h.active] = "done"
  <2>1. g \in hubQueryRetire([h EXCEPT !.active = NoSearch], h.active)
    BY <1>2 DEF hubQueryCancel
  <2> QED
    BY <1>2, <2>1, Releases
<1>3. CASE h.active # NoSearch /\ h.search[h.active] # "done"
  <2>1. g = [[h EXCEPT !.active = NoSearch] EXCEPT !.parked = h.active]
    BY <1>3 DEF hubQueryCancel
  <2>2. /\ g \in Queries /\ g.search = h.search /\ g.active = NoSearch /\ g.parked = h.active
        /\ g.undeleted = h.undeleted
    BY <2>1 DEF Whole, Queries, NoSearch
  <2> QED
    BY <1>3, <2>2 DEF Whole
<1> QED
  BY <1>1, <1>2, <1>3

LEMMA Starts ==
  ASSUME NEW h, Whole(h), ~hubQueryBusy(h)
  PROVE  Whole(hubQueryStart(h, CHOOSE q \in Search : h.search[q] = None))
<1>1. h.active = NoSearch /\ h.parked = NoSearch /\ h.undeleted = NoSearch
  BY DEF hubQueryBusy
<1>2. h.search[1] = None
  BY <1>1 DEF Whole, Queries, Search, NoSearch
<1> DEFINE q == CHOOSE r \in Search : h.search[r] = None
<1>3. q \in Search /\ h.search[q] = None
  BY <1>2 DEF Search
<1> HIDE DEF q
<1> DEFINE begun == [h EXCEPT !.search[q] = "running"]
<1> DEFINE g == hubQueryStart(h, q)
<1>4. g = [begun EXCEPT !.active = q]
  BY DEF hubQueryStart
<1>a. /\ begun \in Queries /\ begun.search = [h.search EXCEPT ![q] = "running"]
      /\ begun.parked = NoSearch /\ begun.undeleted = NoSearch
  BY <1>1, <1>3 DEF Whole, Queries, States
<1> HIDE DEF begun, g
<1>5. /\ g \in Queries /\ g.search = [h.search EXCEPT ![q] = "running"] /\ g.active = q
      /\ g.parked = NoSearch /\ g.undeleted = NoSearch
  BY <1>3, <1>4, <1>a DEF Queries, Search
<1>6. Whole(g)
  BY <1>1, <1>3, <1>5 DEF Whole, Queries, Search, NoSearch
<1> QED
  BY <1>6 DEF g, q

LEMMA Asks ==
  ASSUME NEW h, Whole(h), hubResolveLoop(h)
  PROVE  Whole(queries')
<1>1. CASE Answered(h)
  BY <1>1, Releases DEF Answered
<1>2. CASE QueryStarts(h)
  BY <1>2, Starts DEF QueryStarts
<1>3. CASE StartFails(h) \/ AsksLater(h)
  BY <1>3 DEF StartFails, AsksLater
<1> QED
  BY <1>1, <1>2, <1>3 DEF hubResolveLoop

LEMMA Ends ==
  ASSUME Whole(queries), NEW found, Finishes(found)
  PROVE  Whole(queries')
<1>1. PICK q \in Search : queries.search[q] = "running" /\ queries' = [queries EXCEPT !.search[q] = "done"]
  BY DEF Finishes
<1>2. /\ queries' \in Queries /\ queries'.search = [queries.search EXCEPT ![q] = "done"]
      /\ queries'.active = queries.active /\ queries'.parked = queries.parked
      /\ queries'.undeleted = queries.undeleted
  BY <1>1 DEF Whole, Queries, States
<1> QED
  BY <1>1, <1>2 DEF Whole, Queries, None

\* Every step of a pass works on what the reap left.
LEMMA Passes ==
  ASSUME NEW h, Whole(h),
         \/ JoinRadio(h) \/ JoinBegin(h) \/ SeesLink(h) \/ JoinTimesOut(h)
         \/ LeaveSta(h) \/ ApRadio(h) \/ ApServe(h)
         \/ FallsBack(h) \/ StaysOnHub(h)
         \/ ScanFinds(h) \/ ScanMisses(h) \/ NothingDue(h)
         \/ ScanStarts(h, Covered(scan)) \/ ScanStarts(h, {})
  PROVE  Whole(queries')
<1>1. CASE JoinRadio(h) \/ JoinBegin(h) \/ SeesLink(h) \/ JoinTimesOut(h)
  BY <1>1 DEF JoinRadio, JoinBegin, SeesLink, JoinTimesOut
<1>2. CASE LeaveSta(h) \/ ApRadio(h) \/ ApServe(h)
  BY <1>2 DEF LeaveSta, ApRadio, ApServe
<1>3. CASE FallsBack(h)
  BY <1>3, Cancels DEF FallsBack, fallBackToAp, hubResolveLinkDown
<1>4. CASE StaysOnHub(h)
  BY <1>4, Asks DEF StaysOnHub
<1>5. CASE ScanFinds(h) \/ ScanMisses(h) \/ NothingDue(h)
  BY <1>5 DEF ScanFinds, ScanMisses, NothingDue
<1>6. CASE ScanStarts(h, Covered(scan)) \/ ScanStarts(h, {})
  BY <1>6 DEF ScanStarts
<1> QED
  BY <1>1, <1>2, <1>3, <1>4, <1>5, <1>6

LEMMA StepKeepsWhole ==
  ASSUME Whole(queries), [Next]_vars
  PROVE  Whole(queries')
<1>1. CASE Joined
  BY <1>1 DEF Joined
<1>2. CASE hublinkLoop /\ ~Joined
  BY <1>2, Reaps, Passes DEF hublinkLoop
<1>3. CASE onWifiEvent \/ Associates \/ LinkLost
  BY <1>3 DEF onWifiEvent, Associates, LinkLost, others, resolveVars
<1>4. CASE KeyW
  BY <1>4 DEF KeyW, resolveVars
<1>5. CASE HubMoves
  BY <1>5 DEF HubMoves
<1>6. CASE HubAnswers \/ NoAnswer
  BY <1>6, Ends DEF HubAnswers, NoAnswer
<1>7. CASE Request
  BY <1>7 DEF Request, hubResolveNoteRequest
<1>8. CASE Tick
  BY <1>8 DEF Tick, ResolveTick
<1>9. CASE UNCHANGED vars
  BY <1>9 DEF vars, resolveVars
<1> QED
  BY <1>1, <1>2, <1>3, <1>4, <1>5, <1>6, <1>7, <1>8, <1>9 DEF Next

LEMMA WholeIsOwned == Whole(queries) => SearchOwned
<1> SUFFICES ASSUME Whole(queries) PROVE SearchOwned
  OBVIOUS
<1>1. \A q \in Search : queries.search[q] \in States /\ q # NoSearch
  BY DEF Whole, Queries, Search, NoSearch
<1>2. \A q \in Search : queries.search[q] # "freed twice"
  BY <1>1 DEF States, None
<1>3. \A q \in Search : queries.search[q] = None => Owners(q) = {}
  BY <1>1 DEF Whole, Owners, None
<1>4. \A q \in Search : queries.search[q] # None => \E slot \in Owners(q) : Owners(q) = {slot}
  <2> SUFFICES ASSUME NEW q \in Search, queries.search[q] # None
               PROVE  \E slot \in Owners(q) : Owners(q) = {slot}
    OBVIOUS
  <2>1. q \in {queries.active, queries.parked, queries.undeleted} /\ q # NoSearch
    BY <1>1 DEF Whole
  <2>2. CASE q = queries.active
    <3>1. Owners(q) = {"active"}
      BY <2>1, <2>2 DEF Whole, Owners
    <3> QED
      BY <3>1
  <2>3. CASE q = queries.parked
    <3>1. Owners(q) = {"parked"}
      BY <2>1, <2>3 DEF Whole, Owners
    <3> QED
      BY <3>1
  <2>4. CASE q = queries.undeleted
    <3>1. Owners(q) = {"undeleted"}
      BY <2>1, <2>4 DEF Whole, Owners
    <3> QED
      BY <3>1
  <2> QED
    BY <2>1, <2>2, <2>3, <2>4
<1>5. \A q, r \in Search : queries.search[q] # None /\ queries.search[r] # None => q = r
  BY <1>1 DEF Whole
<1> QED
  BY <1>2, <1>3, <1>4, <1>5 DEF SearchOwned

(* A search belongs to exactly one of active, parked and undeleted until   *)
(* it is deleted, once, and there is never a second one (hubquery.h:24).   *)
THEOREM OneSearchOneOwner == Spec => []SearchOwned
<1>1. Init => Whole(queries)
  <2> SUFFICES ASSUME Init PROVE Whole(queries)
    OBVIOUS
  <2>1. queries = [active |-> NoSearch, parked |-> NoSearch, undeleted |-> NoSearch,
                   search |-> [q \in Search |-> None], refusals |-> 0]
    BY DEF Init, InitResolve
  <2>2. /\ queries.active = NoSearch /\ queries.parked = NoSearch /\ queries.undeleted = NoSearch
        /\ queries.search = [q \in Search |-> None] /\ queries \in Queries
    BY <2>1 DEF Queries, States, NoSearch
  <2> QED
    BY <2>2 DEF Whole
<1>2. Whole(queries) /\ [Next]_vars => Whole(queries)'
  BY StepKeepsWhole
<1> QED
  BY <1>1, <1>2, WholeIsOwned, PTL DEF Spec

-----------------------------------------------------------------------------
\* The schedule of the query, while no link is so old that its clock wraps.
Scheds ==
  [armed : BOOLEAN, inflight : BOOLEAN, dueIn : Int, since : 0 .. MinGap, ever : BOOLEAN, fails : Int]

Soon(s) ==
  /\ s \in Scheds
  /\ s.dueIn <= BackoffMax \/ s.dueIn <= MinGap

LEMMA Times ==
  /\ MinGap \in Nat /\ BackoffBase \in Nat /\ BackoffMax \in Nat
  /\ Wrap \in Nat /\ MinGap < Wrap \div 2
BY ResolveAssumption

LEMMA GapIsShort ==
  ASSUME NEW since \in 0 .. MinGap
  PROVE  AtLeast0(Signed(MinGap - since)) \in 0 .. MinGap
<1>1. MinGap - since \in 0 .. MinGap /\ MinGap < Wrap /\ Wrap > 0
  BY Times
<1>2. (MinGap - since) % Wrap = MinGap - since
  BY <1>1, Times
<1>3. Signed(MinGap - since) = MinGap - since
  BY <1>1, <1>2, Times DEF Signed
<1> QED
  BY <1>1, <1>3, Times DEF AtLeast0

LEMMA ResetSoon == Soon(hubResolveReset)
BY Times DEF Soon, Scheds, hubResolveReset

LEMMA KickSoon ==
  ASSUME NEW s, Soon(s)
  PROVE  Soon(hubResolveKick(s))
<1> DEFINE at == IF s.ever /\ Signed(s.since) < MinGap THEN AtLeast0(Signed(MinGap - s.since)) ELSE 0
<1>1. at \in 0 .. MinGap
  BY GapIsShort, Times DEF Soon, Scheds
<1> HIDE DEF at
<1>2. CASE s.inflight \/ (s.armed /\ s.fails > 0)
  BY <1>2 DEF hubResolveKick
<1>3. CASE ~(s.inflight \/ (s.armed /\ s.fails > 0))
  <2> DEFINE due == IF ~s.armed \/ at < s.dueIn THEN at ELSE s.dueIn
  <2>1. hubResolveKick(s) = [s EXCEPT !.armed = TRUE, !.dueIn = due]
    BY <1>3 DEF hubResolveKick, at
  <2>2. due \in Int /\ (due <= BackoffMax \/ due <= MinGap)
    BY <1>1, Times DEF Soon, Scheds
  <2> HIDE DEF due
  <2> QED
    BY <2>1, <2>2 DEF Soon, Scheds
<1> QED
  BY <1>2, <1>3

LEMMA StartedSoon ==
  ASSUME NEW s, Soon(s)
  PROVE  Soon(hubResolveStarted(s))
<1> DEFINE g == hubResolveStarted(s)
<1>1. g = [s EXCEPT !.inflight = TRUE, !.armed = FALSE, !.since = 0, !.ever = TRUE]
  BY DEF hubResolveStarted
<1>2. 0 \in 0 .. MinGap
  BY Times
<1>3. g.dueIn = s.dueIn /\ g \in Scheds
  BY <1>1, <1>2 DEF Soon, Scheds
<1> QED
  BY <1>3 DEF Soon, Scheds

LEMMA FinishedSoon ==
  ASSUME NEW s, Soon(s), NEW ok \in BOOLEAN
  PROVE  Soon(hubResolveFinished(s, ok))
<1>1. CASE ok
  <2> DEFINE idle == [s EXCEPT !.inflight = FALSE, !.armed = FALSE]
             g == [idle EXCEPT !.fails = 0]
  <2>1. hubResolveFinished(s, ok) = g
    BY <1>1 DEF hubResolveFinished, Soon, Scheds
  <2>2. idle.dueIn = s.dueIn /\ idle \in Scheds
    BY DEF Soon, Scheds
  <2> HIDE DEF idle
  <2>3. g.dueIn = idle.dueIn /\ g \in Scheds
    BY <2>2 DEF Scheds
  <2> HIDE DEF g
  <2> QED
    BY <2>1, <2>2, <2>3 DEF Soon
<1>2. CASE ~ok
  <2> DEFINE f == IF s.fails < MaxFails THEN s.fails + 1 ELSE s.fails
             due == hubResolveBackoffMs(f)
  <2>1. hubResolveFinished(s, ok) =
          [s EXCEPT !.inflight = FALSE, !.armed = TRUE, !.fails = f, !.dueIn = due]
    BY <1>2 DEF hubResolveFinished
  <2>2. f \in Int
    BY DEF Soon, Scheds
  <2> HIDE DEF f
  <2>3. due \in Int /\ due <= BackoffMax
    <3>1. 2 ^ (f - 1) \in Int
      BY <2>2
    <3> QED
      BY <2>2, <3>1, Times DEF hubResolveBackoffMs
  <2> HIDE DEF due
  <2> QED
    BY <2>1, <2>2, <2>3 DEF Soon, Scheds
<1> QED
  BY <1>1, <1>2

LEMMA AskSoon ==
  ASSUME Soon(sched), NEW h, hubResolveLoop(h)
  PROVE  Soon(sched')
<1>1. Soon(Kicked)
  BY KickSoon DEF Kicked
<1>2. CASE Answered(h)
  BY <1>2, FinishedSoon DEF Answered
<1>3. CASE QueryStarts(h)
  BY <1>1, <1>3, StartedSoon DEF QueryStarts
<1>4. CASE StartFails(h)
  BY <1>1, <1>4, StartedSoon, FinishedSoon DEF StartFails
<1>5. CASE AsksLater(h)
  BY <1>1, <1>5 DEF AsksLater
<1> QED
  BY <1>2, <1>3, <1>4, <1>5 DEF hubResolveLoop

LEMMA PassKeepsSoon ==
  ASSUME Soon(sched), NEW h,
         \/ JoinRadio(h) \/ JoinBegin(h) \/ SeesLink(h) \/ JoinTimesOut(h)
         \/ LeaveSta(h) \/ ApRadio(h) \/ ApServe(h)
         \/ FallsBack(h) \/ StaysOnHub(h)
         \/ ScanFinds(h) \/ ScanMisses(h) \/ NothingDue(h)
         \/ ScanStarts(h, Covered(scan)) \/ ScanStarts(h, {})
  PROVE  Soon(sched')
<1>1. CASE JoinRadio(h) \/ JoinBegin(h) \/ JoinTimesOut(h)
  BY <1>1 DEF JoinRadio, JoinBegin, JoinTimesOut, resolving
<1>2. CASE LeaveSta(h) \/ ApRadio(h) \/ ApServe(h)
  BY <1>2 DEF LeaveSta, ApRadio, ApServe, resolving
<1>3. CASE FallsBack(h)
  BY <1>3, ResetSoon DEF FallsBack, fallBackToAp, hubResolveLinkDown
<1>4. CASE StaysOnHub(h)
  BY <1>4, AskSoon DEF StaysOnHub
<1>5. CASE ScanFinds(h) \/ ScanMisses(h) \/ NothingDue(h)
  BY <1>5 DEF ScanFinds, ScanMisses, NothingDue, resolving
<1>6. CASE ScanStarts(h, Covered(scan)) \/ ScanStarts(h, {})
  BY <1>6 DEF ScanStarts, resolving
<1>7. CASE SeesLink(h)
  <2>1. sched' = IF mdns' = "ok" THEN hubResolveKick(hubResolveReset) ELSE sched
    BY <1>7 DEF SeesLink, hubResolveLinkUp
  <2> QED
    BY <2>1, ResetSoon, KickSoon
<1> QED
  BY <1>1, <1>2, <1>3, <1>4, <1>5, <1>6, <1>7

LEMMA StepKeepsSoon ==
  ASSUME ~LongUp, Soon(sched), [Next]_vars
  PROVE  Soon(sched')
<1>1. CASE Joined
  BY <1>1 DEF Joined, resolving
<1>2. CASE hublinkLoop /\ ~Joined
  BY <1>2, PassKeepsSoon DEF hublinkLoop
<1>3. CASE onWifiEvent \/ Associates \/ LinkLost
  BY <1>3 DEF onWifiEvent, Associates, LinkLost, others, resolveVars
<1>4. CASE KeyW
  BY <1>4 DEF KeyW, resolveVars
<1>5. CASE HubMoves
  BY <1>5 DEF HubMoves
<1>6. CASE HubAnswers \/ NoAnswer
  BY <1>6 DEF HubAnswers, NoAnswer, Finishes
<1>7. CASE Request
  BY <1>7, KickSoon DEF Request, hubResolveNoteRequest
<1>8. CASE Tick
  <2> DEFINE older == IF sched.ever THEN Older(sched.since) ELSE sched.since
             due == AtLeast0(sched.dueIn - 1)
  <2>1. sched' = [sched EXCEPT !.dueIn = due, !.since = older]
    BY <1>8 DEF Tick, ResolveTick
  <2>2. older \in 0 .. MinGap
    BY Times DEF Soon, Scheds, Older, Capped
  <2>3. due \in Int /\ (due <= BackoffMax \/ due <= MinGap)
    BY Times DEF Soon, Scheds, AtLeast0
  <2> HIDE DEF older, due
  <2> QED
    BY <2>1, <2>2, <2>3 DEF Soon, Scheds
<1>9. CASE UNCHANGED vars
  BY <1>9 DEF vars, resolveVars
<1> QED
  BY <1>1, <1>2, <1>3, <1>4, <1>5, <1>6, <1>7, <1>8, <1>9 DEF Next

(* While the clock does not wrap under the age of the last query, a query  *)
(* that is wanted starts within the longest backoff or the minimal gap     *)
(* (hubaddr.h:15).                                                         *)
THEOREM AsksInTime ==
  ASSUME ~LongUp
  PROVE  Spec => []AsksSoon
<1>1. Init => Soon(sched)
  BY ResetSoon DEF Init, InitResolve
<1>2. Soon(sched) /\ [Next]_vars => Soon(sched)'
  BY StepKeepsSoon
<1>3. Soon(sched) => AsksSoon
  BY DEF Soon, AsksSoon
<1> QED
  BY <1>1, <1>2, <1>3, PTL DEF Spec

(***************************************************************************)
(* Stream.                                                                 *)
(***************************************************************************)
Plans == {<<>>, <<"full">>, <<"fast">>, <<"snap">>, <<"fast", "snap">>}

Rows == [id : Ids, age : 0 .. Half]

TimesOK ==
  /\ snap \in 0 .. Half /\ fast \in 0 .. Zero
  /\ dueSnap \in 0 .. SnapPeriod /\ dueFast \in 0 .. FastPeriod /\ late \in 0 .. MaxLate

StreamTypeOK == slots \in Seq(Rows) /\ TimesOK /\ todo \in Plans

(* No id has two slots, and what the hub may lack is in the table.         *)
TableInv ==
  /\ \A i, j \in DOMAIN slots : slots[i].id = slots[j].id => i = j
  /\ stale \subseteq Known /\ raced \subseteq stale /\ lost \subseteq Known

PassInv ==
  /\ ~began => wantFull
  /\ todo # <<>> => onHub /\ began
  /\ wantFull /\ todo # <<>> => todo = <<"full">>
  /\ todo = <<"full">> => wantFull
  /\ todo \in {<<"snap">>, <<"fast", "snap">>} => dueSnap = 0

(* How old a change can be that is in no list yet.                         *)
Oldest ==
  IF dueSnap > 0 THEN SnapPeriod - dueSnap
  ELSE IF todo = <<>> THEN SnapPeriod + MaxLate - 1 + late
  ELSE IF todo = <<"fast">> THEN SnapPeriod - 1 + late
  ELSE SnapPeriod + 2 * MaxLate - 1 + late

Lacks == {i \in DOMAIN slots : slots[i].id \in stale \ raced}

LackInv ==
  onHub /\ ~wantFull => \A i \in Lacks : Newer(slots[i], snap) /\ slots[i].age <= Oldest

LEMMA StreamConstants ==
  /\ MaxLate \in Nat /\ FastPeriod \in Nat /\ SnapPeriod \in Nat /\ Half \in Nat /\ MaxLate > 0
  /\ MaxLate <= FastPeriod /\ FastPeriod <= SnapPeriod /\ Half >= SnapPeriod + 3 * MaxLate
BY StreamAssumption

(* What a pass plans, and what is left of a plan.                          *)
LEMMA Planned ==
  /\ Plan \in Plans
  /\ wantFull <=> Plan = <<"full">>
  /\ Plan \in {<<"snap">>, <<"fast", "snap">>} => SnapDue
  /\ Plan \in {<<>>, <<"fast">>} => ~SnapDue
<1>1. CASE wantFull
  BY <1>1 DEF Plan, Plans
<1>2. CASE ~wantFull /\ FastDue /\ SnapDue
  <2>1. Plan = <<"fast">> \o <<"snap">>
    BY <1>2 DEF Plan
  <2>2. <<"fast">> \o <<"snap">> = <<"fast", "snap">>
    <3> DEFINE S == {"fast", "snap"}
    <3>1. <<"fast">> \in Seq(S) /\ <<"snap">> \in Seq(S) /\ <<"fast", "snap">> \in Seq(S)
      OBVIOUS
    <3>2. Len(<<"fast">>) = 1 /\ Len(<<"snap">>) = 1 /\ Len(<<"fast", "snap">>) = 2
      OBVIOUS
    <3> HIDE DEF S
    <3>3. /\ <<"fast">> \o <<"snap">> \in Seq(S)
          /\ Len(<<"fast">> \o <<"snap">>) = 2
          /\ \A i \in 1 .. 2 : (<<"fast">> \o <<"snap">>)[i] =
                 IF i <= Len(<<"fast">>) THEN <<"fast">>[i] ELSE <<"snap">>[i - Len(<<"fast">>)]
      BY <3>1, <3>2, ConcatProperties
    <3>4. \A i \in 1 .. 2 : (<<"fast">> \o <<"snap">>)[i] = <<"fast", "snap">>[i]
      <4>1. 1 .. 2 = {1, 2}
        OBVIOUS
      <4>2. <<"fast">>[1] = <<"fast", "snap">>[1] /\ <<"snap">>[1] = <<"fast", "snap">>[2]
        OBVIOUS
      <4> QED
        BY <3>2, <3>3, <4>1, <4>2
    <3> QED
      BY <3>1, <3>2, <3>3, <3>4, SeqEqual
  <2> QED
    BY <1>2, <2>1, <2>2 DEF Plans
<1>3. CASE ~wantFull /\ FastDue /\ ~SnapDue
  <2>1. Plan = <<"fast">>
    BY <1>3 DEF Plan
  <2> QED
    BY <1>3, <2>1 DEF Plans
<1>4. CASE ~wantFull /\ ~FastDue /\ SnapDue
  <2>1. Plan = <<"snap">>
    BY <1>4 DEF Plan
  <2> QED
    BY <1>4, <2>1 DEF Plans
<1>5. CASE ~wantFull /\ ~FastDue /\ ~SnapDue
  <2>1. Plan = <<>>
    BY <1>5 DEF Plan
  <2> QED
    BY <1>5, <2>1 DEF Plans
<1> QED
  BY <1>1, <1>2, <1>3, <1>4, <1>5

LEMMA Doings ==
  ASSUME todo \in Plans
  PROVE  /\ Doing("full") => todo = <<"full">> /\ Tail(todo) = <<>>
         /\ Doing("fast") => \/ todo = <<"fast">> /\ Tail(todo) = <<>>
                             \/ todo = <<"fast", "snap">> /\ Tail(todo) = <<"snap">>
         /\ Doing("snap") => todo = <<"snap">> /\ Tail(todo) = <<>>
<1>1. Head(<<"full">>) = "full" /\ Tail(<<"full">>) = <<>>
  OBVIOUS
<1>2. Head(<<"fast">>) = "fast" /\ Tail(<<"fast">>) = <<>>
  OBVIOUS
<1>3. Head(<<"snap">>) = "snap" /\ Tail(<<"snap">>) = <<>>
  OBVIOUS
<1>4. Head(<<"fast", "snap">>) = "fast" /\ Tail(<<"fast", "snap">>) = <<"snap">>
  OBVIOUS
<1>5. CASE todo = <<"fast", "snap">>
  BY <1>4, <1>5 DEF Doing
<1>6. CASE todo = <<"full">>
  BY <1>1, <1>6 DEF Doing
<1>8. CASE todo = <<"fast">>
  <2>1. Head(todo) = "fast" /\ Tail(todo) = <<>>
    BY <1>2, <1>8
  <2>2. ~Doing("full") /\ ~Doing("snap")
    BY <2>1 DEF Doing
  <2> QED
    BY <1>8, <2>1, <2>2, Zenon
<1>9. CASE todo = <<"snap">>
  BY <1>3, <1>9 DEF Doing
<1>7. CASE todo = <<>>
  BY <1>7 DEF Doing
<1> QED
  BY <1>5, <1>6, <1>7, <1>8, <1>9 DEF Plans

(* A send lists the rows that were picked and no other, and loses none     *)
(* without a gap in the numbers.                                           *)
LEMMA SentRows ==
  ASSUME NEW rows, NEW full \in BOOLEAN, sendRows(rows, full)
  PROVE  /\ stale' = stale \ {slots[i].id : i \in rows}
         /\ raced' = raced \ {slots[i].id : i \in rows}
         /\ lost' \subseteq lost \cup {slots[i].id : i \in rows}
         /\ ~skipped' => /\ full \/ ~skipped
                         /\ lost' = lost \ {slots[i].id : i \in rows}
<1>1. PICK out \in SUBSET rows :
        /\ hubChunkRows(out, rows, full)
        /\ stale' = stale \ {slots[i].id : i \in rows}
        /\ raced' = raced \ {slots[i].id : i \in rows}
        /\ lost' = (lost \cup {slots[i].id : i \in rows}) \ {slots[i].id : i \in out}
  BY DEF sendRows
<1>2. skipped' <=> (out # rows \/ (skipped /\ ~full))
  BY <1>1 DEF hubChunkRows
<1>3. ~skipped' => out = rows /\ (full \/ ~skipped)
  BY <1>2
<1> QED
  BY <1>1, <1>3

(* Types.                                                                  *)
LEMMA StreamTypeInit == StreamInit => StreamTypeOK
<1> SUFFICES ASSUME StreamInit PROVE StreamTypeOK
  OBVIOUS
<1>1. slots \in Seq(Rows)
  BY EmptySeq DEF StreamInit
<1>2. TimesOK
  BY StreamConstants DEF StreamInit, TimesOK, Zero
<1>3. todo \in Plans
  BY DEF StreamInit, Plans
<1> QED
  BY <1>1, <1>2, <1>3 DEF StreamTypeOK

LEMMA ForgetTimes ==
  ASSUME Forget, late' \in 0 .. MaxLate
  PROVE  TimesOK'
BY StreamConstants DEF Forget, TimesOK, Zero

LEMMA DoneTypes ==
  ASSUME StreamTypeOK, NEW what \in {"full", "fast", "snap"}, Doing(what), Done
  PROVE  todo' \in Plans /\ late' \in 0 .. MaxLate /\ (todo' # <<>> => late' = late)
<1>1. Tail(todo) \in {<<>>, <<"snap">>}
  BY Doings DEF StreamTypeOK
<1>2. todo' \in Plans
  BY <1>1 DEF Done, Plans
<1> QED
  BY <1>2, StreamConstants DEF Done, StreamTypeOK, TimesOK

LEMMA StreamTypeStep == StreamTypeOK /\ [StreamNext]_streamVars => StreamTypeOK'
<1> SUFFICES ASSUME StreamTypeOK, [StreamNext]_streamVars
             PROVE  StreamTypeOK'
  OBVIOUS
<1>t. slots \in Seq(Rows) /\ TimesOK /\ todo \in Plans
  BY DEF StreamTypeOK
<1>k. /\ 0 \in 0 .. SnapPeriod /\ 0 \in 0 .. FastPeriod /\ 0 \in 0 .. MaxLate /\ Zero \in 0 .. Zero
      /\ \A n \in 0 .. MaxLate : n \in 0 .. Half /\ n \in 0 .. Zero
                               /\ SnapPeriod - n \in 0 .. SnapPeriod /\ FastPeriod - n \in 0 .. FastPeriod
  BY StreamConstants DEF Zero
<1>1. ASSUME NEW id \in Ids, snifferNote(id) PROVE StreamTypeOK'
  <2> DEFINE row == [id |-> id, age |-> 0]
  <2>1. row \in Rows
    BY StreamConstants DEF Rows
  <2> HIDE DEF row
  <2>2. CASE id \in Known
    <3>1. slots' = [slots EXCEPT ![Slot(id)] = row]
      BY <1>1, <2>2 DEF snifferNote, row
    <3>2. Slot(id) \in 1 .. Len(slots)
      BY <2>2, <1>t, LenProperties DEF Slot, Known
    <3>3. slots' \in Seq(Rows)
      BY <3>1, <3>2, <2>1, <1>t, ExceptSeq
    <3> QED
      BY <1>1, <1>t, <3>3 DEF snifferNote, StreamTypeOK, TimesOK, times, pass
  <2>3. CASE id \notin Known
    <3>1. slots' = Append(slots, row)
      BY <1>1, <2>3 DEF snifferNote, row
    <3>3. slots' \in Seq(Rows)
      BY <3>1, <2>1, <1>t, AppendProperties
    <3> QED
      BY <1>1, <1>t, <3>3 DEF snifferNote, StreamTypeOK, TimesOK, times, pass
  <2> QED
    BY <2>2, <2>3
<1>2. CASE OffHub
  BY <1>2, <1>k, <1>t, ForgetTimes DEF OffHub, hubstreamRequestFullSnapshot, StreamTypeOK
<1>3. CASE BeginPass
  BY <1>3, <1>k, <1>t, Planned DEF BeginPass, StreamTypeOK, TimesOK, table, times
<1>4. CASE SendFull
  BY <1>4, <1>k, <1>t, DoneTypes DEF SendFull, StreamTypeOK, TimesOK, times, Now
<1>5. CASE SendFast
  BY <1>5, <1>k, <1>t, DoneTypes DEF SendFast, StreamTypeOK, TimesOK, stream, Now
<1>6. CASE SendSnapshot
  BY <1>6, <1>k, <1>t, DoneTypes DEF SendSnapshot, StreamTypeOK, TimesOK, stream, Now
<1>7. CASE AskFast
  BY <1>7, <1>k, <1>t DEF AskFast, hubstreamSetFastIds, StreamTypeOK, TimesOK, table, stream, pass
<1>8. CASE ResetTable
  BY <1>8, <1>t, EmptySeq DEF ResetTable, snifferReset, StreamTypeOK, TimesOK, stream, times, pass
<1>9. CASE applyMode
  BY <1>9, <1>k, <1>t, EmptySeq DEF applyMode, snifferReset, StreamTypeOK, TimesOK, stream, pass
<1>10. CASE sessionTick
  BY <1>10, <1>t, ForgetTimes DEF sessionTick, hubstreamRequestFullSnapshot, StreamTypeOK, TimesOK, pass
<1>11. CASE LinkChanges
  BY <1>11, <1>t, ForgetTimes DEF LinkChanges, StreamTypeOK, TimesOK, pass
<1>12. CASE ClockTicks
  <2>1. \A age \in 0 .. Half : Later(age) \in 0 .. Half
    BY StreamConstants DEF Later
  <2>2. \A i \in 1 .. Len(slots) : Aged(slots[i]) \in Rows
    <3>1. ASSUME NEW i \in 1 .. Len(slots) PROVE Aged(slots[i]) \in Rows
      <4>1. slots[i] \in Rows
        BY <1>t, ElementOfSeq
      <4> QED
        BY <4>1, <2>1, StreamConstants DEF Aged, Rows
    <3> QED
      BY <3>1
  <2>3. slots' \in Seq(Rows)
    <3>1. Len(slots) \in Nat /\ DOMAIN slots = 1 .. Len(slots)
      BY <1>t, LenProperties
    <3>2. slots' \in [1 .. Len(slots) -> Rows]
      BY <1>12, <2>2, <3>1 DEF ClockTicks
    <3> QED
      BY <3>1, <3>2, SeqDef
  <2>4. snap' \in 0 .. Half
    BY <1>12, <1>t, <2>1, StreamConstants DEF ClockTicks, TimesOK
  <2>5. fast' \in 0 .. Zero
    <3>1. fast # Zero => fast \in 0 .. Half
      BY <1>t, StreamConstants DEF TimesOK, Zero
    <3>2. \A n \in 0 .. Half : n \in 0 .. Zero
      BY StreamConstants DEF Zero
    <3>3. Half \in 0 .. Half
      BY StreamConstants
    <3>4. Later(Zero) = Zero
      BY StreamConstants DEF Later, Zero
    <3> QED
      BY <1>12, <1>k, <1>t, <2>1, <3>1, <3>2, <3>3, <3>4 DEF ClockTicks
  <2>6. dueSnap' \in 0 .. SnapPeriod /\ dueFast' \in 0 .. FastPeriod /\ late' \in 0 .. MaxLate
    BY <1>12, <1>t, StreamConstants DEF ClockTicks, Sooner, TimesOK
  <2> QED
    BY <1>12, <1>t, <2>3, <2>4, <2>5, <2>6 DEF ClockTicks, StreamTypeOK, TimesOK
<1>14. CASE snifferClearMarks \/ \E id \in Ids : Resized(id)
  BY <1>14, <1>t DEF snifferClearMarks, Resized, StreamTypeOK, TimesOK, times, pass
<1>13. CASE UNCHANGED streamVars
  BY <1>13, <1>t DEF streamVars, StreamTypeOK, TimesOK
<1> QED
  BY <1>1, <1>2, <1>3, <1>4, <1>5, <1>6, <1>7, <1>8, <1>9, <1>10, <1>11, <1>12, <1>13, <1>14
     DEF StreamNext, hubstreamLoop

(* The table.                                                              *)
LEMMA SentTable ==
  ASSUME NEW rows \in SUBSET DOMAIN slots, NEW full \in BOOLEAN, sendRows(rows, full), TableInv,
         UNCHANGED slots
  PROVE  TableInv'
<1>1. {slots[i].id : i \in rows} \subseteq Known
  BY DEF Known
<1>2. Known' = Known
  BY DEF Known
<1>3. stale' \subseteq Known /\ raced' \subseteq stale' /\ lost' \subseteq Known
  BY <1>1, SentRows DEF TableInv
<1> QED
  BY <1>2, <1>3 DEF TableInv

LEMMA PickedRows ==
  ASSUME NEW mark, NEW ids
  PROVE  snifferRowsChangedSince(mark) \in SUBSET DOMAIN slots /\ snifferRowsForIds(ids, mark) \in SUBSET DOMAIN slots
BY DEF snifferRowsChangedSince, snifferRowsForIds

LEMMA TableStep == StreamTypeOK /\ TableInv /\ [StreamNext]_streamVars => TableInv'
<1> SUFFICES ASSUME StreamTypeOK, TableInv, [StreamNext]_streamVars
             PROVE  TableInv'
  OBVIOUS
<1>t. slots \in Seq(Rows) /\ Len(slots) \in Nat /\ DOMAIN slots = 1 .. Len(slots)
  BY LenProperties DEF StreamTypeOK
<1>r. ASSUME snifferReset PROVE TableInv'
  BY <1>r DEF snifferReset, TableInv, Known
<1>f. ASSUME Forget, UNCHANGED slots PROVE TableInv'
  BY <1>f DEF Forget, TableInv, Known
<1>u. ASSUME UNCHANGED table PROVE TableInv'
  BY <1>u DEF table, TableInv, Known
<1>n. ASSUME Nothing, UNCHANGED slots PROVE TableInv'
  BY <1>n DEF Nothing, TableInv, Known
<1>1. ASSUME NEW id \in Ids, snifferNote(id) PROVE TableInv'
  <2> DEFINE row == [id |-> id, age |-> 0]
  <2>1. row.id = id /\ row.age = 0
    OBVIOUS
  <2> HIDE DEF row
  <2>4. stale' = stale \cup {id} /\ raced' \subseteq raced \cup {id} /\ lost' \subseteq lost
    BY <1>1 DEF snifferNote
  <2>2. CASE id \in Known
    <3>1. slots' = [slots EXCEPT ![Slot(id)] = row]
      BY <1>1, <2>2 DEF snifferNote, row
    <3>2. Slot(id) \in DOMAIN slots /\ slots[Slot(id)].id = id
      BY <2>2 DEF Slot, Known
    <3>3. DOMAIN slots' = DOMAIN slots /\ \A i \in DOMAIN slots : slots'[i].id = slots[i].id
      BY <3>1, <3>2, <2>1, <1>t
    <3>4. Known' = Known
      BY <3>3 DEF Known
    <3> QED
      BY <2>2, <2>4, <3>3, <3>4 DEF TableInv
  <2>3. CASE id \notin Known
    <3>1. slots' = Append(slots, row)
      BY <1>1, <2>3 DEF snifferNote, row
    <3>2. DOMAIN slots' = 1 .. Len(slots) + 1 /\ slots'[Len(slots) + 1] = row
          /\ \A i \in DOMAIN slots : slots'[i] = slots[i]
      BY <3>1, <1>t
    <3>3. Known' = Known \cup {id}
      BY <3>2, <2>1, <1>t DEF Known
    <3>4. \A i \in DOMAIN slots : slots[i].id # id
      BY <2>3 DEF Known
    <3>5. \A i, j \in DOMAIN slots' : slots'[i].id = slots'[j].id => i = j
      <4>1. \A i \in DOMAIN slots' : i \in DOMAIN slots \/ i = Len(slots) + 1
        BY <3>2, <1>t
      <4> QED
        BY <4>1, <3>2, <3>4, <2>1 DEF TableInv
    <3> QED
      BY <2>4, <3>3, <3>5 DEF TableInv
  <2> QED
    BY <2>2, <2>3
<1>2. CASE OffHub
  BY <1>2, <1>f DEF OffHub, hubstreamRequestFullSnapshot
<1>3. CASE BeginPass
  BY <1>3, <1>u DEF BeginPass
<1>4. CASE SendFull
  BY <1>4, <1>n, SentTable, PickedRows DEF SendFull
<1>5. CASE SendFast
  BY <1>5, <1>n, SentTable, PickedRows DEF SendFast
<1>6. CASE SendSnapshot
  BY <1>6, <1>n, SentTable, PickedRows DEF SendSnapshot
<1>7. CASE AskFast
  BY <1>7, <1>u DEF AskFast
<1>8. CASE ResetTable
  BY <1>8, <1>r DEF ResetTable
<1>9. CASE applyMode
  BY <1>9, <1>r DEF applyMode
<1>10. CASE sessionTick
  BY <1>10, <1>f DEF sessionTick, hubstreamRequestFullSnapshot
<1>11. CASE LinkChanges
  BY <1>11, <1>f DEF LinkChanges
<1>12. CASE ClockTicks
  <2>1. DOMAIN slots' = DOMAIN slots /\ \A i \in DOMAIN slots : slots'[i].id = slots[i].id
    <3>1. slots' = [i \in DOMAIN slots |-> Aged(slots[i])]
      BY <1>12 DEF ClockTicks
    <3>2. \A i \in DOMAIN slots : slots[i] \in Rows
      BY <1>t, ElementOfSeq
    <3>3. \A i \in DOMAIN slots : Aged(slots[i]).id = slots[i].id
      BY <3>2 DEF Aged, Rows
    <3> QED
      BY <3>1, <3>3
  <2>2. stale' = stale /\ raced' = raced /\ lost' = lost
    BY <1>12 DEF ClockTicks
  <2>3. Known' = Known
    BY <2>1 DEF Known
  <2> QED
    BY <2>1, <2>2, <2>3 DEF TableInv
<1>14. CASE snifferClearMarks \/ \E id \in Ids : Resized(id)
  <2>1. UNCHANGED <<slots, stale, raced, lost>>
    BY <1>14 DEF snifferClearMarks, Resized
  <2> QED
    BY <2>1 DEF TableInv, Known
<1>13. CASE UNCHANGED streamVars
  BY <1>13, <1>u DEF streamVars, table
<1> QED
  BY <1>1, <1>2, <1>3, <1>4, <1>5, <1>6, <1>7, <1>8, <1>9, <1>10, <1>11, <1>12, <1>13, <1>14
     DEF StreamNext, hubstreamLoop

(* The pass.                                                               *)
LEMMA PassStep == StreamTypeOK /\ PassInv /\ [StreamNext]_streamVars => PassInv'
<1> SUFFICES ASSUME StreamTypeOK, PassInv, [StreamNext]_streamVars
             PROVE  PassInv'
  OBVIOUS
<1>u. ASSUME UNCHANGED <<onHub, began, wantFull, todo, dueSnap>> PROVE PassInv'
  BY <1>u DEF PassInv
<1>e. <<>> # <<"full">> /\ <<>> # <<"snap">> /\ <<>> # <<"fast", "snap">>
  OBVIOUS
<1>1. ASSUME NEW id \in Ids, snifferNote(id) PROVE PassInv'
  BY <1>1, <1>u DEF snifferNote, stream, times, pass
<1>2. CASE OffHub
  BY <1>2, <1>e DEF OffHub, hubstreamRequestFullSnapshot, Forget, PassInv
<1>3. CASE BeginPass
  BY <1>3, Planned DEF BeginPass, PassInv, SnapDue, times
<1>4. CASE SendFull
  <2>1. todo' = <<>> /\ wantFull /\ began
    BY <1>4, <1>e, Doings DEF SendFull, Done, StreamTypeOK, PassInv
  <2> QED
    BY <1>4, <1>e, <2>1 DEF SendFull, PassInv
<1>5. CASE SendFast
  <2>1. \/ todo = <<"fast">> /\ todo' = <<>>
        \/ todo = <<"fast", "snap">> /\ todo' = <<"snap">>
    BY <1>5, Doings DEF SendFast, Done, StreamTypeOK
  <2>2. <<"fast">> # <<"full">> /\ <<"fast", "snap">> # <<"full">> /\ <<"snap">> # <<"full">> /\ <<"fast">> # <<>>
        /\ <<"fast", "snap">> # <<>>
    OBVIOUS
  <2> QED
    BY <1>5, <1>e, <2>1, <2>2 DEF SendFast, PassInv, stream
<1>6. CASE SendSnapshot
  <2>1. todo = <<"snap">> /\ todo' = <<>>
    BY <1>6, Doings DEF SendSnapshot, Done, StreamTypeOK
  <2> QED
    BY <1>6, <1>e, <2>1 DEF SendSnapshot, PassInv, stream
<1>7. CASE AskFast
  BY <1>7, <1>u DEF AskFast, stream, pass
<1>8. CASE ResetTable
  BY <1>8, <1>u DEF ResetTable, stream, times, pass
<1>9. CASE applyMode
  BY <1>9, <1>u DEF applyMode, stream, pass
<1>10. CASE sessionTick
  BY <1>10, <1>e DEF sessionTick, hubstreamRequestFullSnapshot, Forget, PassInv, pass
<1>11. CASE LinkChanges
  BY <1>11, <1>e DEF LinkChanges, Forget, PassInv, pass
<1>12. CASE ClockTicks
  BY <1>12 DEF ClockTicks, Sooner, PassInv, stream
<1>14. CASE snifferClearMarks \/ \E id \in Ids : Resized(id)
  BY <1>14, <1>u DEF snifferClearMarks, Resized, stream, times, pass
<1>13. CASE UNCHANGED streamVars
  BY <1>13, <1>u DEF streamVars
<1> QED
  BY <1>1, <1>2, <1>3, <1>4, <1>5, <1>6, <1>7, <1>8, <1>9, <1>10, <1>11, <1>12, <1>13, <1>14
     DEF StreamNext, hubstreamLoop

(* How old: a bound that a tick raises by at least one, and nothing lowers *)
(* but the end of a snapshot.                                              *)
LEMMA OldestBounds ==
  ASSUME StreamTypeOK
  PROVE  Oldest \in Nat /\ (late < MaxLate => Oldest <= Half - 2)
<1>1. /\ dueSnap \in 0 .. SnapPeriod /\ late \in 0 .. MaxLate
  BY DEF StreamTypeOK, TimesOK
<1>2. /\ SnapPeriod - dueSnap \in Nat /\ SnapPeriod + MaxLate - 1 + late \in Nat
      /\ SnapPeriod - 1 + late \in Nat /\ SnapPeriod + 2 * MaxLate - 1 + late \in Nat
  BY <1>1, StreamConstants
<1>3. late < MaxLate => /\ dueSnap > 0 => SnapPeriod - dueSnap <= Half - 2
                        /\ SnapPeriod + MaxLate - 1 + late <= Half - 2
                        /\ SnapPeriod - 1 + late <= Half - 2
                        /\ SnapPeriod + 2 * MaxLate - 1 + late <= Half - 2
  BY <1>1, StreamConstants
<1> QED
  BY <1>2, <1>3 DEF Oldest

LEMMA OldestNext == StreamTypeOK' => Oldest' \in Int
<1>1. StreamTypeOK' => dueSnap' \in Int /\ late' \in Int
  BY DEF StreamTypeOK, TimesOK
<1> QED
  BY <1>1, StreamConstants DEF Oldest

LEMMA OldestTicks ==
  ASSUME StreamTypeOK, PassInv, ~wantFull, ClockTicks
  PROVE  Oldest + 1 <= Oldest'
<1>1. /\ dueSnap \in 0 .. SnapPeriod /\ late \in 0 .. MaxLate /\ late' = late + 1 /\ todo' = todo
      /\ dueSnap' = IF dueSnap > 0 THEN dueSnap - 1 ELSE 0
  BY DEF StreamTypeOK, TimesOK, ClockTicks, Sooner
<1>2. todo \in {<<>>, <<"fast">>} \/ dueSnap = 0
  BY DEF StreamTypeOK, PassInv, Plans
<1>3. CASE dueSnap > 0
  <2>1. dueSnap' > 0 => Oldest' = SnapPeriod - dueSnap + 1
    BY <1>1, <1>3, StreamConstants DEF Oldest
  <2>2. Oldest = SnapPeriod - dueSnap
    BY <1>3 DEF Oldest
  <2>3. dueSnap' = 0 => Oldest' \in {SnapPeriod + MaxLate + late, SnapPeriod + late}
    BY <1>1, <1>2, <1>3, StreamConstants DEF Oldest
  <2> QED
    BY <1>1, <1>3, <2>1, <2>2, <2>3, StreamConstants
<1>4. CASE ~(dueSnap > 0)
  BY <1>1, <1>4, StreamConstants DEF Oldest
<1> QED
  BY <1>3, <1>4

LEMMA OldestPlans ==
  ASSUME StreamTypeOK, BeginPass, ~wantFull
  PROVE  Oldest <= Oldest'
<1>1. dueSnap \in 0 .. SnapPeriod /\ late \in 0 .. MaxLate /\ late' = 0 /\ todo = <<>> /\ dueSnap' = dueSnap
  BY DEF StreamTypeOK, TimesOK, BeginPass, times
<1>2. dueSnap = 0 => todo' \notin {<<>>, <<"fast">>}
  BY Planned DEF BeginPass, SnapDue
<1> QED
  BY <1>1, <1>2, StreamConstants DEF Oldest

LEMMA OldestFast ==
  ASSUME StreamTypeOK, SendFast
  PROVE  Oldest <= Oldest'
<1>1. dueSnap \in 0 .. SnapPeriod /\ late \in 0 .. MaxLate /\ dueSnap' = dueSnap
  BY DEF StreamTypeOK, TimesOK, SendFast
<1>2. <<"fast">> # <<>> /\ <<"fast", "snap">> # <<>> /\ <<"fast", "snap">> # <<"fast">> /\ <<"snap">> # <<>>
      /\ <<"snap">> # <<"fast">>
  OBVIOUS
<1>3. \/ todo = <<"fast">> /\ todo' = <<>> /\ late' = 0
      \/ todo = <<"fast", "snap">> /\ todo' = <<"snap">> /\ late' = late
  <2>1. \/ todo = <<"fast">> /\ Tail(todo) = <<>>
        \/ todo = <<"fast", "snap">> /\ Tail(todo) = <<"snap">>
    BY Doings DEF SendFast, StreamTypeOK
  <2>2. todo' = Tail(todo) /\ late' = IF Tail(todo) = <<>> THEN 0 ELSE late
    BY DEF SendFast, Done
  <2> QED
    BY <1>2, <2>1, <2>2
<1>4. CASE todo = <<"fast">> /\ todo' = <<>> /\ late' = 0
  <2> DEFINE A == Oldest
             B == Oldest'
  <2>1. A = IF dueSnap > 0 THEN SnapPeriod - dueSnap ELSE SnapPeriod - 1 + late
    BY <1>2, <1>4 DEF Oldest
  <2>2. B = IF dueSnap > 0 THEN SnapPeriod - dueSnap ELSE SnapPeriod + MaxLate - 1
    BY <1>1, <1>4, StreamConstants DEF Oldest
  <2> HIDE DEF A, B
  <2>3. A <= B
    BY <1>1, <2>1, <2>2, StreamConstants
  <2> QED
    BY <2>3 DEF A, B
<1>5. CASE todo = <<"fast", "snap">> /\ todo' = <<"snap">> /\ late' = late
  <2>1. Oldest' = Oldest
    BY <1>1, <1>2, <1>5 DEF Oldest
  <2> QED
    BY <2>1, OldestBounds
<1> QED
  BY <1>3, <1>4, <1>5

(* A full snapshot lists every row.                                        *)
LEMMA EveryRow ==
  ASSUME StreamTypeOK
  PROVE  snifferRowsChangedSince(Full) = DOMAIN slots
<1>t. slots \in Seq(Rows) /\ DOMAIN slots = 1 .. Len(slots)
  BY LenProperties DEF StreamTypeOK
<1>1. ASSUME NEW i \in DOMAIN slots PROVE slots[i].age \in 0 .. Half
  <2>1. slots[i] \in Rows
    BY <1>t, ElementOfSeq
  <2> QED
    BY <2>1 DEF Rows
<1> QED
  BY <1>1, StreamConstants DEF snifferRowsChangedSince, Newer, Full, Zero

(* No row was refused without a gap.                                       *)
LostInv == ~skipped => lost = {}

LEMMA LostStep == StreamTypeOK /\ TableInv /\ LostInv /\ [StreamNext]_streamVars => LostInv'
<1> SUFFICES ASSUME StreamTypeOK, TableInv, LostInv, [StreamNext]_streamVars, ~skipped'
             PROVE  lost' = {}
  BY DEF LostInv
<1>u. ASSUME UNCHANGED <<skipped, lost>> PROVE lost' = {}
  BY <1>u DEF LostInv
<1>1. ASSUME NEW id \in Ids, snifferNote(id) PROVE lost' = {}
  BY <1>1 DEF snifferNote, LostInv
<1>2. CASE SendFull
  <2>1. CASE Nothing
    BY <1>u, <2>1 DEF Nothing
  <2>2. CASE sendRows(snifferRowsChangedSince(Full), TRUE)
    <3>1. lost' = lost \ {slots[i].id : i \in DOMAIN slots}
      BY <2>2, SentRows, EveryRow
    <3> QED
      BY <3>1 DEF TableInv, Known
  <2> QED
    BY <1>2, <2>1, <2>2 DEF SendFull
<1>3. CASE SendFast \/ SendSnapshot
  <2>1. CASE Nothing
    BY <1>u, <2>1 DEF Nothing
  <2>2. ASSUME NEW rows, sendRows(rows, FALSE) PROVE lost' = {}
    BY <2>2, SentRows DEF LostInv
  <2> QED
    BY <1>3, <2>1, <2>2 DEF SendFast, SendSnapshot
<1>4. CASE OffHub \/ sessionTick \/ LinkChanges
  BY <1>4 DEF OffHub, sessionTick, hubstreamRequestFullSnapshot, LinkChanges, Forget
<1>5. CASE BeginPass \/ AskFast \/ ClockTicks \/ snifferClearMarks \/ (\E id \in Ids : Resized(id))
           \/ UNCHANGED streamVars
  BY <1>5, <1>u DEF BeginPass, AskFast, ClockTicks, snifferClearMarks, Resized, streamVars, table
<1>6. CASE ResetTable \/ applyMode
  BY <1>6 DEF ResetTable, applyMode, snifferReset
<1> QED
  BY <1>1, <1>2, <1>3, <1>4, <1>5, <1>6 DEF StreamNext, hubstreamLoop

LEMMA LackStep ==
  StreamTypeOK /\ TableInv /\ PassInv /\ LackInv /\ [StreamNext]_streamVars => LackInv'
<1> SUFFICES ASSUME StreamTypeOK, TableInv, PassInv, LackInv, [StreamNext]_streamVars,
                    onHub', ~wantFull', NEW i \in Lacks'
             PROVE  Newer(slots'[i], snap') /\ slots'[i].age <= Oldest'
  BY DEF LackInv
<1>t. /\ slots \in Seq(Rows) /\ Len(slots) \in Nat /\ DOMAIN slots = 1 .. Len(slots) /\ snap \in 0 .. Half
      /\ \A j \in DOMAIN slots : slots[j] \in Rows
  BY LenProperties, ElementOfSeq DEF StreamTypeOK, TimesOK
<1>i. i \in DOMAIN slots' /\ slots'[i].id \in stale' /\ slots'[i].id \notin raced'
  BY DEF Lacks
<1>p. ASSUME onHub, ~wantFull, i \in DOMAIN slots, slots[i].id \in stale \ raced
      PROVE  Newer(slots[i], snap) /\ slots[i].age <= Oldest
  BY <1>p DEF LackInv, Lacks
<1>s. ASSUME ~wantFull, onHub, UNCHANGED <<slots, snap>>, Oldest <= Oldest',
             slots[i].id \in stale \ raced
      PROVE  Newer(slots'[i], snap') /\ slots'[i].age <= Oldest'
  <2>1. Newer(slots[i], snap) /\ slots[i].age <= Oldest
    BY <1>s, <1>i, <1>p
  <2>2. slots[i].age \in Int
    BY <1>s, <1>i, <1>t DEF Rows
  <2>3. Oldest \in Int /\ Oldest' \in Int
    BY OldestBounds, StreamTypeStep, OldestNext
  <2> QED
    BY <1>s, <2>1, <2>2, <2>3 DEF Newer
<1>u. ASSUME UNCHANGED <<slots, stale, raced, snap, onHub, wantFull, todo, dueSnap, late>>
      PROVE  Newer(slots'[i], snap') /\ slots'[i].age <= Oldest'
  <2>1. Oldest' = Oldest
    BY <1>u DEF Oldest
  <2>2. i \in DOMAIN slots /\ slots[i].id \in stale \ raced
    BY <1>u, <1>i
  <2> QED
    BY <1>u, <1>p, <2>1, <2>2 DEF Newer
<1>1. ASSUME NEW id \in Ids, snifferNote(id) PROVE Newer(slots'[i], snap') /\ slots'[i].age <= Oldest'
  <2> DEFINE row == [id |-> id, age |-> 0]
  <2>1. row.id = id /\ row.age = 0
    OBVIOUS
  <2> HIDE DEF row
  <2>2. Oldest' = Oldest /\ snap' = snap /\ onHub /\ ~wantFull
    BY <1>1 DEF snifferNote, stream, times, pass, Oldest
  <2>3. \/ slots'[i] = row
        \/ i \in DOMAIN slots /\ slots'[i] = slots[i] /\ slots[i].id # id
    <3>1. CASE id \in Known
      <4>1. slots' = [slots EXCEPT ![Slot(id)] = row]
        BY <1>1, <3>1 DEF snifferNote, row
      <4>2. Slot(id) \in DOMAIN slots /\ slots[Slot(id)].id = id
        BY <3>1 DEF Slot, Known
      <4> QED
        BY <4>1, <4>2, <1>i DEF TableInv
    <3>2. CASE id \notin Known
      <4>1. slots' = Append(slots, row)
        BY <1>1, <3>2 DEF snifferNote, row
      <4> QED
        BY <4>1, <3>2, <1>i, <1>t DEF Known
    <3> QED
      BY <3>1, <3>2
  <2>4. CASE slots'[i] = row
    <3>1. Newer(row, snap)
      BY <1>1, <1>i, <2>1, <2>2, <2>4 DEF snifferNote, row
    <3>2. 0 <= Oldest
      BY OldestBounds
    <3>3. slots'[i].age <= Oldest'
      BY <2>1, <2>2, <2>4, <3>2
    <3>4. Newer(slots'[i], snap')
      BY <2>2, <2>4, <3>1 DEF Newer
    <3> QED
      BY <3>3, <3>4
  <2>5. CASE i \in DOMAIN slots /\ slots'[i] = slots[i] /\ slots[i].id # id
    <3>1. slots[i].id \in stale \ raced
      BY <1>1, <1>i, <2>5 DEF snifferNote
    <3> QED
      BY <1>p, <2>2, <2>5, <3>1 DEF Newer
  <2> QED
    BY <2>3, <2>4, <2>5
<1>2. CASE OffHub
  BY <1>2 DEF OffHub
<1>3. CASE BeginPass
  <2>1. UNCHANGED <<slots, stale, raced, snap, wantFull>> /\ onHub
    BY <1>3 DEF BeginPass, table, times
  <2>2. Oldest <= Oldest'
    BY <1>3, <2>1, OldestPlans
  <2> QED
    BY <1>i, <1>s, <2>1, <2>2
<1>4. CASE SendFull
  <2>1. wantFull
    BY <1>4, Doings DEF SendFull, StreamTypeOK, PassInv
  <2>2. sendRows(snifferRowsChangedSince(Full), TRUE) /\ slots' = slots
    BY <1>4, <2>1 DEF SendFull
  <2>3. stale' = stale \ {slots[j].id : j \in snifferRowsChangedSince(Full)}
    BY <2>2, SentRows
  <2>4. i \in snifferRowsChangedSince(Full)
    BY <1>i, <1>t, <2>2, EveryRow
  <2> QED
    BY <1>i, <2>2, <2>3, <2>4
<1>5. CASE SendFast
  <2>1. UNCHANGED <<slots, snap, onHub, wantFull>>
    BY <1>5 DEF SendFast, stream
  <2>2. slots[i].id \in stale \ raced
    <3>1. CASE Nothing
      BY <3>1, <1>i, <2>1 DEF Nothing
    <3>2. CASE sendRows(snifferRowsForIds(fastIds, fast), FALSE)
      BY <3>2, <1>i, <2>1, SentRows
    <3> QED
      BY <1>5, <3>1, <3>2 DEF SendFast
  <2> QED
    BY <1>5, <1>s, <2>1, <2>2, OldestFast
<1>6. CASE SendSnapshot
  <2>1. UNCHANGED <<slots, onHub, wantFull>>
    BY <1>6 DEF SendSnapshot, stream
  <2> DEFINE rows == snifferRowsChangedSince(snap)
  <2>2. slots[i].id \in stale \ raced /\ (i \in rows => rows = {})
    <3>1. CASE rows = {} /\ Nothing
      BY <3>1, <1>i, <2>1 DEF Nothing
    <3>2. CASE sendRows(rows, FALSE)
      <4> HIDE DEF rows
      <4>1. stale' = stale \ {slots[j].id : j \in rows} /\ raced' = raced \ {slots[j].id : j \in rows}
        BY <3>2, SentRows
      <4> QED
        BY <4>1, <1>i, <2>1
    <3> QED
      BY <1>6, <3>1, <3>2 DEF SendSnapshot
  <2>3. i \in rows
    BY <1>i, <1>p, <2>1, <2>2 DEF snifferRowsChangedSince
  <2> QED
    BY <2>2, <2>3
<1>7. CASE AskFast
  BY <1>7, <1>u DEF AskFast, table, stream, pass
<1>8. CASE ResetTable
  BY <1>8, <1>i DEF ResetTable, snifferReset
<1>9. CASE applyMode
  BY <1>9, <1>i DEF applyMode, snifferReset
<1>10. CASE sessionTick
  BY <1>10 DEF sessionTick, hubstreamRequestFullSnapshot
<1>11. CASE LinkChanges
  BY <1>11 DEF LinkChanges, PassInv
<1>12. CASE ClockTicks
  <2>1. onHub /\ ~wantFull /\ late < MaxLate /\ stale' = stale /\ raced' = raced
    BY <1>12 DEF ClockTicks, stream
  <2>2. i \in DOMAIN slots /\ slots'[i] = Aged(slots[i])
    BY <1>12, <1>i DEF ClockTicks
  <2>3. slots[i] \in Rows /\ slots[i].age \in 0 .. Half
    BY <1>t, <2>2 DEF Rows
  <2>4. slots'[i].id = slots[i].id
    BY <2>2, <2>3 DEF Aged, Rows
  <2>5. Newer(slots[i], snap) /\ slots[i].age <= Oldest
    BY <1>i, <1>p, <2>1, <2>2, <2>4
  <2>6. slots'[i].age = Later(slots[i].age)
    BY <2>2, <2>3, <2>5 DEF Aged, Rows
  <2>7. Oldest \in Nat /\ Oldest <= Half - 2 /\ Oldest + 1 <= Oldest'
    BY <1>12, <2>1, OldestBounds, OldestTicks
  <2>8. slots'[i].age = slots[i].age + 1 /\ slots'[i].age # Half
    BY <2>3, <2>5, <2>6, <2>7, StreamConstants DEF Later
  <2>9. snap' = IF snap < Half THEN snap + 1 ELSE snap
    BY <1>12 DEF ClockTicks, Later
  <2>10. Newer(slots'[i], snap')
    <3>1. /\ snap \in 0 .. Half /\ slots[i].age \in 0 .. Half /\ Half \in Nat
          /\ slots[i].age < snap /\ snap - slots[i].age < Half /\ slots[i].age <= Half - 2
      BY <1>t, <2>3, <2>5, <2>7, StreamConstants DEF Newer, Zero
    <3>2. slots[i].age + 1 < snap' /\ snap' - (slots[i].age + 1) < Half
      BY <2>9, <3>1
    <3> QED
      BY <2>8, <3>2 DEF Newer
  <2>11. Oldest' \in Int
    BY StreamTypeStep, OldestNext
  <2> QED
    BY <2>3, <2>5, <2>7, <2>8, <2>10, <2>11
<1>14. CASE snifferClearMarks \/ \E id \in Ids : Resized(id)
  BY <1>14, <1>u DEF snifferClearMarks, Resized, stream, times, pass
<1>13. CASE UNCHANGED streamVars
  BY <1>13, <1>u DEF streamVars
<1> QED
  BY <1>1, <1>2, <1>3, <1>4, <1>5, <1>6, <1>7, <1>8, <1>9, <1>10, <1>11, <1>12, <1>13, <1>14
     DEF StreamNext, hubstreamLoop

LEMMA LackGivesTable == TableInv /\ LackInv /\ LostInv => HubHasTable
<1> SUFFICES ASSUME TableInv, LackInv, LostInv, onHub, ~wantFull, ~skipped, NEW id \in stale, id \notin raced
             PROVE  Newer(slots[Slot(id)], snap)
  BY DEF HubHasTable, LostInv
<1>1. id \in Known
  BY DEF TableInv
<1>2. Slot(id) \in DOMAIN slots /\ slots[Slot(id)].id = id
  BY <1>1 DEF Slot, Known
<1> QED
  BY <1>2 DEF LackInv, Lacks

(* The table, the times and the plan of a pass keep their types.           *)
THEOREM StreamTypes == StreamSpec => []StreamTypeOK
BY StreamTypeInit, StreamTypeStep, PTL DEF StreamSpec

(* A hub without a gap in the sequence numbers has every row, or the next  *)
(* snapshot carries it: no change is skipped for being too close to a      *)
(* snapshot or, the other way, for being older than its watermark, and no  *)
(* refused datagram goes unnoticed.                                        *)
THEOREM HubIsNotLeftBehind == StreamSpec => []HubHasTable
<1>1. StreamInit => TableInv /\ PassInv /\ LackInv /\ LostInv
  BY DEF StreamInit, TableInv, PassInv, LackInv, LostInv, Known
<1> QED
  BY <1>1, StreamTypes, TableStep, PassStep, LackStep, LostStep, LackGivesTable, PTL DEF StreamSpec
=============================================================================
