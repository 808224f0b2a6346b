------------------------------- MODULE HubResolve -------------------------------
(***************************************************************************)
(* Where the hub is: the order of the sources and the schedule of the mDNS *)
(* query (hubaddr.h), the life of the one asynchronous query (hubquery.h)  *)
(* and their use (hubresolve.cpp).  Operators over a query record return   *)
(* the set of its successors, because the component may refuse a delete.   *)
(*                                                                         *)
(* Times are ages and delays in ticks: Wrap ticks are the 2^32 ms of the   *)
(* clock, and a difference is compared as a signed number.                 *)
(***************************************************************************)
EXTENDS Integers

CONSTANTS
  Addrs, Gateway, Bench,   \* the hub's addresses, the gateway, a bench laptop
  Nvs,                     \* hub_addr of the credentials
  Wrap,                    \* 2^32 ms
  MinGap,                  \* HUB_MDNS_MIN_GAP_MS
  BackoffBase, BackoffMax, \* HUB_MDNS_BACKOFF_BASE_MS, HUB_MDNS_BACKOFF_MAX_MS
  Silent,                  \* HUB_SILENT_MS
  MaxRefusals,             \* bound: deletes of a finished query refused
  LongUp                   \* a query may be half a wrap of the clock old

ASSUME ResolveAssumption ==
  /\ {MinGap, BackoffBase, BackoffMax, Silent, Wrap, MaxRefusals} \subseteq Nat
  /\ MinGap < Wrap \div 2
  /\ LongUp \in BOOLEAN

VARIABLES
  up,                      \* g_up
  mdns,                    \* what became of mdns_init
  queries,                 \* g_q and the searches the mdns component holds
  answer,                  \* what the last finished search found
  sched,                   \* g_sched
  silence,                 \* since the later of link-up and the hub's last request
  in, choice,              \* g_in, g_choice
  hubAddr                  \* where the hub is

resolveVars == <<up, mdns, queries, answer, sched, silence, in, choice, hubAddr>>

None == "none"
Search == 1 .. 2           \* a second one is there to be leaked
NoSearch == 0

-----------------------------------------------------------------------------
(* hubquery.h, against the contract of the mdns component *)

\* A search that is running is never deleted; one that is done may be refused.
destroy(h, q) ==
  IF h.search[q] = "running" THEN {}
  ELSE {[h EXCEPT !.search[q] = IF @ = None THEN "freed twice" ELSE None]}

refused(h, q) ==
  IF h.search[q] = "running" THEN {h}
  ELSE IF h.refusals < MaxRefusals THEN {[h EXCEPT !.refusals = @ + 1]} ELSE {}

hubQueryBusy(h) == {h.active, h.parked, h.undeleted} # {NoSearch}

hubQueryRetire(h, q) ==
  LET freed == [h EXCEPT !.search[q] = "taken"]
  IN destroy(freed, q) \cup {[g EXCEPT !.undeleted = q] : g \in refused(freed, q)}

hubQueryStart(h, q) == [h EXCEPT !.search[q] = "running", !.active = q]

\* Mutant: a running query is deleted and forgotten (what PR #29 did).
hubQueryCancel_Drop(h) ==
  IF h.active = NoSearch THEN {h}
  ELSE LET g == [h EXCEPT !.active = NoSearch]
       IN destroy(g, h.active) \cup refused(g, h.active)

hubQueryCancel(h) ==
  IF h.active = NoSearch THEN {h}
  ELSE LET g == [h EXCEPT !.active = NoSearch]
       IN IF h.search[h.active] = "done" THEN hubQueryRetire(g, h.active)
          ELSE {[g EXCEPT !.parked = h.active]}

RetryDelete(h) ==
  IF h.undeleted = NoSearch THEN {h}
  ELSE {[g EXCEPT !.undeleted = NoSearch] : g \in destroy(h, h.undeleted)} \cup refused(h, h.undeleted)

ReapParked(h) ==
  IF h.parked # NoSearch /\ h.search[h.parked] = "done"
  THEN hubQueryRetire([h EXCEPT !.parked = NoSearch], h.parked)
  ELSE {h}

hubQueryReap(h) == UNION {ReapParked(g) : g \in RetryDelete(h)}

-----------------------------------------------------------------------------
(* hubaddr.h *)

Signed(x) == IF (x % Wrap) >= Wrap \div 2 THEN (x % Wrap) - Wrap ELSE x % Wrap

AtLeast0(x) == IF x < 0 THEN 0 ELSE x

\* dueIn is nextMs - now, since is now - lastStartMs.
hubResolveReset == [armed |-> FALSE, inflight |-> FALSE, dueIn |-> 0, since |-> 0,
                    ever |-> FALSE, fails |-> 0]

hubResolveKick(s) ==
  IF s.inflight \/ (s.armed /\ s.fails > 0) THEN s
  ELSE LET at == IF s.ever /\ Signed(s.since) < MinGap
                 THEN AtLeast0(Signed(MinGap - s.since)) ELSE 0
       IN [s EXCEPT !.armed = TRUE, !.dueIn = IF ~s.armed \/ at < @ THEN at ELSE @]

hubResolveDue(s) == s.armed /\ ~s.inflight /\ s.dueIn = 0

hubResolveStarted(s) ==
  [s EXCEPT !.inflight = TRUE, !.armed = FALSE, !.since = 0, !.ever = TRUE]

hubResolveBackoffMs(fails) ==
  LET b == BackoffBase * 2 ^ (fails - 1) IN IF b > BackoffMax THEN BackoffMax ELSE b

\* The count stops where the backoff does (at 16 in the code).
MaxFails == CHOOSE n \in 1 .. BackoffMax + 1 :
  hubResolveBackoffMs(n) = BackoffMax /\ \A m \in 1 .. n - 1 : hubResolveBackoffMs(m) < BackoffMax

hubResolveFinished(s, ok) ==
  IF ok THEN [s EXCEPT !.inflight = FALSE, !.armed = FALSE, !.fails = 0]
  ELSE LET f == IF s.fails < MaxFails THEN s.fails + 1 ELSE s.fails
       IN [s EXCEPT !.inflight = FALSE, !.armed = TRUE, !.fails = f,
                    !.dueIn = hubResolveBackoffMs(f)]

hubSilent(window) == silence >= window

hubAddrSelect(i) ==
  CASE i.mdns # None  -> [ip |-> i.mdns, source |-> "mdns"]
    [] i.mdns = None /\ i.cache # None -> [ip |-> i.cache, source |-> "mdns-cache"]
    [] i.mdns = None /\ i.cache = None /\ i.nvs # None -> [ip |-> i.nvs, source |-> "nvs"]
    [] OTHER -> [ip |-> i.gateway, source |-> "gateway"]

-----------------------------------------------------------------------------
(* hubresolve.cpp *)

mdnsInitOnce == IF mdns = "untried" THEN {"ok", "failed"} ELSE {mdns}

hubResolveLinkUp ==
  /\ in' = [in EXCEPT !.gateway = Gateway, !.mdns = None]
  /\ choice' = hubAddrSelect(in')
  /\ up' = TRUE
  /\ silence' = 0
  /\ mdns' \in mdnsInitOnce
  /\ sched' = IF mdns' = "ok" THEN hubResolveKick(hubResolveReset) ELSE sched
  /\ UNCHANGED answer

hubResolveLinkDown(h) ==
  /\ up' = FALSE
  /\ queries' \in hubQueryCancel(h)
  /\ sched' = hubResolveReset
  /\ silence' = 0                      \* not read before the next link-up
  /\ UNCHANGED <<mdns, answer, in, choice>>

\* The active query has finished.
Answered(h) ==
  /\ up /\ mdns = "ok"
  /\ h.active # NoSearch /\ h.search[h.active] = "done"
  /\ queries' \in hubQueryRetire([h EXCEPT !.active = NoSearch], h.active)
  /\ sched' = hubResolveFinished(sched, answer # None)
  /\ in' = [in EXCEPT !.mdns = answer, !.cache = IF answer # None THEN answer ELSE @]
  /\ silence' = IF answer # None THEN 0 ELSE silence
  /\ choice' = hubAddrSelect(in')
  /\ answer' = None
  /\ UNCHANGED <<up, mdns>>

Kicked == IF hubSilent(Silent) THEN hubResolveKick(sched) ELSE sched

MayAsk(h) ==
  /\ up /\ mdns = "ok" /\ h.active = NoSearch
  /\ UNCHANGED <<up, mdns, answer, silence, in, choice>>

QueryStarts(h) ==
  /\ MayAsk(h) /\ hubResolveDue(Kicked) /\ ~hubQueryBusy(h)
  /\ queries' = hubQueryStart(h, CHOOSE q \in Search : h.search[q] = None)
  /\ sched' = hubResolveStarted(Kicked)

\* Could not even start: counts as a failure.
StartFails(h) ==
  /\ MayAsk(h) /\ hubResolveDue(Kicked) /\ ~hubQueryBusy(h)
  /\ queries' = h
  /\ sched' = hubResolveFinished(hubResolveStarted(Kicked), FALSE)

\* A cancelled query not reaped yet holds the next one up.
AsksLater(h) ==
  /\ MayAsk(h) /\ (hubResolveDue(Kicked) => hubQueryBusy(h))
  /\ queries' = h /\ sched' = Kicked

hubResolveLoop(h) == Answered(h) \/ QueryStarts(h) \/ StartFails(h) \/ AsksLater(h)

\* A request of the hub, or of someone at the bench
hubResolveNoteRequest(remote) ==
  /\ up
  /\ silence' = IF remote = choice.ip THEN 0 ELSE silence
  /\ sched' = IF remote # choice.ip /\ mdns = "ok" /\ hubSilent(Silent \div 2)
              THEN hubResolveKick(sched) ELSE sched
  /\ UNCHANGED <<up, mdns, queries, answer, in, choice, hubAddr>>

-----------------------------------------------------------------------------
(* The network *)

Finishes(found) ==
  /\ answer' = found
  /\ \E q \in Search :
       queries.search[q] = "running" /\ queries' = [queries EXCEPT !.search[q] = "done"]
  /\ UNCHANGED <<up, mdns, sched, silence, in, choice, hubAddr>>

Capped(x, top) == IF x < top THEN x + 1 ELSE x

\* Below half a wrap an age only counts up to MinGap.
Older(x) == IF LongUp THEN (x + 1) % Wrap ELSE Capped(x, MinGap)

ResolveTick ==
  /\ sched' = [sched EXCEPT !.dueIn = AtLeast0(@ - 1), !.since = IF sched.ever THEN Older(@) ELSE @]
  /\ silence' = IF up THEN Capped(silence, Silent) ELSE silence
  /\ UNCHANGED <<up, mdns, queries, answer, in, choice, hubAddr>>

InitResolve ==
  /\ up = FALSE /\ mdns = "untried"
  /\ queries = [active |-> NoSearch, parked |-> NoSearch, undeleted |-> NoSearch,
                search |-> [q \in Search |-> None], refusals |-> 0]
  /\ answer = None /\ sched = hubResolveReset /\ silence = 0
  /\ in = [mdns |-> None, cache |-> None, nvs |-> Nvs, gateway |-> None]
  /\ choice = [ip |-> None, source |-> None]
  /\ hubAddr \in Addrs

-----------------------------------------------------------------------------
\* A search the mdns component holds belongs to exactly one of active, parked
\* and undeleted until it is deleted, once: no link drop leaks it, and there
\* is never a second one (hubquery.h:24).
Owners(q) == {slot \in {"active", "parked", "undeleted"} : queries[slot] = q}

SearchOwned ==
  /\ \A q \in Search : queries.search[q] # "freed twice"
  /\ \A q \in Search : queries.search[q] = None => Owners(q) = {}
  /\ \A q \in Search : queries.search[q] # None => \E slot \in Owners(q) : Owners(q) = {slot}
  /\ \A q, r \in Search : queries.search[q] # None /\ queries.search[r] # None => q = r

\* A query that is wanted starts within the longest backoff or the minimal
\* gap (hubaddr.h:15): nothing postpones it further.
AsksSoon == sched.armed => sched.dueIn <= BackoffMax \/ sched.dueIn <= MinGap
=============================================================================
