---------------------------------- MODULE Poll ----------------------------------
(***************************************************************************)
(* MODE_POLL (poller.cpp, pollplan.cpp): the poll plan a hub sends and the *)
(* NVS keeps, its scheduler, and the trip bookends, on the loop task;      *)
(* canTask hands it the frames of the car's ECUs through a queue.          *)
(*                                                                         *)
(* A pass of loop() is cut where its stages end.  The clock moves only     *)
(* between passes: pollerTick reads it once.                               *)
(***************************************************************************)
EXTENDS Bookend, Sequences

CONSTANTS
  Cars,                \* the cars, hubs and owners the board may meet, see PollInit
  ReplyTimeout, Gap,   \* OBD_RESPONSE_TIMEOUT_MS, OBD_INTER_REQUEST_MS
  BackoffMax, MissCap, \* POLL_BACKOFF_MAX_MS, and 16
  PeriodMin, PeriodMax, PlanMax,
  OnDebounce, OffDebounce, EndMargin, StartBudget,
  QueueLen,            \* POLL_RX_QUEUE_LEN
  MaxPolls             \* polls of the sequencer in one pass (4)

(* The states of the world: what a hub posts, what an NVS may hold, what an *)
(* ECU may answer.                                                         *)
AnyEntry == [mode : Int, pid : Int, period : Int]
Message == [mode : Int, pid : Int, n : Nat, cfs : Nat, mids : SUBSET Nat]

ASSUME PollAssumption ==
  /\ OffDebounce > EndMargin + MinStart     \* static_assert, poller.cpp:15
  /\ {ReplyTimeout, Gap, BackoffMax, MissCap, PlanMax, OnDebounce, OffDebounce, EndMargin, StartBudget,
      QueueLen} \subseteq Nat
  /\ {PeriodMin, PeriodMax, MaxPolls} \subseteq Nat \ {0}
  /\ \A n \in 0 .. MissCap : 2^n \in Nat \ {0}
  /\ \A c \in Cars :
       /\ \A b \in c.bodies : b.ok \in BOOLEAN /\ b.entries \in Seq(AnyEntry)
       /\ \A n \in c.stored : n.ok \in BOOLEAN /\ n.plan \in Seq(AnyEntry)
       /\ \A e \in Ecus : c.answers[e] \subseteq Message
       /\ c.stall \in Nat /\ c.fails \in Nat

VARIABLES
  car,                 \* which of Cars this is; never changes
  at,                  \* stage of the pass
  key, on, edge,       \* the ignition wire; IgnDebounce: on, ticks since the edge + 1 (0: no edge)
  mode, restore,       \* g_mode, g_modeRestore
  pending,             \* g_pendingMode: POLL waits for its 'y'
  nvs,                 \* the stored plan: [ok, plan]
  plan, nvsOk,         \* g_plan, g_nvsOk
  sched,               \* g_sched
  tripStarted, endTried,
  bk,                  \* g_bk, and g_bkActive in its field active
  q,                   \* g_q
  ecu,                 \* what each ECU is sending
  polls,               \* k in bookendTick: polls made in this pass
  stall, fails,
  served, lastSent,    \* history, see EachOnce and NeverFaster
  wrote,               \* the bookend written in this pass, for the properties
  overtime,            \* history: what held up the trip_end being read, see EndBeforeOff
  cycleStart           \* history: a START was begun since the ignition last came on

boot == <<nvs, plan, nvsOk>>
wire == <<key, on, edge>>
modes == <<mode, restore, pending>>
trip == <<tripStarted, endTried, cycleStart>>
polling == <<sched, served, lastSent>>
bus == <<q, ecu>>
pollVars ==
  <<car, at, key, on, edge, mode, restore, pending, nvs, plan, nvsOk, sched, tripStarted, endTried, bk, q, ecu,
   polls, stall, fails, served, lastSent, wrote, overtime, cycleStart>>

----------------------------------------------------------------------------
(* The plan.  An entry is [mode, pid, period]; a body is [ok, entries].     *)

cmpEntry(a, b) == a.mode < b.mode \/ (a.mode = b.mode /\ a.pid < b.pid)

EntryValid(e) == e.mode = 1 /\ e.pid \in 0 .. 255 /\ e.period \in PeriodMin .. PeriodMax

Sorted(p) == \A i \in 1 .. Len(p) - 1 : cmpEntry(p[i], p[i + 1])

planValid(p) == Len(p) <= PlanMax /\ Sorted(p) /\ \A i \in DOMAIN p : EntryValid(p[i])

(* A body is refused for too many entries, an invalid one, or two with one  *)
(* key; the plan is its entries in order.                                  *)
pollPlanAccepts(body) ==
  /\ body.ok /\ Len(body.entries) <= PlanMax
  /\ \A i \in DOMAIN body.entries :
       /\ EntryValid(body.entries[i])
       /\ \A j \in DOMAIN body.entries \ {i} : body.entries[i].pid # body.entries[j].pid

pollPlanParse(body) ==
  CHOOSE p \in [DOMAIN body.entries -> {body.entries[i] : i \in DOMAIN body.entries}] : Sorted(p)

(* pollPlanDecode in loadNvs: a stored plan is validated again.             *)
loadNvs(n) == IF n.ok /\ planValid(n.plan) THEN n.plan ELSE <<>>

----------------------------------------------------------------------------
(* The scheduler.  late[i] is now - due[i].                                  *)

pollSchedInit(p) ==
  [plan |-> p, late |-> [i \in DOMAIN p |-> 0], misses |-> [i \in DOMAIN p |-> 0], inflight |-> 0,
   sent |-> 0, gap |-> Gap, anyOk |-> FALSE]

NoServed(p) == [i \in DOMAIN p |-> {}]
NoLast(p) == [i \in DOMAIN p |-> -1]

Due(s) == {i \in DOMAIN s.plan : s.late[i] >= 0}

\* Mutant: the first entry that is due.
pollSchedPick_First(s) ==
  IF s.inflight # 0 \/ s.gap < Gap THEN {} ELSE {i \in Due(s) : \A j \in Due(s) : i <= j}

(* The most overdue entry, the first of equals.                             *)
pollSchedPick(s) ==
  IF s.inflight # 0 \/ s.gap < Gap THEN {}
  ELSE {i \in Due(s) : \A j \in Due(s) : s.late[j] < s.late[i] \/ (s.late[j] = s.late[i] /\ i <= j)}

pollSchedSent(s, i) == [s EXCEPT !.inflight = i, !.sent = 0, !.gap = 0]

pollSchedTxFailed(s, i) == [s EXCEPT !.late[i] = - s.plan[i].period]

\* Mutant: the period runs from when the entry was due.
LateAfterReply_CatchesUp(s) == s.late[s.inflight] - s.plan[s.inflight].period

LateAfterReply(s) == s.sent - s.plan[s.inflight].period

(* A single frame or a First Frame that echoes the request in flight        *)
(* retires it; the period runs from its send.                              *)
pollSchedOnFrame(s, f) ==
  IF /\ s.inflight # 0 /\ f.kind \in {"sf", "ff"}
     /\ f.msg.mode = s.plan[s.inflight].mode /\ f.msg.pid = s.plan[s.inflight].pid
  THEN [s EXCEPT !.misses[s.inflight] = 0, !.late[s.inflight] = LateAfterReply(s),
                 !.inflight = 0, !.anyOk = TRUE]
  ELSE s

pollBackoffMs(period, misses) ==
  LET most == IF BackoffMax > period THEN BackoffMax ELSE period
      b == period * 2 ^ misses
  IN  IF b > most THEN most ELSE b

pollSchedCheckTimeout(s) ==
  IF s.inflight = 0 \/ s.sent < ReplyTimeout THEN s
  ELSE LET i == s.inflight
           misses == IF s.misses[i] < MissCap THEN s.misses[i] + 1 ELSE s.misses[i]
       IN  [s EXCEPT !.misses[i] = misses, !.late[i] = - pollBackoffMs(s.plan[i].period, misses),
                     !.inflight = 0]

----------------------------------------------------------------------------
(* A car is [ignition, returns, answers, bodies, stored, owner, stall,      *)
(* fails]: whether the board has the ignition input, and the ignition comes *)
(* back on, what each ECU may answer, what the hub may post, what the NVS   *)
(* may hold at the first boot, whether someone changes the mode by hand;    *)
(* and two bounds: the longest time between two passes, and how many        *)
(* transmits, frames and NVS calls fail.                                   *)

(* What an ECU sends next: nothing, the first frame of msg, a Consecutive    *)
(* Frame (its number), or it waits for the Flow Control.                   *)
Idle == 0
First == -1
WaitsFc == -2
Silent == [msg |-> NoMsg, next |-> Idle]

(* bookendWrite: write the record of sequence s, or skip it.                *)
NoOvertime == [longest |-> 0, passes |-> 0]
NotWritten == [kind |-> "none", complete |-> FALSE, cut |-> {}, omits |-> FALSE]
bookendWrite(s) ==
  /\ bk' = NoSeq
  /\ wrote' = IF bookendSeqShouldWrite(s)
              THEN [kind |-> s.kind, complete |-> s.complete, cut |-> s.cut, omits |-> s.count # s.given]
              ELSE wrote

PollInit ==
  /\ car \in Cars
  /\ at = "rest" /\ stall = 0 /\ fails = 0
  /\ key = TRUE /\ on = TRUE /\ edge = 0
  /\ mode = "listen" /\ restore = FALSE /\ pending = FALSE
  /\ nvs \in car.stored /\ plan = loadNvs(nvs) /\ nvsOk = (nvs.ok /\ planValid(nvs.plan))
  /\ sched = pollSchedInit(<<>>) /\ served = <<>> /\ lastSent = <<>>
  /\ tripStarted = FALSE /\ endTried = FALSE /\ cycleStart = FALSE
  /\ bk = NoSeq /\ wrote = NotWritten /\ overtime = NoOvertime /\ q = <<>> /\ ecu = [e \in Ecus |-> Silent] /\ polls = 0

OffPending == on /\ edge > 0                    \* powerIgnitionOffPending
Active == mode = "poll"                          \* g_active
TxAllowed == on                                  \* canTxAllowed
Ending == bk.active /\ bk.kind = "end"

(* canTransmit does not send: the gate is shut, or the driver refuses.      *)
Refused ==
  \/ ~TxAllowed /\ UNCHANGED fails
  \/ TxAllowed /\ fails < car.fails /\ fails' = fails + 1

pollerEnter(p) ==
  /\ q' = <<>>
  /\ sched' = pollSchedInit(p) /\ served' = NoServed(p) /\ lastSent' = NoLast(p)

pollerExit == IF bk.active THEN bookendWrite(bookendSeqTxFailed(bk)) ELSE UNCHANGED <<bk, wrote>>

(* What POLL left in the scheduler and the queue is unread until it is      *)
(* entered again: here it goes at once.                                    *)
applyMode(m) ==
  /\ mode' = m
  /\ pollerExit
  /\ pollerEnter(IF m = "poll" THEN plan ELSE <<>>)

(* powerLoop: one sample of the wire.                                       *)
ignDebounce ==
  LET run == IF edge = 0 THEN 1 ELSE edge
      need == IF key THEN OnDebounce ELSE OffDebounce
  IN  IF key = on THEN edge' = 0 /\ UNCHANGED on
      ELSE IF run - 1 >= need THEN on' = key /\ edge' = 0
      ELSE edge' = run /\ UNCHANGED on

(* ignitionPowerTick: an OFF drops POLL to LISTEN, the next ON restores it. *)
Ignition ==
  /\ at = "ignition"
  /\ IF car.ignition THEN ignDebounce ELSE UNCHANGED <<on, edge>>
  /\ IF ~on' /\ mode = "poll"
     THEN applyMode("listen") /\ restore' = TRUE
     ELSE IF on' /\ ~on /\ restore /\ mode # "poll"
     THEN applyMode("poll") /\ restore' = FALSE
     ELSE UNCHANGED <<mode, restore, bk, wrote, polling, q>>
  /\ cycleStart' = (cycleStart /\ on')
  /\ at' = "serve"
  /\ UNCHANGED <<car, polls, key, pending, boot, tripStarted, endTried, ecu, overtime, stall, fails>>

(* requestMode: POLL may be asked for only while the gate is open.          *)
Ask ==
  /\ at = "serve" /\ mode # "poll" /\ TxAllowed
  /\ pending' = TRUE /\ at' = "drain"
  /\ UNCHANGED <<car, polls, wrote, overtime, wire, mode, restore, boot, trip, bk, polling, bus, stall, fails>>

(* handleKeys: the 'y' that confirms it is not checked against the gate     *)
(* again, nor is LISTEN.  A choice gives up the mode to restore.           *)
Choose ==
  /\ at = "serve"
  /\ \/ car.owner /\ ~pending /\ (mode = "poll" \/ restore) /\ applyMode("listen")
     \/ pending /\ applyMode("poll")
  /\ pending' = FALSE /\ restore' = FALSE /\ at' = "drain"
  /\ UNCHANGED <<car, polls, key, on, edge, boot, trip, ecu, overtime, stall, fails>>

(* Any other key, or the confirmation window is over.                       *)
Cancel ==
  /\ at = "serve" /\ car.owner /\ pending
  /\ pending' = FALSE /\ at' = "drain"
  /\ UNCHANGED <<car, polls, wrote, overtime, wire, mode, restore, boot, trip, bk, polling, bus, stall, fails>>

\* Mutant: the plan in use is not the one stored.
saveNvs_Skipped(p) == nvs

saveNvs(p) == [ok |-> TRUE, plan |-> p]

(* pollerSetFromJson: nothing changes unless the plan is valid and saved.   *)
Post ==
  /\ at = "serve"
  /\ \E body \in car.bodies :
       LET p == pollPlanParse(body)
       IN  /\ pollPlanAccepts(body)
           /\ nvs' = saveNvs(p)
           /\ plan' = p /\ nvsOk' = TRUE
           /\ IF Active THEN pollerEnter(p) ELSE UNCHANGED <<polling, q>>
  /\ at' = "drain"
  /\ UNCHANGED <<car, polls, wrote, overtime, wire, modes, trip, bk, ecu, stall, fails>>

PostFails ==
  /\ at = "serve" /\ fails < car.fails
  /\ \E body \in car.bodies : pollPlanAccepts(body)
  /\ fails' = fails + 1 /\ at' = "drain"
  /\ UNCHANGED <<car, polls, wrote, overtime, wire, modes, boot, trip, bk, polling, bus, stall>>

Nothing ==
  /\ at = "serve" /\ at' = "drain"
  /\ UNCHANGED <<car, polls, wrote, overtime, wire, modes, boot, trip, bk, polling, bus, stall, fails>>

----------------------------------------------------------------------------
(* pollerTick, while g_active.                                               *)

(* A frame canTask queued goes to the bookend or to the scheduler; it may   *)
(* queue more before the queue is found empty.                             *)
Drain ==
  /\ at = "drain"
  /\ \/ ~Active /\ at' = "rest" /\ UNCHANGED <<bk, sched, q>>
     \/ Active /\ q = <<>> /\ at' = "triggers" /\ UNCHANGED <<bk, sched, q>>
     \/ /\ Active /\ q # <<>> /\ q' = Tail(q) /\ UNCHANGED at
        /\ IF bk.active
           THEN bk' = bookendSeqOnFrame(bk, Head(q)) /\ UNCHANGED sched
           ELSE sched' = pollSchedOnFrame(sched, Head(q)) /\ UNCHANGED bk
  /\ UNCHANGED <<car, polls, wrote, overtime, wire, modes, boot, trip, served, lastSent, ecu, stall, fails>>

(* bookendTriggers.  g_hasPlan is plan # <<>>.                               *)
DipOver == bk.active /\ bk.kind = "end" /\ ~OffPending /\ on
StartsTrip == ~tripStarted /\ sched.anyOk /\ ~OffPending
EndsTrip == tripStarted /\ OffPending /\ ~endTried
\* Mutant: a read may run until the debounce is over.
EndBudget_NoMargin == OffDebounce + 1 - (edge - 1)
EndBudget == OffDebounce - EndMargin - (edge - 1)

bookendTriggers ==
  IF bk.active
  THEN /\ bk' = IF DipOver THEN NoSeq ELSE bk
       /\ endTried' = (endTried /\ ~DipOver)
       /\ UNCHANGED <<tripStarted, cycleStart>>
  ELSE IF ~on THEN tripStarted' = FALSE /\ endTried' = FALSE /\ UNCHANGED <<bk, cycleStart>>
  ELSE IF sched.inflight # 0
  THEN endTried' = (endTried /\ OffPending) /\ UNCHANGED <<bk, tripStarted, cycleStart>>
  ELSE /\ tripStarted' = (tripStarted \/ StartsTrip)
       /\ cycleStart' = (cycleStart \/ StartsTrip)
       /\ endTried' = ((endTried /\ OffPending) \/ EndsTrip)
       /\ bk' = IF StartsTrip THEN bookendSeqStart("start", StartBudget)
                ELSE IF EndsTrip /\ EndBudget >= MinStart THEN bookendSeqStart("end", EndBudget)
                ELSE bk

Triggers ==
  /\ at = "triggers"
  /\ IF plan # <<>> THEN bookendTriggers ELSE UNCHANGED <<bk, trip>>
  /\ at' = IF bk'.active THEN "bookend" ELSE "plan"
  /\ overtime' = IF Ending THEN overtime ELSE NoOvertime
  /\ UNCHANGED <<car, polls, wrote, wire, modes, boot, polling, bus, stall, fails>>

(* What goes out on the bus: the ECUs hear it, each may answer a request    *)
(* with a message of its own, dropping what it was sending, or ignore it.   *)
Answers(e, req) == {m \in car.answers[e] : m.mode = req.mode /\ m.pid = req.pid}

Hear(req) ==
  LET Hears(e) == {ecu[e]} \cup {[msg |-> m, next |-> First] : m \in Answers(e, req)}
  IN  ecu' \in {f \in [Ecus -> UNION {Hears(e) : e \in Ecus}] : \A e \in Ecus : f[e] \in Hears(e)}

(* One poll of bookendTick; bookendWrite when the sequence is done.         *)
PollsAgain ==
  IF polls + 1 < MaxPolls THEN polls' = polls + 1 /\ UNCHANGED at ELSE polls' = 0 /\ at' = "rest"

BookendTick ==
  /\ at = "bookend"
  /\ LET p == bookendSeqPoll(bk)
     IN  \/ /\ p.seq.finished /\ bookendWrite(p.seq)
            /\ at' = "rest" /\ polls' = 0 /\ UNCHANGED <<ecu, fails>>
         \/ /\ ~p.seq.finished /\ p.tx = 0 /\ bk' = p.seq
            /\ at' = "rest" /\ polls' = 0 /\ UNCHANGED <<ecu, fails, wrote>>
         \/ /\ p.tx # 0 /\ TxAllowed
            /\ bk' = p.seq /\ PollsAgain /\ UNCHANGED <<fails, wrote>>
            /\ IF p.tx = 1 THEN Hear(p.seq.req)
               ELSE ecu' = [ecu EXCEPT ![p.to].next = IF @ = WaitsFc THEN 1 ELSE @]
         \/ /\ p.tx # 0 /\ Refused
            /\ bk' = bookendSeqTxFailed(p.seq) /\ PollsAgain /\ UNCHANGED <<ecu, wrote>>
  /\ overtime' = [overtime EXCEPT !.passes = IF at' = "rest" /\ bk'.active /\ bk.left <= 0 THEN @ + 1 ELSE @]
  /\ UNCHANGED <<car, wire, modes, boot, trip, polling, q, stall>>

(* The plan: retire a timeout, send the next request.                       *)
Served(s, i) ==
  /\ served' = [j \in DOMAIN s.plan |-> IF j = i \/ j \notin Due(s) THEN {} ELSE served[j] \cup {i}]

PollPlan ==
  /\ at = "plan"
  /\ LET s == pollSchedCheckTimeout(sched)
     IN  \/ pollSchedPick(s) = {} /\ sched' = s /\ UNCHANGED <<served, lastSent, ecu, fails>>
         \/ \E i \in pollSchedPick(s) :
              /\ Served(s, i)
              /\ \/ /\ TxAllowed /\ sched' = pollSchedSent(s, i)
                    /\ lastSent' = [lastSent EXCEPT ![i] = 0]
                    /\ Hear([mode |-> s.plan[i].mode, pid |-> s.plan[i].pid])
                    /\ UNCHANGED fails
                 \/ /\ Refused /\ sched' = pollSchedTxFailed(s, i) /\ UNCHANGED <<lastSent, ecu>>
  /\ at' = "rest"
  /\ UNCHANGED <<car, polls, wrote, overtime, wire, modes, boot, trip, bk, q, stall>>

----------------------------------------------------------------------------
(* Around the pass.                                                          *)

Pass ==
  /\ at = "rest" /\ at' = "ignition" /\ stall' = 0 /\ wrote' = NotWritten
  /\ UNCHANGED <<car, polls, overtime, wire, modes, boot, trip, bk, polling, bus, fails>>

Tick ==
  /\ at = "rest" /\ stall < car.stall /\ stall' = stall + 1
  /\ edge' = IF edge = 0 THEN 0 ELSE edge + 1
  /\ bk' = SeqTick(bk)
  /\ sched' = [sched EXCEPT !.late = [i \in DOMAIN @ |-> @[i] + 1], !.gap = IF @ < Gap THEN @ + 1 ELSE @,
                            !.sent = IF sched.inflight = 0 THEN 0 ELSE @ + 1]
  /\ lastSent' = [i \in DOMAIN lastSent |->
                    IF lastSent[i] \in 0 .. sched.plan[i].period - 1 THEN lastSent[i] + 1 ELSE lastSent[i]]
  /\ overtime' = [overtime EXCEPT !.longest = IF Ending /\ stall' > @ THEN stall' ELSE @]
  /\ UNCHANGED <<car, polls, wrote, at, key, on, modes, boot, trip, served, bus, fails>>

(* The driver, or a crank that pulls the wire down.                         *)
Turn == /\ car.ignition /\ at = "rest" /\ (key \/ car.returns) /\ key' = ~key
        /\ UNCHANGED <<car, polls, wrote, overtime, at, on, edge, modes, boot, trip, bk, polling, bus, stall, fails>>

(* An ECU puts its next frame on the bus, and pollerNoteFrame queues it     *)
(* if there is room; a frame may be lost or spoilt before it gets there.    *)
(* At the other stages of a pass nothing looks at the queue or the ECUs.    *)
Frame(e) ==
  [from |-> e, msg |-> ecu[e].msg,
   kind |-> IF ecu[e].next # First THEN "cf" ELSE IF ecu[e].msg.cfs = 0 THEN "sf" ELSE "ff",
   sn |-> IF ecu[e].next = First THEN 0 ELSE ecu[e].next % SnMod]

AfterFrame(s) ==
  IF s.next = First /\ s.msg.cfs > 0 THEN [s EXCEPT !.next = WaitsFc]
  ELSE IF s.next # First /\ s.next < s.msg.cfs THEN [s EXCEPT !.next = @ + 1]
  ELSE Silent

Noted(f) == IF Active /\ Len(q) < QueueLen THEN Append(q, f) ELSE q   \* pollerNoteFrame

EcuSends(e) ==
  /\ ecu[e].next \notin {Idle, WaitsFc} /\ at \in {"drain", "plan", "bookend", "rest"}
  /\ ecu' = [ecu EXCEPT ![e] = AfterFrame(@)]
  /\ \/ q' = Noted(Frame(e)) /\ UNCHANGED fails
     \/ /\ fails < car.fails /\ fails' = fails + 1
        /\ q' \in {q, Noted([Frame(e) EXCEPT !.kind = "bad"])}
  /\ UNCHANGED <<car, polls, wrote, overtime, at, wire, modes, boot, trip, bk, polling, stall>>

(* It gives up waiting for a Flow Control.                                   *)
EcuGivesUp(e) ==
  /\ ecu[e].next = WaitsFc /\ at = "rest" /\ ecu' = [ecu EXCEPT ![e] = Silent]
  /\ UNCHANGED <<car, polls, wrote, overtime, at, wire, modes, boot, trip, bk, polling, q, stall, fails>>

(* A reset: setup, then pollerBegin.  NVS may fail to open.                 *)
Boots ==
  /\ car.owner /\ at = "rest"
  /\ \/ plan' = loadNvs(nvs) /\ nvsOk' = (nvs.ok /\ planValid(nvs.plan)) /\ UNCHANGED fails
     \/ fails < car.fails /\ fails' = fails + 1 /\ plan' = <<>> /\ nvsOk' = FALSE
  /\ on' = key /\ edge' = 0 /\ mode' = "listen" /\ restore' = FALSE /\ pending' = FALSE
  /\ sched' = pollSchedInit(<<>>) /\ served' = <<>> /\ lastSent' = <<>>
  /\ tripStarted' = FALSE /\ endTried' = FALSE /\ cycleStart' = FALSE
  /\ bk' = NoSeq /\ wrote' = NotWritten /\ overtime' = NoOvertime /\ q' = <<>> /\ stall' = 0
  /\ UNCHANGED <<car, polls, at, key, nvs, ecu>>

PollNext ==
  \/ Pass \/ Tick \/ Turn \/ Boots
  \/ Ignition \/ Ask \/ Choose \/ Cancel \/ Post \/ PostFails \/ Nothing
  \/ Drain \/ Triggers \/ BookendTick \/ PollPlan
  \/ \E e \in Ecus : EcuSends(e) \/ EcuGivesUp(e)

PollSpec == PollInit /\ [][PollNext]_pollVars

----------------------------------------------------------------------------
(* While an entry waits overdue, no other entry is served twice.            *)
EachOnce ==
  [][at = "plan" /\ at' = "rest" =>
       LET s == pollSchedCheckTimeout(sched)
       IN  \A i \in pollSchedPick(s) : \A j \in Due(s) \ {i} : i \notin served[j]]_pollVars

(* While a plan runs, the car is never asked for an entry more often than   *)
(* its period says, whatever was late, refused or backed off.              *)
NeverFaster ==
  [][\A i \in DOMAIN sched.plan :
       at = "plan" /\ sched'.inflight = i /\ sched.inflight # i =>
         lastSent[i] = -1 \/ lastSent[i] >= sched.plan[i].period]_pollVars

(* The plan whose hash the session reports is the one a reset would load.   *)
VouchedPlan == planValid(plan) /\ (nvsOk => nvs.ok /\ plan = nvs.plan)

(* A trip_end is still being read when the debounce confirms OFF and shuts  *)
(* the gate only if loop() was held up for longer than the margin kept     *)
(* back: by its longest stall since the read began, once, and once more    *)
(* for each pass whose polls all went into Flow Controls when the time of  *)
(* the read was up.                                                        *)
EndBeforeOff ==
  [][on /\ ~on' /\ at = "ignition" /\ Ending
       => (overtime.passes + 1) * overtime.longest > EndMargin]_pollVars

(* A record marked complete holds every code and result of every message    *)
(* that came whole while its own request was open.  No message is missing  *)
(* from it for want of time or of a transmit, or for a full list; one may  *)
(* be that the cap on a request cut, that came late, or whose frames were  *)
(* spoilt, too many or out of order.                                       *)
CompleteIsHonest == wrote.complete => wrote.cut \subseteq {"cap", "frame", "late"} /\ ~wrote.omits

(* "truncated (time budget, or a cap)", of the cap on a request.  Violated. *)
CapIsTruncated == "cap" \in wrote.cut => ~wrote.complete

(* "the record is written before the debounce confirms OFF".  Violated by a *)
(* stall or by the Flow Controls owed.                                     *)
EndAlwaysBeforeOff == [][on /\ ~on' /\ at = "ignition" => ~Ending]_pollVars

(* A trip_end is written only while the ignition reads OFF.                 *)
DipDropsEnd == wrote.kind = "end" => OffPending \/ ~on

(* g_tripStarted: a START was begun in this ignition cycle.                 *)
TripIsThisCycle == tripStarted /\ on => cycleStart
=============================================================================
