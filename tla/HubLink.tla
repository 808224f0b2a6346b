-------------------------------- MODULE HubLink --------------------------------
(***************************************************************************)
(* The Wi-Fi link to the hub (hublink.cpp): scan, then join, then fall     *)
(* back to the board's own access point.  loop() runs one step of the join *)
(* per pass; the Wi-Fi task changes the link and calls onWifiEvent at any  *)
(* point, and the serial key 'w' (main.cpp, webui.cpp) switches the radio  *)
(* under all of it.                                                        *)
(***************************************************************************)
EXTENDS HubResolve, FiniteSets

CONSTANTS
  Channels,              \* channels the hub may be on
  Fast, Slow, SlowAfter, \* WIFI_SCAN_FAST_MS, WIFI_SCAN_SLOW_MS, WIFI_SCAN_SLOW_AFTER_MS
  FullEvery,             \* WIFI_SCAN_FULL_EVERY
  MaxTroubles            \* bound: moves of the hub, links lost and presses of 'w'

VARIABLES
  state, phase,          \* g_state, g_phase
  teardown, dropFlag,    \* g_teardown, g_dropFlag
  radio,                 \* the interfaces of WiFi.getMode()
  link,                  \* the station's link, "up" when WL_CONNECTED
  event,                 \* a STA_DISCONNECTED not yet delivered
  server,                \* what the web server listens on: g_running and g_apMode
  hint,                  \* channel WiFi.begin() is confined to, NoChannel for all
  known,                 \* g_hubChannel
  scanning,              \* the channels the running scan covers, {} when none runs
  scan,                  \* g_scan, times as ages
  fellBack,              \* g_fallbackNoticedMs # 0
  bootJoin,              \* g_bootJoin
  hubCh,                 \* the hub's channel, NoChannel when it is away
  troubles

joinVars == <<state, phase, bootJoin, fellBack>>
eventVars == <<teardown, dropFlag, event>>
radioVars == <<radio, link, server>>
scanVars == <<hint, known, scanning, scan>>
envVars == <<hubCh, hubAddr, troubles>>
\* resolveVars but for queries and hubAddr
resolving == <<up, mdns, answer, sched, silence, in, choice>>
vars == <<resolveVars, state, phase, teardown, dropFlag, radio, link, event, server, hint, known,
          scanning, scan, fellBack, bootJoin, hubCh, troubles>>

NoChannel == 0

-----------------------------------------------------------------------------
(* scansched.h *)

scanSchedReset(s) == [s EXCEPT !.search = 0, !.scans = 0, !.once = FALSE, !.age = 0]

scanSchedSighted(s) == [s EXCEPT !.search = 0]

scanSchedInterval(s) == IF s.search >= SlowAfter THEN Slow ELSE Fast

scanSchedDue(s) == ~s.once \/ s.age >= scanSchedInterval(s)

\* Mutant: once known, only the hub's last channel is scanned.
Covered_KnownOnly(s) == IF known = NoChannel THEN Channels ELSE {known}

Covered(s) == IF known = NoChannel \/ s.scans = 0 THEN Channels ELSE {known}

\* scans counts modulo FullEvery.
scanSchedStart(s) == [s EXCEPT !.age = 0, !.once = TRUE, !.scans = (@ + 1) % FullEvery]

-----------------------------------------------------------------------------
\* After hublinkBegin of a provisioned board: startJoin(atBoot)
Init ==
  /\ InitResolve
  /\ state = "ap" /\ phase = "join radio" /\ bootJoin = TRUE /\ fellBack = FALSE
  /\ teardown = TRUE /\ dropFlag = FALSE /\ event = FALSE
  /\ radio = {} /\ link = "down" /\ server = None
  /\ hint = NoChannel /\ known = NoChannel /\ scanning = {}
  /\ scan = [search |-> 0, age |-> 0, scans |-> 0, once |-> FALSE]
  /\ hubCh \in {NoChannel, CHOOSE c \in Channels : TRUE}     \* channels are alike
  /\ troubles = 0

\* The driver gives up the station's link: an event is posted if there was one.
LeavesStation ==
  /\ link' = "down"
  /\ event' = (event \/ link # "down")

startJoin(atBoot) ==
  /\ bootJoin' = atBoot
  /\ teardown' = TRUE
  /\ phase' = "join radio"

fallBackToAp(h) ==
  /\ teardown' = TRUE
  /\ hubResolveLinkDown(h)
  /\ state' = "ap" /\ fellBack' = TRUE /\ phase' = "leave sta"
  /\ dropFlag' = FALSE
  /\ UNCHANGED <<bootJoin, event, radioVars, scanVars, envVars>>

-----------------------------------------------------------------------------
(* stepJoin, one phase per pass; h is g_q after the reap of this pass *)

JoinRadio(h) ==
  /\ phase = "join radio"
  /\ server' = None /\ radio' = {"sta"} /\ phase' = "join begin"
  /\ queries' = h
  /\ UNCHANGED <<resolving, state, bootJoin, fellBack, eventVars, link, scanVars, envVars>>

\* begin() adds the station to whatever mode the radio is in.
JoinBegin(h) ==
  /\ phase = "join begin"
  /\ radio' = radio \cup {"sta"} /\ link' = "trying"
  /\ dropFlag' = FALSE /\ phase' = "join wait"
  /\ queries' = h
  /\ UNCHANGED <<resolving, state, bootJoin, fellBack, teardown, event, server, scanVars, envVars>>

\* The pass sees the link up ...
SeesLink(h) ==
  /\ phase = "join wait" /\ link = "up"
  /\ hubResolveLinkUp
  /\ hint' = NoChannel /\ phase' = "joined"
  /\ queries' = h
  /\ UNCHANGED <<state, bootJoin, fellBack, eventVars, radioVars, known, scanning, scan, envVars>>

\* ... and believes in it from here on; the event may fall in between.
Joined ==
  /\ phase = "joined"
  /\ dropFlag' = FALSE /\ teardown' = FALSE
  /\ known' = IF hubCh # NoChannel THEN hubCh ELSE known
  /\ state' = "sta" /\ phase' = "idle"
  /\ server' = IF server = None THEN "sta" ELSE server
  /\ scan' = scanSchedReset(scan)       \* of no effect: so does the next fallback
  /\ UNCHANGED <<resolving, queries, bootJoin, fellBack, event, radio, link, hint, scanning, envVars>>

\* WIFI_STA_TIMEOUT_MS have passed; no event stays undelivered that long.
JoinTimesOut(h) ==
  /\ phase = "join wait" /\ link # "up" /\ ~event
  /\ fellBack' = FALSE /\ hint' = NoChannel /\ phase' = "leave sta"
  /\ queries' = h
  /\ UNCHANGED <<resolving, state, bootJoin, eventVars, radioVars, known, scanning, scan, envVars>>

LeaveSta(h) ==
  /\ phase = "leave sta"
  /\ server' = None /\ LeavesStation /\ phase' = "ap radio"
  /\ queries' = h
  /\ UNCHANGED <<resolving, state, bootJoin, fellBack, teardown, dropFlag, radio, scanVars, envVars>>

ApRadio(h) ==
  /\ phase = "ap radio"
  /\ radio' = {"ap", "sta"} /\ phase' = "ap serve"
  /\ queries' = h
  /\ UNCHANGED <<resolving, state, bootJoin, fellBack, eventVars, link, server, scanVars, envVars>>

\* softAP() may fail: the board then serves nobody until its next join fails.
ApServe(h) ==
  /\ phase = "ap serve"
  /\ server' \in IF server = None THEN {"ap", None} ELSE {server}
  /\ state' = "ap" /\ phase' = "idle"
  /\ teardown' = FALSE /\ dropFlag' = FALSE
  /\ scan' = IF fellBack \/ bootJoin THEN scanSchedReset(scan) ELSE scan
  /\ fellBack' = FALSE /\ bootJoin' = FALSE
  /\ queries' = h
  /\ UNCHANGED <<resolving, event, radio, link, hint, known, scanning, envVars>>

-----------------------------------------------------------------------------
(* hublinkLoop in its steady states *)

\* Mutant: the poll of WiFi.status() is not kept as a backstop.
Lost_EventOnly == dropFlag

Lost == dropFlag \/ link # "up"

OnHub == state = "sta" /\ phase = "idle"

FallsBack(h) == OnHub /\ Lost /\ fallBackToAp(h)

StaysOnHub(h) ==
  /\ OnHub /\ ~Lost
  /\ hubResolveLoop(h)
  /\ UNCHANGED <<joinVars, eventVars, radioVars, scanVars, envVars>>

Searching == state = "ap" /\ phase = "idle"

ScanFinds(h) ==
  /\ Searching /\ hubCh \in scanning
  /\ scanning' = {} /\ known' = hubCh /\ hint' = hubCh
  /\ scan' = scanSchedSighted(scan)
  /\ startJoin(FALSE)
  /\ queries' = h
  /\ UNCHANGED <<resolving, state, fellBack, dropFlag, event, radioVars, envVars>>

\* The scan failed, or did not see the hub.
ScanMisses(h) ==
  /\ Searching /\ scanning # {}
  /\ scanning' = {}
  /\ queries' = h
  /\ UNCHANGED <<resolving, joinVars, eventVars, radioVars, hint, known, scan, envVars>>

\* scanNetworks() switches the station on; it may start nothing.
ScanStarts(h, covered) ==
  /\ Searching /\ scanning = {} /\ scanSchedDue(scan)
  /\ scan' = scanSchedStart(scan)
  /\ radio' = radio \cup {"sta"}
  /\ scanning' = covered
  /\ queries' = h
  /\ UNCHANGED <<resolving, joinVars, eventVars, link, server, hint, known, envVars>>

NothingDue(h) ==
  /\ Searching /\ scanning = {} /\ ~scanSchedDue(scan)
  /\ queries' = h
  /\ UNCHANGED <<resolving, joinVars, eventVars, radioVars, scanVars, envVars>>

hublinkLoop ==
  \/ Joined
  \/ /\ phase # "joined"
     /\ \E h \in hubQueryReap(queries) :
          \/ JoinRadio(h) \/ JoinBegin(h) \/ SeesLink(h) \/ JoinTimesOut(h)
          \/ LeaveSta(h) \/ ApRadio(h) \/ ApServe(h)
          \/ FallsBack(h) \/ StaysOnHub(h)
          \/ ScanFinds(h) \/ ScanMisses(h) \/ NothingDue(h)
          \/ ScanStarts(h, Covered(scan)) \/ ScanStarts(h, {})

-----------------------------------------------------------------------------
(* The Wi-Fi task, the key 'w' and the world *)

others == <<resolveVars, joinVars, teardown, scanVars, hubCh>>

Trouble == troubles < MaxTroubles /\ troubles' = troubles + 1

onWifiEvent ==
  /\ event /\ event' = FALSE
  /\ dropFlag' = (dropFlag \/ (~teardown /\ state = "sta"))
  /\ UNCHANGED <<others, radioVars, troubles>>

Associates ==
  /\ link = "trying" /\ "sta" \in radio /\ ~event
  /\ hubCh # NoChannel /\ hint \in {NoChannel, hubCh}
  /\ link' = "up"
  /\ UNCHANGED <<others, dropFlag, event, radio, server, troubles>>

LinkLost ==
  /\ link = "up" /\ Trouble
  /\ LeavesStation
  /\ UNCHANGED <<others, dropFlag, radio, server>>

\* handleKeys: webuiStop when the server runs, webuiStart when it does not.
KeyW ==
  /\ phase # "joined" /\ Trouble
  /\ \/ /\ server = "ap"
        /\ server' = None /\ radio' = {} /\ LeavesStation
     \/ /\ server = "sta"
        /\ server' = None /\ UNCHANGED <<radio, link, event>>
     \/ /\ server = None
        /\ server' \in {"ap", None}
        /\ radio' = IF server' = "ap" THEN {"ap"} ELSE {}
        /\ LeavesStation
  /\ UNCHANGED <<resolveVars, joinVars, teardown, dropFlag, scanVars, hubCh>>

\* The hub drives off, comes back, or gets another address.
HubMoves ==
  /\ Trouble
  /\ hubCh' \in Channels \cup {NoChannel} /\ hubAddr' \in Addrs
  /\ link' = IF link = "up" /\ hubCh' # hubCh THEN "down" ELSE link
  /\ event' = (event \/ link' # link)
  /\ UNCHANGED <<up, mdns, queries, answer, sched, silence, in, choice, joinVars, teardown, dropFlag,
                 radio, server, scanVars>>

outside == <<joinVars, eventVars, radioVars, scanVars, hubCh, troubles>>

HubAnswers == link = "up" /\ Finishes(hubAddr) /\ UNCHANGED outside

NoAnswer == Finishes(None) /\ UNCHANGED outside

Request ==
  /\ server # None
  /\ \/ link = "up" /\ hubResolveNoteRequest(hubAddr)
     \/ hubResolveNoteRequest(Bench)
  /\ UNCHANGED outside

\* On the hub's network the scan's ages are not read, and the fallback resets them.
Tick ==
  /\ ResolveTick
  /\ scan' = IF state = "sta" THEN scan
             ELSE [scan EXCEPT !.age = IF scan.once THEN Capped(@, Slow) ELSE @,
                               !.search = Capped(@, SlowAfter)]
  /\ UNCHANGED <<joinVars, eventVars, radioVars, hint, known, scanning, hubCh, troubles>>

Next ==
  \/ hublinkLoop
  \/ onWifiEvent \/ Associates \/ LinkLost \/ KeyW
  \/ HubMoves \/ HubAnswers \/ NoAnswer \/ Request
  \/ Tick

Spec == Init /\ [][Next]_vars

\* loop() and time go on, events are delivered, queries end.  What the radio may
\* do again and again (sweep, see the hub, associate, ask, hear an answer) it does.
Fairness ==
  /\ WF_vars(hublinkLoop) /\ WF_vars(Tick) /\ WF_vars(onWifiEvent)
  /\ WF_vars(HubAnswers \/ NoAnswer) /\ SF_vars(HubAnswers)
  /\ SF_vars(phase = "join wait" /\ Associates) /\ SF_vars(\E h \in hubQueryReap(queries) : SeesLink(h))
  /\ SF_vars(\E h \in hubQueryReap(queries) : Covered(scan) = Channels /\ ScanStarts(h, Channels))
  /\ SF_vars(\E h \in hubQueryReap(queries) : ScanFinds(h))
  /\ SF_vars(\E h \in hubQueryReap(queries) : StaysOnHub(h) /\ QueryStarts(h))

FairSpec == Spec /\ Fairness

-----------------------------------------------------------------------------
\* A lost link is noticed, by its event or by the poll, and the board leaves
\* the hub's network for its own (hublink.cpp:57).
ServesAgain == (OnHub /\ link # "up") ~> Searching

\* A hub that stays is found and joined for good, on whatever channel it comes
\* back, and the board ends up with its address (hublink.cpp:19, hubaddr.h:15).
FindsHub ==
  <>[](hubCh # NoChannel) => <>[](OnHub /\ link = "up" /\ (mdns = "ok" => choice.ip = hubAddr))

\* The board never associates while its radio also serves an access point
\* (hublink.cpp:44).
NeverInApSta == link # "down" => "ap" \notin radio
=============================================================================
