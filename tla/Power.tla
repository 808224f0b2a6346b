--------------------------------- MODULE Power ---------------------------------
(***************************************************************************)
(* When the board may lose power: the ignition debounce (powerpolicy.h,    *)
(* power.cpp), the go-to-sleep sequence (sleepguard.h, transceiver.cpp),   *)
(* loop()'s power stage (main.cpp) and the close rules of filestoreTick.   *)
(*                                                                         *)
(* A pass of loop() is the steps sample, sleep, keys, files, idle, mark;   *)
(* frames (canTask), ticks of the clock, the input and resets fall between *)
(* any two.  A timestamp is its age in ticks, capped at Horizon.           *)
(***************************************************************************)
EXTENDS Integers

CONSTANTS
  Policies,                          \* builds: POWER_POLICY "ignition", "bus-quiet"
  OnDebounce, OffDebounce,           \* IGN_ON_DEBOUNCE_MS, IGN_OFF_DEBOUNCE_MS
  OffSleep, BusWake, Resleep,        \* IGN_OFF_SLEEP_MS, _BUSWAKE_AWAKE_MS, _RESLEEP_MS
  IdleClose, MaxAwake,               \* CAN_BUS_IDLE_CLOSE_MS, CAN_MAX_AWAKE_MS
  Horizon,                           \* bound: ages are not told apart beyond it
  MaxPass, MaxSetup,                 \* bound: ticks in a pass, in setup()
  MaxResets, MaxPinFails             \* bound: resets, failed writes to EN/nSTB

ASSUME PowerAssumption ==
  /\ Policies \subseteq {"ignition", "bus-quiet"}
  /\ {OnDebounce, OffSleep, MaxResets, MaxPinFails, MaxPass, MaxSetup} \subseteq Nat
  /\ {OffDebounce, BusWake, Resleep, IdleClose, MaxAwake} \subseteq Nat \ {0}
  /\ Horizon \in Nat
  /\ \A t \in {OnDebounce, OffDebounce + OffSleep, BusWake, Resleep, IdleClose, MaxAwake} :
       Horizon > t + MaxPass

VARIABLES
  policy,              \* the policy this board was built with
  power, raw,          \* the rail is up; level of the ignition input
  pc,                  \* loop()'s next step
  on, pending,         \* IgnDebounce
  edge, since,         \*   ages of edgeMs, sinceMs (0 while unused)
  seenOn, wdtBoot,     \* power.cpp
  commanded,           \* ignitionPowerTick's statics
  cmdAge, backAge,     \*   ages of lastCmdMs, lastBackstopMs
  mounted, open,       \* filestore: mounted; some file is open
  rows,                \* the sniffer table has a row
  idleClosed, bus,     \* g_idleClosed; age of g_lastBusMs
  lag,                 \* age of filestoreTick's `now'
  xcvr,                \* the transceiver's mode
  said,                \* history: SAFE TO CUT POWER printed, trip not resumed since
  silent,              \* history: age of the last frame, kept over resets
  offRun,              \* history: age of the last sample that read ON
  closedOnce,          \* history: files were closed since the last frame
  passTicks, resets, pinFails

clock == <<edge, since, cmdAge, backAge, bus, lag, silent, offRun, passTicks>>
ignition == <<on, pending, edge, since, seenOn>>
statics == <<commanded, cmdAge, backAge>>
files == <<open, rows, idleClosed, lag, closedOnce>>
budget == <<resets, pinFails>>
boot == <<power, wdtBoot, mounted>>
vars == <<policy, power, raw, pc, on, pending, edge, since, seenOn, wdtBoot, commanded, cmdAge,
          backAge, mounted, open, rows, idleClosed, bus, lag, xcvr, said, silent, offRun,
          closedOnce, passTicks, resets, pinFails>>

Never == -1
Age == 0 .. Horizon
Ignition == policy = "ignition"

TypeOK ==
  /\ policy \in Policies /\ power \in {"on", "off"} /\ raw \in BOOLEAN
  /\ pc \in {"setup", "sample", "sleep", "keys", "files", "idle", "mark"}
  /\ on \in BOOLEAN /\ pending \in BOOLEAN /\ edge \in Age /\ since \in Age
  /\ seenOn \in BOOLEAN /\ wdtBoot \in BOOLEAN
  /\ commanded \in BOOLEAN /\ cmdAge \in Age /\ backAge \in Age \cup {Never}
  /\ mounted \in BOOLEAN /\ open \in BOOLEAN /\ rows \in BOOLEAN
  /\ idleClosed \in BOOLEAN /\ bus \in Age \cup {Never} /\ lag \in 0 .. MaxPass
  /\ xcvr \in {"standby", "silent", "go_to_sleep"} /\ said \in BOOLEAN
  /\ silent \in Age /\ offRun \in Age /\ closedOnce \in BOOLEAN
  /\ passTicks \in Nat /\ resets \in 0 .. MaxResets /\ pinFails \in 0 .. MaxPinFails
  /\ (open => mounted) /\ (on => since = 0) /\ (pending \/ edge = 0)
  /\ (on => seenOn) /\ lag <= passTicks /\ (pc # "idle" => lag = 0)

-----------------------------------------------------------------------------
(* The policy's clock and thresholds                                       *)

\* Mutant: a frame newer than `now' is a very old one (the unsigned difference).
BusQuiet_Unsigned(behind) ==
  IF bus = Never THEN 0 ELSE IF bus < behind THEN Horizon ELSE bus - behind

\* The bus silence seen by a `now' that is `behind' ticks old.
BusQuiet(behind) == IF bus = Never \/ bus < behind THEN 0 ELSE bus - behind

powerQuietMs == IF Ignition THEN since ELSE BusQuiet(0)

closeMs == IF Ignition THEN OffDebounce ELSE IdleClose

\* Mutant: a bus-wake boot is not told from a watchdog boot.
ignSleepAfterMs_NoWindow == IF seenOn THEN closeMs + OffSleep ELSE 0

ignSleepAfterMs == IF seenOn THEN closeMs + OffSleep ELSE IF wdtBoot THEN 0 ELSE BusWake

sleepMs ==
  IF ~Ignition THEN MaxAwake ELSE IF ignSleepAfterMs = 0 THEN 1 ELSE ignSleepAfterMs

\* Mutants: the next snapshot may reopen a file after the ignition close; the
\* trip stays over until a frame is seen.
powerMayRecord_Always == TRUE
powerMayRecord_TripOver == ~Ignition \/ (on /\ ~idleClosed)

powerMayRecord == ~Ignition \/ (on /\ powerQuietMs < closeMs)

-----------------------------------------------------------------------------
(* Going to sleep                                                          *)

sleepVerdict(isOpen) ==
  IF powerQuietMs >= sleepMs THEN IF isOpen THEN "backstop" ELSE "ok"
  ELSE IF ~mounted THEN "fs_unknown"
  ELSE IF isOpen THEN "files_open"
  ELSE IF powerQuietMs < closeMs THEN "bus_active" ELSE "ok"

\* The pins read back wrong: the mode stays what it was, and nobody retries.
transceiverSetMode(m) ==
  \/ xcvr' = m /\ UNCHANGED pinFails
  \/ /\ Ignition /\ pinFails < MaxPinFails
     /\ pinFails' = pinFails + 1
     /\ UNCHANGED xcvr

NoSleep(isOpen) ==
  /\ open' = isOpen /\ closedOnce' = (closedOnce \/ (open /\ ~isOpen))
  /\ UNCHANGED <<xcvr, said, pinFails>>

\* Close, then look again, then say so, then command.
sleepExecute(v, isOpen) ==
  LET left == isOpen /\ v # "backstop"
  IN  IF v \notin {"ok", "backstop"} \/ left
        THEN NoSleep(left)
        ELSE /\ open' = FALSE /\ closedOnce' = (closedOnce \/ open)
             /\ said' = TRUE
             /\ transceiverSetMode("go_to_sleep")

transceiverRequestSleep(isOpen) == sleepExecute(sleepVerdict(isOpen), isOpen)

transceiverForceSleep(isOpen) == sleepExecute("backstop", isOpen)

-----------------------------------------------------------------------------
(* setup(): powerBegin takes the first sample, filestoreBegin takes its    *)
(* time, then the boot check.                                              *)

BootState(isOn, wdt, xc) ==
  /\ power' = "on" /\ pc' = "setup" /\ wdtBoot' = wdt
  /\ on' = isOn /\ pending' = FALSE /\ edge' = 0 /\ since' = 0 /\ seenOn' = isOn
  /\ commanded' = FALSE /\ cmdAge' = 0 /\ backAge' = Never
  /\ mounted' \in BOOLEAN /\ open' = FALSE /\ rows' = FALSE
  /\ idleClosed' = FALSE /\ bus' = Never /\ lag' = 0
  /\ xcvr' = xc /\ said' = FALSE /\ offRun' = 0
  /\ closedOnce' = FALSE /\ passTicks' = 0

Boot(wdt) ==
  LET isOn == ~Ignition \/ raw
  IN  BootState(isOn, wdt, IF Ignition /\ isOn THEN "silent" ELSE "standby")

Init ==
  /\ policy \in Policies /\ raw \in BOOLEAN /\ silent = 0 /\ resets = 0 /\ pinFails = 0
  /\ power = "on" /\ pc = "setup" /\ wdtBoot = FALSE
  /\ on = (~Ignition \/ raw) /\ seenOn = on /\ pending = FALSE /\ edge = 0 /\ since = 0
  /\ commanded = FALSE /\ cmdAge = 0 /\ backAge = Never
  /\ mounted \in BOOLEAN /\ open = FALSE /\ rows = FALSE
  /\ idleClosed = FALSE /\ bus = Never /\ lag = 0
  /\ xcvr = IF Ignition /\ on THEN "silent" ELSE "standby"
  /\ said = FALSE /\ offRun = 0 /\ closedOnce = FALSE /\ passTicks = 0

Setup ==
  /\ power = "on" /\ pc = "setup"
  /\ transceiverRequestSleep(open)
  /\ pc' = "sample" /\ passTicks' = 0
  /\ UNCHANGED <<policy, raw, boot, ignition, statics, rows, idleClosed, bus, lag, silent,
                 offRun, resets>>

-----------------------------------------------------------------------------
(* One pass of loop()                                                      *)

Believe(level, age) ==
  /\ on' = level /\ pending' = FALSE /\ edge' = 0
  /\ since' = IF level THEN 0 ELSE age
  /\ IF level
       THEN seenOn' = TRUE /\ said' = FALSE /\ transceiverSetMode("silent")
       ELSE UNCHANGED <<seenOn, said, xcvr, pinFails>>

\* Mutant: a glitch shorter than the window is not forgotten.
Steady_KeepsEdge ==
  UNCHANGED <<on, pending, edge, since, seenOn, said, xcvr, pinFails>>

\* The input reads what is believed: a pending run is forgotten.
Steady ==
  /\ pending' = FALSE /\ edge' = 0
  /\ UNCHANGED <<on, since, seenOn, said, xcvr, pinFails>>

\* Mutant: every sample starts the run anew.
PendingRun_Restarts == 0

PendingRun == IF pending THEN edge ELSE 0

ignDebounce ==
  LET need == IF raw THEN OnDebounce ELSE OffDebounce
  IN  \/ raw = on /\ Steady
      \/ raw # on /\ PendingRun >= need /\ Believe(raw, PendingRun)
      \/ /\ raw # on /\ PendingRun < need
         /\ pending' = TRUE /\ edge' = PendingRun
         /\ UNCHANGED <<on, since, seenOn, said, xcvr, pinFails>>

powerLoop ==
  /\ power = "on" /\ pc = "sample"
  /\ pc' = "sleep" /\ passTicks' = 0
  /\ IF Ignition
       THEN ignDebounce /\ offRun' = IF raw THEN 0 ELSE offRun
       ELSE UNCHANGED <<ignition, said, xcvr, pinFails, offRun>>
  /\ UNCHANGED <<policy, raw, boot, statics, files, bus, silent, resets>>

AtSleepStep ==
  /\ power = "on" /\ pc = "sleep" /\ pc' = "keys"
  /\ UNCHANGED <<policy, raw, boot, ignition, idleClosed, bus, lag, silent, offRun, passTicks,
                 resets>>

\* Mutant: the last OFF's command counts for this one.
IgnitionIsOn_KeepsCommanded ==
  /\ AtSleepStep /\ Ignition /\ on
  /\ UNCHANGED <<statics, open, rows, closedOnce, xcvr, said, pinFails>>

IgnitionIsOn ==
  /\ AtSleepStep /\ Ignition /\ on
  /\ commanded' = FALSE /\ cmdAge' = 0
  /\ UNCHANGED <<backAge, open, rows, closedOnce, xcvr, said, pinFails>>

BackstopDue == since >= MaxAwake /\ (backAge = Never \/ backAge >= Resleep)

SleepDue == since < MaxAwake /\ since >= sleepMs /\ ~(commanded /\ cmdAge < Resleep)

\* OFF: a transmitting mode is dropped to LISTEN first (the mode change closes
\* the files and empties the sniffer table), then sleep is commanded if due.
ignitionPowerTick ==
  /\ AtSleepStep /\ Ignition /\ ~on
  /\ \E drop \in BOOLEAN :
       LET isOpen == open /\ ~drop
       IN  /\ rows' = (rows /\ ~drop)
           /\ \/ BackstopDue /\ transceiverForceSleep(isOpen)
                 /\ backAge' = 0 /\ UNCHANGED <<commanded, cmdAge>>
              \/ SleepDue /\ transceiverRequestSleep(isOpen)
                 /\ commanded' = TRUE /\ cmdAge' = 0 /\ UNCHANGED backAge
              \/ ~BackstopDue /\ ~SleepDue /\ NoSleep(isOpen) /\ UNCHANGED statics

BusQuietTick ==
  /\ AtSleepStep /\ ~Ignition
  /\ IF powerQuietMs >= sleepMs THEN transceiverRequestSleep(open) ELSE NoSleep(open)
  /\ UNCHANGED <<rows, statics>>

\* Key, button or API: a mode change closes the files, empties the table.
Keys ==
  /\ power = "on" /\ pc = "keys" /\ pc' = "files"
  /\ \/ UNCHANGED <<open, rows, closedOnce>>
     \/ open' = FALSE /\ rows' = FALSE /\ closedOnce' = (closedOnce \/ open)
  /\ UNCHANGED <<policy, raw, boot, ignition, statics, idleClosed, bus, lag, xcvr, said, silent,
                 offRun, passTicks, budget>>

AtFilesStep ==
  /\ power = "on" /\ pc = "files"
  /\ UNCHANGED <<policy, raw, boot, ignition, statics, bus, xcvr, said, silent, offRun,
                 passTicks, budget>>

KeyOffClose ==
  /\ AtFilesStep /\ mounted /\ ~powerMayRecord
  /\ pc' = "sample"
  /\ open' = FALSE
  /\ idleClosed' = (idleClosed \/ open) /\ closedOnce' = (closedOnce \/ open)
  /\ UNCHANGED <<rows, lag>>

\* filestoreLoop returns at once.
Unmounted ==
  /\ AtFilesStep /\ ~mounted
  /\ pc' = "sample"
  /\ UNCHANGED files

\* A due snapshot opens a file if the table has a row (a drain needs frames
\* too); an open may fail.
Record ==
  /\ AtFilesStep /\ mounted /\ powerMayRecord
  /\ pc' = "idle" /\ lag' = 0
  /\ open' \in {open, open \/ rows}
  /\ UNCHANGED <<rows, idleClosed, closedOnce>>

\* `now' is the one read at the top of the pass; the last frame is read here.
IdleClosable ==
  /\ ~Ignition /\ ~idleClosed /\ open
  /\ bus # Never /\ BusQuiet(lag) >= IdleClose

\* filestoreTick: the clean key-off of the bus-quiet policy.
IdleCheck ==
  /\ power = "on" /\ pc = "idle" /\ lag' = 0
  /\ IF IdleClosable
       THEN open' = FALSE /\ closedOnce' = TRUE /\ pc' = "mark"
       ELSE pc' = "sample" /\ UNCHANGED <<open, closedOnce>>
  /\ UNCHANGED <<policy, raw, boot, ignition, statics, rows, idleClosed, bus, xcvr, said, silent,
                 offRun, passTicks, budget>>

MarkIdleClosed ==
  /\ power = "on" /\ pc = "mark"
  /\ idleClosed' = TRUE /\ pc' = "sample"
  /\ UNCHANGED <<policy, raw, boot, ignition, statics, open, rows, lag, closedOnce, bus, xcvr,
                 said,
                 silent, offRun, passTicks, budget>>

-----------------------------------------------------------------------------
(* The rest of the world                                                   *)

\* canTask: filestoreNoteBusActivity, and a row in the sniffer table.
filestoreNoteBusActivity ==
  /\ power = "on" /\ pc # "setup"
  /\ bus' = 0 /\ silent' = 0
  /\ idleClosed' = FALSE /\ rows' = TRUE /\ closedOnce' = FALSE
  /\ said' = (said /\ Ignition)
  /\ UNCHANGED <<policy, raw, pc, boot, ignition, statics, open, lag, xcvr, offRun, passTicks,
                 budget>>

\* A frame nobody receives.
UnseenFrame ==
  /\ power = "off" \/ pc = "setup"
  /\ silent' = 0
  /\ UNCHANGED <<policy, raw, pc, boot, ignition, statics, files, bus, xcvr, said, offRun,
                 passTicks,
                 budget>>

Switch ==
  /\ Ignition /\ raw' = ~raw
  /\ UNCHANGED <<policy, pc, boot, ignition, statics, files, bus, xcvr, said, silent, offRun,
                 passTicks, budget>>

Older(age, cap) == IF age = Never THEN Never ELSE IF age >= cap THEN cap ELSE age + 1

\* Ages nothing compares under this policy are not told apart.
BusCap == IF Ignition THEN 0 ELSE Horizon
OffCap == IF Ignition THEN Horizon ELSE 0

Tick ==
  /\ power = "on"
  /\ passTicks < (IF pc = "setup" THEN MaxSetup ELSE MaxPass)
  /\ passTicks' = passTicks + 1
  /\ edge' = IF pending THEN Older(edge, Horizon) ELSE 0
  /\ since' = IF on THEN 0 ELSE Older(since, Horizon)
  /\ cmdAge' = IF commanded THEN Older(cmdAge, Resleep) ELSE 0
  /\ backAge' = Older(backAge, Resleep)
  /\ bus' = Older(bus, BusCap) /\ silent' = Older(silent, BusCap)
  /\ lag' = IF pc = "idle" THEN lag + 1 ELSE 0
  /\ offRun' = Older(offRun, OffCap)
  /\ UNCHANGED <<policy, raw, pc, boot, on, pending, seenOn, commanded, open, rows, idleClosed,
                 closedOnce, xcvr, said, budget>>

\* INH is low and the switched supply is off.
RailFalls ==
  /\ power = "on" /\ Ignition /\ xcvr = "go_to_sleep" /\ ~raw
  /\ power' = "off"
  /\ UNCHANGED <<policy, raw, pc, wdtBoot, mounted, ignition, statics, files, bus, xcvr, said,
                 silent,
                 offRun, passTicks, budget>>

\* The switched supply, or traffic seen by the transceiver.
Wake ==
  /\ power = "off" /\ Boot(FALSE)
  /\ UNCHANGED <<policy, raw, silent, budget>>

Reset ==
  /\ power = "on" /\ resets < MaxResets
  /\ resets' = resets + 1
  /\ \E wdt \in BOOLEAN : Boot(wdt)
  /\ UNCHANGED <<policy, raw, silent, pinFails>>

LoopStep ==
  \/ Setup
  \/ powerLoop
  \/ IgnitionIsOn
  \/ ignitionPowerTick
  \/ BusQuietTick
  \/ Keys
  \/ KeyOffClose
  \/ Unmounted
  \/ Record
  \/ IdleCheck
  \/ MarkIdleClosed

Next ==
  \/ LoopStep
  \/ filestoreNoteBusActivity
  \/ UnseenFrame
  \/ Switch
  \/ Tick
  \/ RailFalls
  \/ Wake
  \/ Reset

Spec == Init /\ [][Next]_vars

\* loop() keeps running (the task watchdog resets it otherwise), time passes,
\* and the switched supply starts the board.
FairSpec ==
  /\ Spec
  /\ WF_vars(LoopStep) /\ WF_vars(Tick) /\ WF_vars(raw /\ Wake)

-----------------------------------------------------------------------------
(* Properties: both policies                                               *)

(* After a pass's sleep stage a quiet trip has been told to sleep: the     *)
(* guard, the repeat timer and the ON/OFF edges leave no way to stay awake *)
(* past the threshold (sleepguard.h layer 3, ignitionPowerTick).           *)
SleepsInTime ==
  (power = "on" /\ pc = "keys" /\ pinFails = 0) =>
    IF Ignition
      THEN ~on /\ since - passTicks >= sleepMs => xcvr = "go_to_sleep"
      ELSE bus # Never /\ bus - passTicks >= MaxAwake => said

-----------------------------------------------------------------------------
(* Properties: the ignition policy                                         *)

(* From SAFE TO CUT POWER until the ignition is believed ON again no file  *)
(* is open: neither a snapshot nor the drain undoes the close.             *)
SafeStaysSafe == Ignition /\ said => ~open

(* OFF is believed only after every sample over the debounce read OFF: a   *)
(* dip while cranking never ends the trip.                                 *)
NoFalseOff ==
  [][pc = "sample" /\ pc' = "sleep" /\ on /\ ~on' => offRun' >= OffDebounce]_vars

(* The rail only falls on a board with every file closed, unless a write   *)
(* to the transceiver's pins has failed.                                   *)
RailFindsNothingOpen ==
  [][power = "on" /\ power' = "off" /\ pinFails = 0 => ~open]_vars

(* The same when a pin write may fail (power.cpp: ON holds the supply).    *)
RailNeverCutsAFile == [][power = "on" /\ power' = "off" => ~open]_vars

(* A bus-wake boot stays up for its whole window (powerpolicy.h), however  *)
(* long setup() takes and whatever the input does.  One way out: the check *)
(* that ends setup() has no window, and finds the OFF debounce over        *)
(* if setup() outlasted it.                                                *)
WakeWindowKept ==
  [][Ignition /\ said' /\ ~said /\ ~seenOn /\ ~wdtBoot
       => since >= BusWake \/ (pc = "setup" /\ since >= closeMs)]_vars

(* The same with no way out, as powerpolicy.h has it.                      *)
WakeWindowWhole ==
  [][Ignition /\ said' /\ ~said /\ ~seenOn /\ ~wdtBoot => since >= BusWake]_vars

(* An ignition that stays OFF puts the board to sleep, whatever the bus    *)
(* does and however often it wakes the board.                              *)
SleepsWhenOff == Ignition /\ <>[]~raw => []<>(power = "off" \/ xcvr = "go_to_sleep")

(* An ignition that stays ON gets a board that may record, for good.       *)
RecordsWhenOn == Ignition /\ <>[]raw => <>[](power = "on" /\ powerMayRecord)

-----------------------------------------------------------------------------
(* Properties: the bus-quiet policy                                        *)

(* No idle close while frames arrive: what is closed as a key-off has been *)
(* silent for the threshold, though `now' is old when it is compared.      *)
NoFalseIdleClose ==
  [][~Ignition /\ pc = "idle" /\ pc' = "mark" => silent >= IdleClose]_vars

(* filestoreIdleClosed(): every open file has been closed (filestore.h).   *)
IdleClosedMeansClosed == (~Ignition /\ idleClosed) => ~open

(* A key-off closes the files once, a pass or two after the threshold.     *)
KeyOffCloses ==
  (~Ignition /\ power = "on" /\ pc = "sleep" /\ open /\ bus > IdleClose + 2 * MaxPass)
    => closedOnce

=============================================================================
