----------------------------- MODULE Power_proofs -----------------------------
(***************************************************************************)
(* Safety of Power for every threshold, pass length and number of resets.  *)
(***************************************************************************)
EXTENDS Power, TLAPS

LEMMA Constants ==
  /\ OnDebounce \in Nat /\ OffSleep \in Nat /\ MaxResets \in Nat /\ MaxPinFails \in Nat
  /\ MaxPass \in Nat /\ MaxSetup \in Nat /\ Horizon \in Nat
  /\ OffDebounce \in Nat /\ BusWake \in Nat /\ Resleep \in Nat
  /\ IdleClose \in Nat /\ MaxAwake \in Nat
  /\ OffDebounce > 0 /\ BusWake > 0 /\ Resleep > 0 /\ IdleClose > 0 /\ MaxAwake > 0
  /\ OffDebounce <= Horizon /\ Resleep <= Horizon /\ IdleClose <= Horizon
BY PowerAssumption

(* A board keeps the policy it was built with.                             *)
LEMMA PolicyKept ==
  ASSUME [Next]_vars
  PROVE  /\ policy' = policy /\ (Ignition' <=> Ignition)
         /\ closeMs' = closeMs
         /\ UNCHANGED <<seenOn, wdtBoot>> => sleepMs' = sleepMs
<1>1. policy' = policy
  <2>1. CASE LoopStep
    BY <2>1 DEF LoopStep, Setup, powerLoop, IgnitionIsOn, ignitionPowerTick, BusQuietTick, Keys,
       KeyOffClose, Unmounted, Record, IdleCheck, MarkIdleClosed, AtSleepStep, AtFilesStep
  <2>2. CASE filestoreNoteBusActivity \/ UnseenFrame \/ Switch \/ Tick \/ RailFalls
    BY <2>2 DEF filestoreNoteBusActivity, UnseenFrame, Switch, Tick, RailFalls
  <2>3. CASE Wake \/ Reset
    BY <2>3 DEF Wake, Reset
  <2>4. CASE UNCHANGED vars
    BY <2>4 DEF vars
  <2> QED
    BY <2>1, <2>2, <2>3, <2>4 DEF Next
<1>2. (Ignition' <=> Ignition) /\ closeMs' = closeMs
  BY <1>1 DEF Ignition, closeMs
<1>3. UNCHANGED <<seenOn, wdtBoot>> => sleepMs' = sleepMs
  BY <1>2 DEF sleepMs, ignSleepAfterMs
<1> QED
  BY <1>1, <1>2, <1>3

(* Ageing keeps an age an age.                                             *)
LEMMA OlderIsAge ==
  ASSUME NEW cap \in Age
  PROVE  /\ \A a \in Age : Older(a, cap) \in Age
         /\ \A a \in Age \cup {Never} : Older(a, cap) \in Age \cup {Never}
         /\ Older(Never, cap) = Never
BY Constants DEF Older, Age, Never

(* Of two ages the older stays the older.                                  *)
LEMMA OlderKeepsOrder ==
  ASSUME NEW a \in Age, NEW b \in Age, NEW cap \in Age, a <= b, a <= cap
  PROVE  Older(a, cap) <= Older(b, cap) \/ a = cap
BY Constants DEF Older, Age, Never

LEMMA TypeInit == Init => TypeOK
<1> SUFFICES ASSUME Init PROVE TypeOK
  OBVIOUS
<1>1. /\ edge \in Age /\ since \in Age /\ cmdAge \in Age /\ backAge \in Age \cup {Never}
      /\ bus \in Age \cup {Never} /\ lag \in 0 .. MaxPass /\ silent \in Age /\ offRun \in Age
      /\ resets \in 0 .. MaxResets /\ pinFails \in 0 .. MaxPinFails /\ passTicks \in Nat
      /\ lag <= passTicks
  BY Constants DEF Init, Age
<1>2. /\ on \in BOOLEAN /\ seenOn \in BOOLEAN /\ (on => seenOn)
  BY DEF Init
<1>3. xcvr \in {"standby", "silent", "go_to_sleep"}
  BY DEF Init
<1> QED
  BY <1>1, <1>2, <1>3 DEF Init, TypeOK

(* What a sleep attempt may leave behind, whatever it was asked.           *)
LEMMA SleepTypes ==
  ASSUME NEW v, NEW isOpen \in BOOLEAN, TypeOK, sleepExecute(v, isOpen)
  PROVE  /\ open' \in BOOLEAN /\ (open' => isOpen)
         /\ closedOnce' \in BOOLEAN /\ said' \in BOOLEAN
         /\ xcvr' \in {"standby", "silent", "go_to_sleep"} /\ pinFails' \in 0 .. MaxPinFails
<1>1. open \in BOOLEAN /\ closedOnce \in BOOLEAN /\ said \in BOOLEAN
      /\ xcvr \in {"standby", "silent", "go_to_sleep"} /\ pinFails \in 0 .. MaxPinFails
  BY DEF TypeOK
<1>2. CASE v \notin {"ok", "backstop"} \/ (isOpen /\ v # "backstop")
  BY <1>1, <1>2 DEF sleepExecute, NoSleep
<1>3. CASE ~(v \notin {"ok", "backstop"} \/ (isOpen /\ v # "backstop"))
  <2>1. open' = FALSE /\ closedOnce' = (closedOnce \/ open) /\ said' = TRUE
        /\ transceiverSetMode("go_to_sleep")
    BY <1>3 DEF sleepExecute
  <2>2. xcvr' \in {"standby", "silent", "go_to_sleep"} /\ pinFails' \in 0 .. MaxPinFails
    BY <1>1, <2>1, Constants DEF transceiverSetMode
  <2> QED
    BY <1>1, <2>1, <2>2
<1> QED
  BY <1>2, <1>3

(* One debounced sample keeps the ignition's types.                        *)
LEMMA DebounceTypes ==
  ASSUME TypeOK, ignDebounce
  PROVE  /\ on' \in BOOLEAN /\ pending' \in BOOLEAN /\ edge' \in Age /\ since' \in Age
         /\ seenOn' \in BOOLEAN /\ (on' => since' = 0) /\ (pending' \/ edge' = 0)
         /\ (on' => seenOn') /\ said' \in BOOLEAN
         /\ xcvr' \in {"standby", "silent", "go_to_sleep"} /\ pinFails' \in 0 .. MaxPinFails
<1>1. /\ raw \in BOOLEAN /\ on \in BOOLEAN /\ pending \in BOOLEAN /\ edge \in Age /\ since \in Age
      /\ seenOn \in BOOLEAN /\ (on => since = 0) /\ (on => seenOn) /\ said \in BOOLEAN
      /\ xcvr \in {"standby", "silent", "go_to_sleep"} /\ pinFails \in 0 .. MaxPinFails
  BY DEF TypeOK
<1>2. 0 \in Age /\ PendingRun \in Age
  BY <1>1, Constants DEF PendingRun, Age
<1>3. CASE raw = on /\ Steady
  BY <1>1, <1>2, <1>3 DEF Steady
<1>4. CASE Believe(raw, PendingRun)
  <2>1. on' = raw /\ pending' = FALSE /\ edge' = 0 /\ since' = IF raw THEN 0 ELSE PendingRun
    BY <1>4 DEF Believe
  <2>2. CASE raw
    <3>1. seenOn' = TRUE /\ said' = FALSE /\ transceiverSetMode("silent")
      BY <1>4, <2>2 DEF Believe
    <3>2. xcvr' \in {"standby", "silent", "go_to_sleep"} /\ pinFails' \in 0 .. MaxPinFails
      BY <1>1, <3>1, Constants DEF transceiverSetMode
    <3> QED
      BY <1>1, <1>2, <2>1, <2>2, <3>1, <3>2
  <2>3. CASE ~raw
    <3>1. UNCHANGED <<seenOn, said, xcvr, pinFails>>
      BY <1>4, <2>3 DEF Believe
    <3> QED
      BY <1>1, <1>2, <2>1, <2>3, <3>1
  <2> QED
    BY <2>2, <2>3
<1>5. CASE pending' = TRUE /\ edge' = PendingRun /\ UNCHANGED <<on, since, seenOn, said, xcvr, pinFails>>
  BY <1>1, <1>2, <1>5
<1> QED
  BY <1>3, <1>4, <1>5 DEF ignDebounce

(* Every boot starts from well-typed state.                                *)
LEMMA BootTypes ==
  ASSUME NEW wdt \in BOOLEAN, TypeOK, Boot(wdt), policy' = policy, raw' = raw, silent' = silent,
         resets' \in 0 .. MaxResets, pinFails' \in 0 .. MaxPinFails
  PROVE  TypeOK'
<1>1. 0 \in Age /\ 0 \in 0 .. MaxPass
  BY Constants DEF Age
<1>2. PICK isOn \in BOOLEAN, xc \in {"standby", "silent"} : BootState(isOn, wdt, xc)
  BY DEF Boot
<1>3. /\ power' = "on" /\ pc' = "setup" /\ wdtBoot' \in BOOLEAN
      /\ on' \in BOOLEAN /\ pending' \in BOOLEAN /\ edge' = 0 /\ since' = 0 /\ seenOn' = on'
      /\ commanded' \in BOOLEAN /\ cmdAge' = 0 /\ backAge' = Never /\ bus' = Never /\ lag' = 0
      /\ offRun' = 0 /\ passTicks' = 0
  BY <1>2 DEF BootState
<1>4. /\ mounted' \in BOOLEAN /\ open' \in BOOLEAN /\ ~open' /\ rows' \in BOOLEAN
      /\ idleClosed' \in BOOLEAN /\ xcvr' \in {"standby", "silent"} /\ said' \in BOOLEAN
      /\ closedOnce' \in BOOLEAN
  BY <1>2 DEF BootState
<1>5. policy' \in Policies /\ raw' \in BOOLEAN /\ silent' \in Age
  BY DEF TypeOK
<1> QED
  BY <1>1, <1>3, <1>4, <1>5 DEF TypeOK

LEMMA TypeStep == TypeOK /\ [Next]_vars => TypeOK'
<1> SUFFICES ASSUME TypeOK, [Next]_vars PROVE TypeOK'
  OBVIOUS
<1> policy' \in Policies
  BY PolicyKept DEF TypeOK
<1>0. 0 \in Age /\ Never \in Age \cup {Never} /\ 0 \in 0 .. MaxPass
  BY Constants DEF Age
<1>1. CASE Setup
  <2>1. open \in BOOLEAN /\ sleepExecute(sleepVerdict(open), open)
    BY <1>1 DEF Setup, transceiverRequestSleep, TypeOK
  <2> QED
    BY <1>1, <2>1, SleepTypes DEF Setup, TypeOK, boot, ignition, statics
<1>2. CASE powerLoop
  <2>1. CASE Ignition
    <3>1. ignDebounce /\ offRun' \in Age
      BY <1>0, <1>2, <2>1 DEF powerLoop, TypeOK
    <3> QED
      BY <1>2, <3>1, DebounceTypes DEF powerLoop, TypeOK, boot, statics, files
  <2>2. CASE ~Ignition
    BY <1>2, <2>2 DEF powerLoop, TypeOK, boot, ignition, statics, files
  <2> QED
    BY <2>1, <2>2
<1>3. CASE IgnitionIsOn
  <2>1. /\ commanded' \in BOOLEAN /\ cmdAge' \in Age /\ pc' = "keys" /\ pc = "sleep"
        /\ UNCHANGED <<raw, boot, ignition, backAge, files, bus, xcvr, said, silent, offRun, passTicks, budget>>
    BY <1>0, <1>3 DEF IgnitionIsOn, AtSleepStep, files, budget
  <2> QED
    BY <2>1 DEF TypeOK, boot, ignition, files, budget
<1>4. CASE ignitionPowerTick
  <2> PICK drop \in BOOLEAN :
        /\ rows' = (rows /\ ~drop)
        /\ \/ BackstopDue /\ transceiverForceSleep(open /\ ~drop)
              /\ backAge' = 0 /\ UNCHANGED <<commanded, cmdAge>>
           \/ SleepDue /\ transceiverRequestSleep(open /\ ~drop)
              /\ commanded' = TRUE /\ cmdAge' = 0 /\ UNCHANGED backAge
           \/ ~BackstopDue /\ ~SleepDue /\ NoSleep(open /\ ~drop) /\ UNCHANGED statics
    BY <1>4 DEF ignitionPowerTick
  <2> DEFINE isOpen == open /\ ~drop
  <2>1. isOpen \in BOOLEAN /\ (isOpen => open) /\ rows' \in BOOLEAN
    BY DEF TypeOK
  <2>2. /\ open' \in BOOLEAN /\ (open' => isOpen) /\ closedOnce' \in BOOLEAN /\ said' \in BOOLEAN
        /\ xcvr' \in {"standby", "silent", "go_to_sleep"} /\ pinFails' \in 0 .. MaxPinFails
    <3>1. CASE transceiverForceSleep(isOpen)
      BY <2>1, <3>1, SleepTypes DEF transceiverForceSleep
    <3>2. CASE transceiverRequestSleep(isOpen)
      BY <2>1, <3>2, SleepTypes DEF transceiverRequestSleep
    <3>3. CASE NoSleep(isOpen)
      BY <2>1, <3>3 DEF NoSleep, TypeOK
    <3> QED
      BY <3>1, <3>2, <3>3
  <2>3. commanded' \in BOOLEAN /\ cmdAge' \in Age /\ backAge' \in Age \cup {Never}
    BY <1>0 DEF statics, TypeOK
  <2> HIDE DEF isOpen
  <2> QED
    BY <1>4, <2>1, <2>2, <2>3 DEF ignitionPowerTick, AtSleepStep, TypeOK, boot, ignition
<1>5. CASE BusQuietTick
  <2>1. open \in BOOLEAN
    BY DEF TypeOK
  <2>2. /\ open' \in BOOLEAN /\ (open' => open) /\ closedOnce' \in BOOLEAN /\ said' \in BOOLEAN
        /\ xcvr' \in {"standby", "silent", "go_to_sleep"} /\ pinFails' \in 0 .. MaxPinFails
    <3>1. CASE transceiverRequestSleep(open)
      BY <2>1, <3>1, SleepTypes DEF transceiverRequestSleep
    <3>2. CASE NoSleep(open)
      BY <2>1, <3>2 DEF NoSleep, TypeOK
    <3> QED
      BY <1>5, <3>1, <3>2 DEF BusQuietTick
  <2> QED
    BY <1>5, <2>2 DEF BusQuietTick, AtSleepStep, TypeOK, boot, ignition, statics
<1>6. CASE Keys
  <2>1. /\ open' \in BOOLEAN /\ (open' => open) /\ rows' \in BOOLEAN /\ closedOnce' \in BOOLEAN
        /\ pc' = "files" /\ pc = "keys"
        /\ UNCHANGED <<raw, boot, ignition, statics, idleClosed, bus, lag, xcvr, said, silent,
                       offRun, passTicks, budget>>
    <3>1. CASE UNCHANGED <<open, rows, closedOnce>>
      BY <1>6, <3>1 DEF Keys, TypeOK
    <3>2. CASE open' = FALSE /\ rows' = FALSE /\ closedOnce' = (closedOnce \/ open)
      BY <1>6, <3>2 DEF Keys, TypeOK
    <3> QED
      BY <1>6, <3>1, <3>2 DEF Keys
  <2> QED
    BY <2>1 DEF TypeOK, boot, ignition, statics, budget
<1>7. CASE KeyOffClose
  <2>1. /\ open' \in BOOLEAN /\ (open' => open) /\ idleClosed' \in BOOLEAN /\ closedOnce' \in BOOLEAN
        /\ pc' = "sample" /\ pc = "files"
        /\ UNCHANGED <<raw, boot, ignition, statics, bus, rows, lag, xcvr, said, silent, offRun,
                       passTicks, budget>>
    BY <1>7 DEF KeyOffClose, AtFilesStep, TypeOK
  <2> QED
    BY <2>1 DEF TypeOK, boot, ignition, statics, budget
<1>8. CASE Unmounted
  BY <1>8 DEF Unmounted, AtFilesStep, TypeOK, boot, ignition, statics, budget, files
<1>9. CASE Record
  BY <1>0, <1>9, Constants DEF Record, AtFilesStep, TypeOK, boot, ignition, statics, budget
<1>10. CASE IdleCheck
  <2>1. /\ open' \in BOOLEAN /\ (open' => open) /\ closedOnce' \in BOOLEAN
        /\ pc' \in {"mark", "sample"} /\ lag' = 0
        /\ UNCHANGED <<raw, boot, ignition, statics, rows, idleClosed, bus, xcvr, said, silent,
                       offRun, passTicks, budget>>
    <3>1. CASE IdleClosable
      BY <1>10, <3>1 DEF IdleCheck, TypeOK
    <3>2. CASE ~IdleClosable
      <4>1. pc' = "sample" /\ UNCHANGED <<open, closedOnce>>
        BY <1>10, <3>2 DEF IdleCheck
      <4> QED
        BY <1>10, <4>1 DEF IdleCheck, TypeOK
    <3> QED
      BY <3>1, <3>2
  <2>2. lag' <= passTicks'
    BY <2>1 DEF TypeOK
  <2> QED
    BY <1>0, <2>1, <2>2 DEF TypeOK, boot, ignition, statics, budget
<1>11. CASE MarkIdleClosed
  BY <1>11 DEF MarkIdleClosed, TypeOK, boot, ignition, statics, budget
<1>12. CASE filestoreNoteBusActivity
  <2>1. /\ bus' \in Age /\ silent' \in Age /\ idleClosed' \in BOOLEAN /\ rows' \in BOOLEAN
        /\ closedOnce' \in BOOLEAN /\ said' \in BOOLEAN
        /\ UNCHANGED <<raw, pc, boot, ignition, statics, open, lag, xcvr, offRun, passTicks, budget>>
    BY <1>0, <1>12 DEF filestoreNoteBusActivity, TypeOK
  <2> QED
    BY <2>1 DEF TypeOK, boot, ignition, statics, budget
<1>13. CASE UnseenFrame
  BY <1>0, <1>13, Constants DEF UnseenFrame, TypeOK, boot, ignition, statics, budget, files
<1>14. CASE Switch
  BY <1>14 DEF Switch, TypeOK, boot, ignition, statics, budget, files
<1>15. CASE Tick
  <2>1. BusCap \in Age /\ OffCap \in Age /\ Horizon \in Age /\ Resleep \in Age
    BY Constants DEF BusCap, OffCap, Age
  <2>2. /\ edge' \in Age /\ since' \in Age /\ cmdAge' \in Age /\ offRun' \in Age /\ silent' \in Age
        /\ backAge' \in Age \cup {Never} /\ bus' \in Age \cup {Never}
    BY <1>0, <1>15, <2>1, OlderIsAge, Constants DEF Tick, TypeOK
  <2>3. lag' \in 0 .. MaxPass /\ lag' <= passTicks' /\ (pc' # "idle" => lag' = 0)
    <3>1. lag \in 0 .. MaxPass /\ lag <= passTicks /\ passTicks \in Nat /\ (pc # "idle" => lag = 0)
      BY DEF TypeOK
    <3>2. pc = "idle" => passTicks < MaxPass
      BY <1>15 DEF Tick
    <3> QED
      BY <1>15, <3>1, <3>2, Constants DEF Tick
  <2>4. passTicks' \in Nat
    BY <1>15 DEF Tick, TypeOK
  <2>5. (on' => since' = 0) /\ (pending' \/ edge' = 0)
    BY <1>15 DEF Tick
  <2> QED
    BY <1>15, <2>2, <2>3, <2>4, <2>5 DEF Tick, TypeOK, boot, budget
<1>16. CASE RailFalls
  BY <1>16 DEF RailFalls, TypeOK, ignition, statics, budget, files
<1>17. CASE Wake
  BY <1>17, BootTypes DEF Wake, TypeOK, budget
<1>18. CASE Reset
  <2>1. /\ \E wdt \in BOOLEAN : Boot(wdt)
        /\ policy' = policy /\ raw' = raw /\ silent' = silent /\ pinFails' = pinFails /\ resets' \in 0 .. MaxResets
    BY <1>18, Constants DEF Reset, TypeOK
  <2> QED
    BY <2>1, BootTypes DEF TypeOK
<1>19. CASE UNCHANGED vars
  BY <1>19 DEF vars, TypeOK
<1> QED
  BY <1>1, <1>2, <1>3, <1>4, <1>5, <1>6, <1>7, <1>8, <1>9, <1>10, <1>11, <1>12, <1>13, <1>14,
     <1>15, <1>16, <1>17, <1>18, <1>19 DEF Next, LoopStep

(* The policy's state, its ages and the histories keep their types.        *)
THEOREM TypeCorrect == Spec => []TypeOK
BY TypeInit, TypeStep, PTL DEF Spec

-----------------------------------------------------------------------------
(* Facts about the thresholds and the sequence                             *)

LEMMA Thresholds ==
  ASSUME TypeOK
  PROVE  /\ closeMs \in Nat /\ closeMs > 0 /\ sleepMs \in Nat /\ sleepMs > 0
         /\ (Ignition => powerQuietMs = since) /\ since \in Nat
         /\ (~Ignition => powerQuietMs = IF bus = Never THEN 0 ELSE bus)
<1>1. closeMs \in Nat /\ closeMs > 0
  BY Constants DEF closeMs
<1>2. ignSleepAfterMs \in Nat
  BY <1>1, Constants DEF ignSleepAfterMs
<1>3. sleepMs \in Nat /\ sleepMs > 0
  BY <1>2, Constants DEF sleepMs
<1>4. since \in Nat /\ (Ignition => powerQuietMs = since)
  BY Constants DEF TypeOK, Age, powerQuietMs
<1>5. ~Ignition => powerQuietMs = IF bus = Never THEN 0 ELSE bus
  BY Constants DEF TypeOK, Age, powerQuietMs, BusQuiet
<1> QED
  BY <1>1, <1>3, <1>4, <1>5

(* The guard grants sleep past the backstop, or with every file closed     *)
(* past the close threshold; and past the backstop it never refuses.       *)
LEMMA Verdicts ==
  ASSUME NEW isOpen \in BOOLEAN, TypeOK
  PROVE  /\ sleepVerdict(isOpen) \in {"ok", "backstop"} =>
              powerQuietMs >= sleepMs \/ powerQuietMs >= closeMs
         /\ powerQuietMs >= sleepMs =>
              sleepVerdict(isOpen) = IF isOpen THEN "backstop" ELSE "ok"
<1>1. powerQuietMs \in Int /\ closeMs \in Int /\ sleepMs \in Int
  BY Thresholds, Constants DEF TypeOK, Age
<1> QED
  BY <1>1 DEF sleepVerdict

(* The sequence either leaves all but the files alone, or ends with every  *)
(* file closed, the message out and the command written or failed.         *)
LEMMA Sequence ==
  ASSUME NEW v, NEW isOpen \in BOOLEAN, TypeOK, sleepExecute(v, isOpen)
  PROVE  /\ open' => isOpen
         /\ \/ /\ UNCHANGED <<said, xcvr, pinFails>>
               /\ v \notin {"ok", "backstop"} \/ (isOpen /\ v # "backstop")
            \/ /\ v \in {"ok", "backstop"} /\ ~open' /\ said'
               /\ \/ xcvr' = "go_to_sleep" /\ pinFails' = pinFails
                  \/ xcvr' = xcvr /\ pinFails' = pinFails + 1 /\ pinFails < MaxPinFails
<1>1. CASE v \notin {"ok", "backstop"} \/ (isOpen /\ v # "backstop")
  BY <1>1 DEF sleepExecute, NoSleep
<1>2. CASE ~(v \notin {"ok", "backstop"} \/ (isOpen /\ v # "backstop"))
  <2>1. open' = FALSE /\ said' = TRUE /\ transceiverSetMode("go_to_sleep")
    BY <1>2 DEF sleepExecute
  <2>2. \/ xcvr' = "go_to_sleep" /\ pinFails' = pinFails
        \/ xcvr' = xcvr /\ pinFails' = pinFails + 1 /\ pinFails < MaxPinFails
    BY <2>1 DEF transceiverSetMode
  <2> QED
    BY <1>2, <2>1, <2>2
<1> QED
  BY <1>1, <1>2

(* What the sleep stage of a pass does while the ignition is OFF.          *)
LEMMA OffTick ==
  ASSUME TypeOK, ignitionPowerTick
  PROVE  /\ ~on /\ Ignition /\ (open' => open)
         /\ \/ /\ BackstopDue /\ backAge' = 0 /\ UNCHANGED <<commanded, cmdAge>>
               /\ ~open' /\ said'
               /\ \/ xcvr' = "go_to_sleep" /\ pinFails' = pinFails
                  \/ xcvr' = xcvr /\ pinFails' = pinFails + 1 /\ pinFails < MaxPinFails
            \/ /\ SleepDue /\ commanded' /\ UNCHANGED backAge
               /\ ~open' /\ said'
               /\ \/ xcvr' = "go_to_sleep" /\ pinFails' = pinFails
                  \/ xcvr' = xcvr /\ pinFails' = pinFails + 1 /\ pinFails < MaxPinFails
            \/ /\ ~BackstopDue /\ ~SleepDue
               /\ UNCHANGED <<commanded, cmdAge, backAge, said, xcvr, pinFails>>
<1>1. ~on /\ Ignition
  BY DEF ignitionPowerTick
<1> PICK drop \in BOOLEAN :
      \/ BackstopDue /\ transceiverForceSleep(open /\ ~drop)
         /\ backAge' = 0 /\ UNCHANGED <<commanded, cmdAge>>
      \/ SleepDue /\ transceiverRequestSleep(open /\ ~drop)
         /\ commanded' = TRUE /\ cmdAge' = 0 /\ UNCHANGED backAge
      \/ ~BackstopDue /\ ~SleepDue /\ NoSleep(open /\ ~drop) /\ UNCHANGED statics
  BY DEF ignitionPowerTick
<1> DEFINE isOpen == open /\ ~drop
<1>2. isOpen \in BOOLEAN /\ (isOpen => open)
  BY DEF TypeOK
<1>3. CASE BackstopDue /\ transceiverForceSleep(isOpen)
           /\ backAge' = 0 /\ UNCHANGED <<commanded, cmdAge>>
  BY <1>1, <1>2, <1>3, Sequence DEF transceiverForceSleep
<1>4. CASE SleepDue /\ transceiverRequestSleep(isOpen)
           /\ commanded' = TRUE /\ cmdAge' = 0 /\ UNCHANGED backAge
  <2>1. powerQuietMs >= sleepMs
    BY <1>1, <1>4, Thresholds DEF SleepDue
  <2>2. sleepVerdict(isOpen) \in {"ok", "backstop"} /\ (isOpen => sleepVerdict(isOpen) = "backstop")
    BY <1>2, <2>1, Verdicts
  <2>3. sleepExecute(sleepVerdict(isOpen), isOpen)
    BY <1>4 DEF transceiverRequestSleep
  <2> HIDE DEF isOpen
  <2> QED
    BY <1>1, <1>2, <1>4, <2>2, <2>3, Sequence
<1>5. CASE ~BackstopDue /\ ~SleepDue /\ NoSleep(isOpen) /\ UNCHANGED statics
  BY <1>1, <1>2, <1>5 DEF NoSleep, statics
<1> QED
  BY <1>3, <1>4, <1>5

-----------------------------------------------------------------------------
(* The ignition policy: what SAFE TO CUT POWER promises                    *)

(* The message stands only while the ignition is believed OFF.             *)
SafeInv == said => ~on /\ ~open

LEMMA SafeStep ==
  ASSUME Ignition, TypeOK, SafeInv, [Next]_vars
  PROVE  SafeInv'
<1>0. on \in BOOLEAN /\ open \in BOOLEAN /\ said \in BOOLEAN
  BY DEF TypeOK
<1>1. CASE Setup
  <2>1. sleepExecute(sleepVerdict(open), open) /\ on' = on
    BY <1>1 DEF Setup, transceiverRequestSleep, ignition
  <2>2. sleepVerdict(open) \in {"ok", "backstop"} => ~on
    <3>1. sleepVerdict(open) \in {"ok", "backstop"} => since > 0
      BY <1>0, Verdicts, Thresholds
    <3> QED
      BY <3>1 DEF TypeOK
  <2> QED
    BY <1>0, <2>1, <2>2, Sequence DEF SafeInv
<1>2. CASE powerLoop
  <2>1. ignDebounce /\ open' = open
    BY <1>2 DEF powerLoop, files
  <2>2. CASE Steady
    BY <2>1, <2>2 DEF Steady, SafeInv
  <2>3. CASE raw # on /\ Believe(raw, PendingRun)
    <3>1. CASE raw
      BY <2>3, <3>1 DEF Believe, SafeInv
    <3>2. CASE ~raw
      <4>1. on' = FALSE /\ said' = said
        BY <2>3, <3>2 DEF Believe, TypeOK
      <4>2. on
        BY <1>0, <2>3, <3>2 DEF TypeOK
      <4> QED
        BY <4>1, <4>2 DEF SafeInv
    <3> QED
      BY <3>1, <3>2
  <2>4. CASE UNCHANGED <<on, since, seenOn, said, xcvr, pinFails>>
    BY <2>1, <2>4 DEF SafeInv
  <2> QED
    BY <2>1, <2>2, <2>3, <2>4 DEF ignDebounce
<1>3. CASE IgnitionIsOn
  BY <1>3 DEF IgnitionIsOn, AtSleepStep, SafeInv, ignition
<1>4. CASE ignitionPowerTick
  <2>1. on' = on
    BY <1>4 DEF ignitionPowerTick, AtSleepStep, ignition
  <2> QED
    BY <1>0, <1>4, <2>1, OffTick DEF SafeInv
<1>5. CASE BusQuietTick
  BY <1>5 DEF BusQuietTick
<1>6. CASE Keys
  <2>1. open' => open
    BY <1>6 DEF Keys
  <2> QED
    BY <1>6, <2>1 DEF Keys, SafeInv, ignition
<1>7. CASE KeyOffClose
  BY <1>7 DEF KeyOffClose, AtFilesStep, SafeInv, ignition
<1>8. CASE Unmounted
  BY <1>8 DEF Unmounted, AtFilesStep, SafeInv, ignition, files
<1>9. CASE Record
  BY <1>9 DEF Record, AtFilesStep, SafeInv, ignition, powerMayRecord
<1>10. CASE IdleCheck
  BY <1>10 DEF IdleCheck, IdleClosable, SafeInv, ignition
<1>11. CASE MarkIdleClosed
  BY <1>11 DEF MarkIdleClosed, SafeInv, ignition
<1>12. CASE filestoreNoteBusActivity
  BY <1>12 DEF filestoreNoteBusActivity, SafeInv, ignition
<1>13. CASE UnseenFrame
  BY <1>13 DEF UnseenFrame, SafeInv, ignition, files
<1>14. CASE Switch
  BY <1>14 DEF Switch, SafeInv, ignition, files
<1>15. CASE Tick
  BY <1>15 DEF Tick, SafeInv
<1>16. CASE RailFalls
  BY <1>16 DEF RailFalls, SafeInv, ignition, files
<1>17. CASE Wake
  BY <1>17 DEF Wake, Boot, BootState, SafeInv
<1>18. CASE Reset
  BY <1>18 DEF Reset, Boot, BootState, SafeInv
<1>19. CASE UNCHANGED vars
  BY <1>19 DEF vars, SafeInv
<1> QED
  BY <1>1, <1>2, <1>3, <1>4, <1>5, <1>6, <1>7, <1>8, <1>9, <1>10, <1>11, <1>12, <1>13, <1>14,
     <1>15, <1>16, <1>17, <1>18, <1>19 DEF Next, LoopStep

(* From SAFE TO CUT POWER until the ignition is believed ON again no file  *)
(* is open.                                                                *)
THEOREM NothingReopens == Spec => []SafeStaysSafe
<1> DEFINE Safe == Ignition => SafeInv
<1>1. Init => Safe
  BY DEF Init, SafeInv
<1>2. TypeOK /\ Safe /\ [Next]_vars => Safe'
  BY SafeStep, PolicyKept
<1>3. Safe => SafeStaysSafe
  BY DEF SafeInv, SafeStaysSafe
<1> HIDE DEF Safe
<1> QED
  BY <1>1, <1>2, <1>3, TypeCorrect, PTL DEF Spec

-----------------------------------------------------------------------------
(* The supply                                                              *)

(* Until a pin write fails the transceiver sleeps only while the message   *)
(* stands.                                                                 *)
AsleepInv == pinFails = 0 /\ xcvr = "go_to_sleep" => said

LEMMA AsleepStep ==
  ASSUME Ignition, TypeOK, SafeInv, AsleepInv, [Next]_vars
  PROVE  AsleepInv'
<1>0. said \in BOOLEAN /\ pinFails \in Nat
  BY Constants DEF TypeOK
<1>1. CASE Setup
  <2>1. open \in BOOLEAN /\ sleepExecute(sleepVerdict(open), open)
    BY <1>1 DEF Setup, transceiverRequestSleep, TypeOK
  <2> QED
    BY <1>0, <2>1, Sequence DEF AsleepInv
<1>2. CASE powerLoop
  <2>1. CASE Believe(raw, PendingRun) /\ raw
    <3>1. transceiverSetMode("silent")
      BY <2>1 DEF Believe
    <3>2. xcvr' = "silent" \/ pinFails' = pinFails + 1
      BY <3>1 DEF transceiverSetMode
    <3> QED
      BY <1>0, <3>2 DEF AsleepInv
  <2>2. CASE UNCHANGED <<said, xcvr, pinFails>>
    BY <2>2 DEF AsleepInv
  <2>3. ignDebounce => (Believe(raw, PendingRun) /\ raw) \/ UNCHANGED <<said, xcvr, pinFails>>
    <3>1. Believe(raw, PendingRun) /\ ~raw => UNCHANGED <<said, xcvr, pinFails>>
      BY DEF Believe
    <3> QED
      BY <3>1 DEF ignDebounce, Steady
  <2> QED
    BY <1>2, <2>1, <2>2, <2>3 DEF powerLoop
<1>3. CASE IgnitionIsOn
  BY <1>3 DEF IgnitionIsOn, AsleepInv, budget
<1>4. CASE ignitionPowerTick
  BY <1>0, <1>4, OffTick DEF AsleepInv
<1>5. CASE BusQuietTick
  BY <1>5 DEF BusQuietTick
<1>6. CASE Keys
  BY <1>6 DEF Keys, AsleepInv, budget
<1>7. CASE KeyOffClose \/ Unmounted \/ Record
  BY <1>7 DEF KeyOffClose, Unmounted, Record, AtFilesStep, AsleepInv, budget
<1>8. CASE IdleCheck \/ MarkIdleClosed
  BY <1>8 DEF IdleCheck, MarkIdleClosed, AsleepInv, budget
<1>9. CASE filestoreNoteBusActivity \/ UnseenFrame \/ Switch \/ Tick \/ RailFalls
  BY <1>9 DEF filestoreNoteBusActivity, UnseenFrame, Switch, Tick, RailFalls, AsleepInv, budget
<1>10. CASE Wake \/ Reset
  BY <1>10 DEF Wake, Reset, Boot, BootState, AsleepInv, budget
<1>11. CASE UNCHANGED vars
  BY <1>11 DEF vars, AsleepInv
<1> QED
  BY <1>1, <1>2, <1>3, <1>4, <1>5, <1>6, <1>7, <1>8, <1>9, <1>10, <1>11 DEF Next, LoopStep

(* Until a pin write fails, the rail only falls on closed files.           *)
THEOREM RailSafe == Spec => RailFindsNothingOpen
<1> DEFINE Safe == Ignition => SafeInv /\ AsleepInv
<1>1. Init => Safe
  BY DEF Init, SafeInv, AsleepInv
<1>2. TypeOK /\ Safe /\ [Next]_vars => Safe'
  BY SafeStep, AsleepStep, PolicyKept
<1>3. Safe /\ [Next]_vars
        => [power = "on" /\ power' = "off" /\ pinFails = 0 => ~open]_vars
  <2> SUFFICES ASSUME Safe, Next, power = "on", power' = "off", pinFails = 0
               PROVE ~open
    OBVIOUS
  <2>1. CASE LoopStep
    BY <2>1 DEF LoopStep, Setup, powerLoop, IgnitionIsOn, ignitionPowerTick, BusQuietTick, Keys,
       KeyOffClose, Unmounted, Record, IdleCheck, MarkIdleClosed, AtSleepStep, AtFilesStep, boot
  <2>2. CASE RailFalls
    BY <2>2 DEF RailFalls, SafeInv, AsleepInv
  <2>3. CASE filestoreNoteBusActivity \/ UnseenFrame \/ Switch \/ Tick \/ Wake \/ Reset
    BY <2>3 DEF filestoreNoteBusActivity, UnseenFrame, Switch, Tick, Wake, Reset, Boot, BootState, boot
  <2> QED
    BY <2>1, <2>2, <2>3 DEF Next
<1> HIDE DEF Safe
<1> QED
  BY <1>1, <1>2, <1>3, TypeCorrect, PTL DEF Spec, RailFindsNothingOpen

-----------------------------------------------------------------------------
(* The debounce                                                            *)

(* A pending OFF has not been interrupted by a sample that read ON.        *)
RunInv == on /\ pending => edge <= offRun

LEMMA RunStep ==
  ASSUME Ignition, TypeOK, RunInv, [Next]_vars
  PROVE  RunInv'
<1>0. on \in BOOLEAN /\ raw \in BOOLEAN /\ edge \in Nat /\ offRun \in Nat /\ edge <= Horizon
      /\ offRun <= Horizon
  BY Constants DEF TypeOK, Age
<1>1. CASE powerLoop
  <2>1. ignDebounce /\ offRun' = IF raw THEN 0 ELSE offRun
    BY <1>1 DEF powerLoop
  <2>2. CASE Steady \/ Believe(raw, PendingRun)
    BY <2>2 DEF Steady, Believe, RunInv
  <2>3. CASE raw # on /\ pending' = TRUE /\ edge' = PendingRun /\ on' = on
    <3>1. CASE ~on
      BY <2>3, <3>1 DEF RunInv
    <3>2. CASE on
      <4>1. ~raw /\ offRun' = offRun
        BY <1>0, <2>1, <2>3, <3>2
      <4>2. PendingRun <= offRun
        BY <1>0, <3>2 DEF PendingRun, RunInv
      <4> QED
        BY <2>3, <4>1, <4>2 DEF RunInv
    <3> QED
      BY <3>1, <3>2
  <2> QED
    BY <2>1, <2>2, <2>3 DEF ignDebounce
<1>2. CASE Tick
  <2>1. on' = on /\ pending' = pending /\ offRun' = Older(offRun, Horizon)
        /\ edge' = IF pending THEN Older(edge, Horizon) ELSE 0
    BY <1>2 DEF Tick, OffCap
  <2>2. edge <= offRun => Older(edge, Horizon) <= Older(offRun, Horizon)
    BY <1>0, Constants DEF Older, Never
  <2> QED
    BY <2>1, <2>2 DEF RunInv
<1>3. CASE Wake \/ Reset
  BY <1>3 DEF Wake, Reset, Boot, BootState, RunInv
<1>4. CASE Setup \/ IgnitionIsOn \/ ignitionPowerTick \/ BusQuietTick \/ Keys
  BY <1>4 DEF Setup, IgnitionIsOn, ignitionPowerTick, BusQuietTick, AtSleepStep, Keys, ignition, RunInv
<1>5. CASE KeyOffClose \/ Unmounted \/ Record \/ IdleCheck \/ MarkIdleClosed
  BY <1>5 DEF KeyOffClose, Unmounted, Record, AtFilesStep, IdleCheck, MarkIdleClosed, ignition, RunInv
<1>6. CASE filestoreNoteBusActivity \/ UnseenFrame \/ Switch \/ RailFalls
  BY <1>6 DEF filestoreNoteBusActivity, UnseenFrame, Switch, RailFalls, ignition, RunInv
<1>7. CASE UNCHANGED vars
  BY <1>7 DEF vars, RunInv
<1> QED
  BY <1>1, <1>2, <1>3, <1>4, <1>5, <1>6, <1>7 DEF Next, LoopStep

(* OFF is believed only after every sample over the debounce read OFF.     *)
THEOREM OffIsNeverFalse == Spec => NoFalseOff
<1> DEFINE Run == Ignition => RunInv
<1>1. Init => Run
  BY DEF Init, RunInv
<1>2. TypeOK /\ Run /\ [Next]_vars => Run'
  BY RunStep, PolicyKept
<1>3. TypeOK /\ Run /\ [Next]_vars
        => [pc = "sample" /\ pc' = "sleep" /\ on /\ ~on' => offRun' >= OffDebounce]_vars
  <2> SUFFICES ASSUME TypeOK, Run, Next, pc = "sample", pc' = "sleep", on, ~on'
               PROVE  offRun' >= OffDebounce
    OBVIOUS
  <2>0. raw \in BOOLEAN /\ edge \in Nat /\ offRun \in Nat
    BY Constants DEF TypeOK, Age
  <2>1. CASE powerLoop
    <3>1. Ignition /\ ignDebounce /\ offRun' = IF raw THEN 0 ELSE offRun
      BY <2>1 DEF powerLoop, ignition
    <3>2. ~raw /\ PendingRun >= OffDebounce
      BY <3>1 DEF ignDebounce, Steady, Believe
    <3> QED
      BY <2>0, <3>1, <3>2, Constants DEF PendingRun, RunInv
  <2>2. CASE Tick
    BY <2>2 DEF Tick
  <2>3. CASE Wake \/ Reset
    BY <2>3 DEF Wake, Reset, Boot, BootState
  <2>4. CASE Setup \/ IgnitionIsOn \/ ignitionPowerTick \/ BusQuietTick \/ Keys
    BY <2>4 DEF Setup, IgnitionIsOn, ignitionPowerTick, BusQuietTick, AtSleepStep, Keys
  <2>5. CASE KeyOffClose \/ Unmounted \/ Record \/ IdleCheck \/ MarkIdleClosed
    BY <2>5 DEF KeyOffClose, Unmounted, Record, AtFilesStep, IdleCheck, MarkIdleClosed
  <2>6. CASE filestoreNoteBusActivity \/ UnseenFrame \/ Switch \/ RailFalls
    BY <2>6 DEF filestoreNoteBusActivity, UnseenFrame, Switch, RailFalls
  <2> QED
    BY <2>1, <2>2, <2>3, <2>4, <2>5, <2>6 DEF Next, LoopStep
<1> HIDE DEF Run
<1> QED
  BY <1>1, <1>2, <1>3, TypeCorrect, PTL DEF Spec, NoFalseOff

-----------------------------------------------------------------------------
(* The bus-quiet policy                                                    *)

(* The firmware never believes the bus quieter than it is.                 *)
SilenceInv ==
  power = "on" => (pc = "setup" => bus = Never) /\ (bus # Never => bus <= silent)

LEMMA SilenceStep ==
  ASSUME ~Ignition, TypeOK, SilenceInv, [Next]_vars
  PROVE  SilenceInv'
<1>0. bus \in Age \cup {Never} /\ silent \in Age
  BY DEF TypeOK
<1>1. CASE Tick
  <2>1. bus' = Older(bus, Horizon) /\ silent' = Older(silent, Horizon) /\ UNCHANGED <<power, pc>>
    BY <1>1 DEF Tick, BusCap, boot
  <2>2. CASE bus = Never
    BY <2>1, <2>2 DEF SilenceInv, Older
  <2>3. CASE bus # Never
    <3>1. bus \in Nat /\ silent \in Nat /\ bus <= Horizon /\ silent <= Horizon
      BY <1>0, <2>3, Constants DEF Age
    <3>2. bus <= silent => Older(bus, Horizon) <= Older(silent, Horizon)
      BY <3>1, Constants DEF Older, Never
    <3> QED
      BY <2>1, <2>3, <3>2 DEF SilenceInv
  <2> QED
    BY <2>2, <2>3
<1>2. CASE Wake \/ Reset
  BY <1>2 DEF Wake, Reset, Boot, BootState, SilenceInv
<1>3. CASE filestoreNoteBusActivity
  BY <1>3 DEF filestoreNoteBusActivity, SilenceInv, boot
<1>4. CASE UnseenFrame
  BY <1>4 DEF UnseenFrame, SilenceInv, boot
<1>5. CASE Setup \/ powerLoop \/ IgnitionIsOn \/ ignitionPowerTick \/ BusQuietTick \/ Keys
  BY <1>5 DEF Setup, powerLoop, IgnitionIsOn, ignitionPowerTick, BusQuietTick, AtSleepStep, Keys,
     SilenceInv, boot
<1>6. CASE KeyOffClose \/ Unmounted \/ Record \/ IdleCheck \/ MarkIdleClosed
  <2>1. UNCHANGED <<power, bus, silent>> /\ pc' # "setup"
    BY <1>6 DEF KeyOffClose, Unmounted, Record, AtFilesStep, IdleCheck, MarkIdleClosed, boot
  <2> QED
    BY <2>1 DEF SilenceInv
<1>7. CASE Switch \/ RailFalls
  BY <1>7 DEF Switch, RailFalls
<1>8. CASE UNCHANGED vars
  BY <1>8 DEF vars, SilenceInv
<1> QED
  BY <1>1, <1>2, <1>3, <1>4, <1>5, <1>6, <1>7, <1>8 DEF Next, LoopStep

(* What is closed as a key-off has been silent for the threshold.          *)
THEOREM KeyOffIsNeverFalse == Spec => NoFalseIdleClose
<1> DEFINE Silence == ~Ignition => SilenceInv
<1>1. Init => Silence
  BY DEF Init, SilenceInv
<1>2. TypeOK /\ Silence /\ [Next]_vars => Silence'
  BY SilenceStep, PolicyKept
<1>3. TypeOK /\ Silence /\ [Next]_vars
        => [~Ignition /\ pc = "idle" /\ pc' = "mark" => silent >= IdleClose]_vars
  <2> SUFFICES ASSUME TypeOK, Silence, Next, ~Ignition, pc = "idle", pc' = "mark"
               PROVE  silent >= IdleClose
    OBVIOUS
  <2>1. CASE IdleCheck
    <3>1. bus # Never /\ BusQuiet(lag) >= IdleClose /\ power = "on"
      BY <2>1 DEF IdleCheck, IdleClosable
    <3>2. bus \in Nat /\ silent \in Nat /\ lag \in Nat
      BY <3>1, Constants DEF TypeOK, Age
    <3> QED
      BY <3>1, <3>2, Constants DEF BusQuiet, SilenceInv
  <2>2. CASE filestoreNoteBusActivity \/ UnseenFrame \/ Switch \/ Tick \/ RailFalls
    BY <2>2 DEF filestoreNoteBusActivity, UnseenFrame, Switch, Tick, RailFalls
  <2>3. CASE Wake \/ Reset
    BY <2>3 DEF Wake, Reset, Boot, BootState
  <2>4. CASE Setup \/ powerLoop \/ IgnitionIsOn \/ ignitionPowerTick \/ BusQuietTick \/ Keys
    BY <2>4 DEF Setup, powerLoop, IgnitionIsOn, ignitionPowerTick, BusQuietTick, AtSleepStep, Keys
  <2>5. CASE KeyOffClose \/ Unmounted \/ Record \/ MarkIdleClosed
    BY <2>5 DEF KeyOffClose, Unmounted, Record, AtFilesStep, MarkIdleClosed
  <2> QED
    BY <2>1, <2>2, <2>3, <2>4, <2>5 DEF Next, LoopStep
<1> HIDE DEF Silence
<1> QED
  BY <1>1, <1>2, <1>3, TypeCorrect, PTL DEF Spec, NoFalseIdleClose

-----------------------------------------------------------------------------
(* Sleep in time                                                           *)

Asleep == pinFails = 0 => xcvr = "go_to_sleep"

\* A forced sleep that the timer still counts.
Forced == backAge # Never /\ backAge < Resleep

(* A command that still counts was given in this OFF, so the transceiver   *)
(* sleeps: the repeat timers never hold back the first command of an OFF.  *)
CommandInv ==
  /\ pc = "setup" => ~commanded
  /\ on /\ pc # "sleep" => ~commanded
  /\ ~on /\ commanded => Asleep
  /\ on /\ pending /\ Forced => backAge >= edge
  /\ ~on /\ Forced /\ backAge < since => Asleep

LEMMA CommandStep ==
  ASSUME Ignition, TypeOK, CommandInv, [Next]_vars
  PROVE  CommandInv'
<1>0. /\ on \in BOOLEAN /\ raw \in BOOLEAN /\ pending \in BOOLEAN /\ commanded \in BOOLEAN
      /\ edge \in Nat /\ since \in Nat /\ edge <= Horizon /\ since <= Horizon
      /\ (on => since = 0) /\ (backAge = Never \/ backAge \in Nat) /\ pinFails \in Nat
  BY Constants DEF TypeOK, Age
<1>1. CASE Setup
  <2>1. open \in BOOLEAN /\ sleepExecute(sleepVerdict(open), open)
    BY <1>1 DEF Setup, transceiverRequestSleep, TypeOK
  <2>2. Asleep => Asleep'
    BY <1>0, <2>1, Sequence DEF Asleep
  <2>3. pc = "setup" /\ pc' = "sample" /\ UNCHANGED <<on, pending, edge, since, commanded, backAge>>
    BY <1>1 DEF Setup, ignition, statics
  <2> QED
    BY <2>2, <2>3 DEF CommandInv, Forced
<1>2. CASE powerLoop
  <2>1. ignDebounce /\ pc = "sample" /\ pc' = "sleep" /\ UNCHANGED <<commanded, backAge>>
    BY <1>2 DEF powerLoop, statics
  <2>2. CASE raw = on /\ Steady
    <3>1. pending' = FALSE /\ UNCHANGED <<on, since, xcvr, pinFails>>
      BY <2>2 DEF Steady
    <3> QED
      BY <2>1, <3>1 DEF CommandInv, Forced, Asleep
  <2>3. CASE raw # on /\ Believe(raw, PendingRun)
    <3>1. CASE raw
      <4>1. on' = TRUE /\ pending' = FALSE
        BY <2>3, <3>1 DEF Believe, TypeOK
      <4> QED
        BY <2>1, <4>1 DEF CommandInv
    <3>2. CASE ~raw
      <4>1. on /\ ~on' /\ pending' = FALSE /\ since' = PendingRun
        BY <1>0, <2>3, <3>2 DEF Believe
      <4>2. ~commanded
        BY <2>1, <4>1 DEF CommandInv
      <4>3. Forced => ~(backAge < PendingRun)
        <5>1. CASE pending
          BY <1>0, <4>1, <5>1, Constants DEF CommandInv, PendingRun, Forced
        <5>2. CASE ~pending
          BY <1>0, <5>2 DEF PendingRun, Forced
        <5> QED
          BY <5>1, <5>2
      <4> QED
        BY <2>1, <4>1, <4>2, <4>3 DEF CommandInv, Forced
    <3> QED
      BY <3>1, <3>2
  <2>4. CASE pending' = TRUE /\ edge' = PendingRun /\ UNCHANGED <<on, since, seenOn, said, xcvr, pinFails>>
    <3>1. on /\ Forced => backAge >= PendingRun
      <4>1. CASE pending
        BY <4>1 DEF CommandInv, PendingRun
      <4>2. CASE ~pending
        BY <1>0, <4>2 DEF PendingRun, Forced
      <4> QED
        BY <4>1, <4>2
    <3> QED
      BY <2>1, <2>4, <3>1 DEF CommandInv, Forced, Asleep
  <2> QED
    BY <2>1, <2>2, <2>3, <2>4 DEF ignDebounce
<1>3. CASE IgnitionIsOn
  <2>1. on /\ commanded' = FALSE /\ UNCHANGED <<on, pending, edge, since, backAge, xcvr, pinFails>>
    BY <1>3 DEF IgnitionIsOn, AtSleepStep, ignition
  <2> QED
    BY <2>1 DEF CommandInv, Forced
<1>4. CASE ignitionPowerTick
  <2>1. pc' = "keys" /\ ~on /\ UNCHANGED <<on, pending, edge, since>>
    BY <1>4 DEF ignitionPowerTick, AtSleepStep, ignition
  <2>2. CASE /\ BackstopDue \/ SleepDue
             /\ \/ xcvr' = "go_to_sleep" /\ pinFails' = pinFails
                \/ xcvr' = xcvr /\ pinFails' = pinFails + 1 /\ pinFails < MaxPinFails
    <3>1. Asleep'
      BY <1>0, <2>2 DEF Asleep
    <3> QED
      BY <2>1, <3>1 DEF CommandInv
  <2>3. CASE UNCHANGED <<commanded, cmdAge, backAge, said, xcvr, pinFails>>
    BY <2>1, <2>3 DEF CommandInv, Forced, Asleep
  <2> QED
    BY <1>4, <2>2, <2>3, OffTick
<1>5. CASE BusQuietTick
  BY <1>5 DEF BusQuietTick
<1>6. CASE Keys \/ KeyOffClose \/ Unmounted \/ Record \/ IdleCheck \/ MarkIdleClosed
  <2>1. /\ pc \notin {"setup", "sleep"} /\ pc' \notin {"setup", "sleep"}
        /\ UNCHANGED <<on, pending, edge, since, commanded, backAge, xcvr, pinFails>>
    BY <1>6 DEF Keys, KeyOffClose, Unmounted, Record, AtFilesStep, IdleCheck, MarkIdleClosed,
       ignition, statics, budget
  <2> QED
    BY <2>1 DEF CommandInv, Forced, Asleep
<1>7. CASE filestoreNoteBusActivity \/ UnseenFrame \/ Switch \/ RailFalls
  <2>1. UNCHANGED <<pc, on, pending, edge, since, commanded, backAge, xcvr, pinFails>>
    BY <1>7 DEF filestoreNoteBusActivity, UnseenFrame, Switch, RailFalls, ignition, statics, budget
  <2> QED
    BY <2>1 DEF CommandInv, Forced, Asleep
<1>8. CASE Tick
  <2>1. /\ edge' = IF pending THEN Older(edge, Horizon) ELSE 0
        /\ since' = IF on THEN 0 ELSE Older(since, Horizon)
        /\ backAge' = Older(backAge, Resleep)
        /\ UNCHANGED <<pc, on, pending, commanded, xcvr, pinFails>>
    BY <1>8 DEF Tick, budget
  <2>2. Forced' => Forced /\ backAge' = backAge + 1
    BY <1>0, <2>1, Constants DEF Forced, Older, Never
  <2>3. pending => edge' <= edge + 1
    BY <1>0, <2>1, Constants DEF Older, Never
  <2>4. ~on => since' <= since + 1 /\ since' \in Nat
    BY <1>0, <2>1, Constants DEF Older, Never
  <2>5. Forced => backAge \in Nat
    BY <1>0 DEF Forced
  <2>6. pending => edge' \in Nat
    BY <1>0, <2>1, Constants DEF Older, Never
  <2>7. on /\ pending /\ Forced' => backAge' >= edge'
    BY <1>0, <2>2, <2>3, <2>5, <2>6 DEF CommandInv
  <2>8. ~on /\ Forced' /\ backAge' < since' => backAge < since
    BY <1>0, <2>2, <2>4, <2>5
  <2> QED
    BY <2>1, <2>2, <2>7, <2>8 DEF CommandInv, Asleep
<1>9. CASE Wake \/ Reset
  <2>1. pending' = FALSE /\ commanded' = FALSE /\ backAge' = Never
    BY <1>9 DEF Wake, Reset, Boot, BootState
  <2> QED
    BY <2>1 DEF CommandInv, Forced
<1>10. CASE UNCHANGED vars
  BY <1>10 DEF vars, CommandInv, Forced, Asleep
<1> QED
  BY <1>1, <1>2, <1>3, <1>4, <1>5, <1>6, <1>7, <1>8, <1>9, <1>10 DEF Next, LoopStep

(* After a pass's sleep stage a quiet trip has been told to sleep.         *)
LEMMA InTimeStep ==
  ASSUME Resleep <= MaxAwake, TypeOK, Ignition => CommandInv, SleepsInTime, [Next]_vars
  PROVE  SleepsInTime'
<1> Ignition' <=> Ignition
  BY PolicyKept
<1>0. /\ on \in BOOLEAN /\ since \in Nat /\ passTicks \in Nat /\ pinFails \in Nat
      /\ (backAge = Never \/ backAge \in Nat) /\ (bus = Never \/ bus \in Nat)
      /\ sleepMs \in Nat
  BY Constants, Thresholds DEF TypeOK, Age
<1>1. CASE ignitionPowerTick
  <2>1. /\ Ignition /\ ~on /\ pc' = "keys"
        /\ UNCHANGED <<on, since, passTicks, seenOn, wdtBoot>>
    BY <1>1 DEF ignitionPowerTick, AtSleepStep, ignition, boot
  <2>2. sleepMs' = sleepMs
    BY <2>1, PolicyKept
  <2> SUFFICES ASSUME pinFails' = 0, since - passTicks >= sleepMs PROVE xcvr' = "go_to_sleep"
    BY <2>1, <2>2 DEF SleepsInTime
  <2>3. since >= sleepMs
    BY <1>0
  <2>4. CASE /\ BackstopDue \/ SleepDue
             /\ \/ xcvr' = "go_to_sleep" /\ pinFails' = pinFails
                \/ xcvr' = xcvr /\ pinFails' = pinFails + 1 /\ pinFails < MaxPinFails
    BY <1>0, <2>4
  <2>5. CASE ~BackstopDue /\ ~SleepDue /\ UNCHANGED <<commanded, cmdAge, backAge, said, xcvr, pinFails>>
    <3>1. CASE since >= MaxAwake
      <4>1. Forced /\ backAge < since
        BY <1>0, <2>5, <3>1, Constants DEF BackstopDue, Forced
      <4> QED
        BY <2>1, <2>5, <4>1 DEF CommandInv, Asleep
    <3>2. CASE ~(since >= MaxAwake)
      <4>1. commanded
        BY <1>0, <2>3, <2>5, <3>2, Constants DEF SleepDue
      <4> QED
        BY <2>1, <2>5, <4>1 DEF CommandInv, Asleep
    <3> QED
      BY <3>1, <3>2
  <2> QED
    BY <1>1, <2>4, <2>5, OffTick
<1>2. CASE BusQuietTick
  <2>1. ~Ignition /\ UNCHANGED <<bus, passTicks>>
    BY <1>2 DEF BusQuietTick, AtSleepStep
  <2> SUFFICES ASSUME bus # Never, bus - passTicks >= MaxAwake PROVE said'
    BY <2>1 DEF SleepsInTime
  <2>2. powerQuietMs >= sleepMs /\ open \in BOOLEAN
    BY <1>0, <2>1, Constants, Thresholds DEF sleepMs, TypeOK
  <2>3. sleepExecute(sleepVerdict(open), open)
    BY <1>2, <2>2 DEF BusQuietTick, transceiverRequestSleep
  <2>4. sleepVerdict(open) \in {"ok", "backstop"} /\ (open => sleepVerdict(open) = "backstop")
    BY <2>2, Verdicts
  <2> QED
    BY <2>2, <2>3, <2>4, Sequence
<1>3. CASE IgnitionIsOn
  BY <1>3 DEF IgnitionIsOn, AtSleepStep, ignition, SleepsInTime
<1>4. CASE Tick
  <2>1. UNCHANGED <<power, pc, on, pinFails, xcvr, said, seenOn, wdtBoot>> /\ passTicks' = passTicks + 1
    BY <1>4 DEF Tick, boot, budget
  <2>2. sleepMs' = sleepMs
    BY <2>1, PolicyKept
  <2>3. ~on => since' \in Nat /\ since' <= since + 1
    BY <1>0, <1>4, Constants DEF Tick, Older, Never
  <2>4. bus' # Never => bus # Never /\ bus' \in Nat /\ bus' <= bus + 1
    BY <1>0, <1>4, Constants DEF Tick, Older, Never, BusCap
  <2>5. CASE Ignition
    BY <1>0, <2>1, <2>2, <2>3, <2>5 DEF SleepsInTime
  <2>6. CASE ~Ignition
    BY <1>0, <2>1, <2>4, <2>6, Constants DEF SleepsInTime
  <2> QED
    BY <2>5, <2>6
<1>5. CASE filestoreNoteBusActivity
  <2>1. bus' = 0 /\ UNCHANGED <<power, pc, on, since, passTicks, pinFails, xcvr, seenOn, wdtBoot>>
    BY <1>5 DEF filestoreNoteBusActivity, boot, ignition, budget
  <2>2. sleepMs' = sleepMs
    BY <2>1, PolicyKept
  <2> QED
    BY <1>0, <2>1, <2>2, Constants DEF SleepsInTime
<1>6. CASE UnseenFrame \/ Switch
  <2>1. /\ UNCHANGED <<power, pc, on, since, bus, passTicks, pinFails, xcvr, said, seenOn, wdtBoot>>
    BY <1>6 DEF UnseenFrame, Switch, boot, ignition, budget
  <2>2. sleepMs' = sleepMs
    BY <2>1, PolicyKept
  <2> QED
    BY <2>1, <2>2 DEF SleepsInTime
<1>7. CASE RailFalls
  BY <1>7 DEF RailFalls, SleepsInTime
<1>8. CASE Wake \/ Reset
  BY <1>8 DEF Wake, Reset, Boot, BootState, SleepsInTime
<1>9. CASE Setup \/ powerLoop \/ Keys \/ KeyOffClose \/ Unmounted \/ Record \/ IdleCheck \/ MarkIdleClosed
  <2>1. pc' # "keys"
    BY <1>9 DEF Setup, powerLoop, Keys, KeyOffClose, Unmounted, Record, IdleCheck, MarkIdleClosed
  <2> QED
    BY <2>1 DEF SleepsInTime
<1>10. CASE UNCHANGED vars
  <2>1. sleepMs' = sleepMs
    BY <1>10, PolicyKept DEF vars
  <2> QED
    BY <1>10, <2>1 DEF vars, SleepsInTime
<1> QED
  BY <1>1, <1>2, <1>3, <1>4, <1>5, <1>6, <1>7, <1>8, <1>9, <1>10 DEF Next, LoopStep

(* Under either policy a quiet trip is told to sleep by the first pass     *)
(* past the threshold, if the repeat interval is within the backstop.      *)
THEOREM SleepIsNeverLate == Resleep <= MaxAwake /\ Spec => []SleepsInTime
<1> SUFFICES ASSUME Resleep <= MaxAwake PROVE Spec => []SleepsInTime
  OBVIOUS
<1> DEFINE Commands == Ignition => CommandInv
<1>1. Init => Commands /\ SleepsInTime
  BY DEF Init, CommandInv, Forced, SleepsInTime
<1>2. TypeOK /\ Commands /\ [Next]_vars => Commands'
  BY CommandStep, PolicyKept
<1>3. TypeOK /\ Commands /\ SleepsInTime /\ [Next]_vars => SleepsInTime'
  BY InTimeStep
<1> HIDE DEF Commands
<1> QED
  BY <1>1, <1>2, <1>3, TypeCorrect, PTL DEF Spec

-----------------------------------------------------------------------------
(* The bus-wake window                                                     *)

(* During setup() the off time is no older than the boot.                  *)
SetupInv == pc = "setup" => since <= passTicks /\ passTicks <= MaxSetup

LEMMA SetupStep ==
  ASSUME TypeOK, SetupInv, [Next]_vars
  PROVE  SetupInv'
<1>0. since \in Nat /\ passTicks \in Nat /\ (on => since = 0)
  BY Constants DEF TypeOK, Age
<1>1. CASE Tick
  <2>1. /\ pc' = pc /\ passTicks' = passTicks + 1 /\ (pc = "setup" => passTicks < MaxSetup)
        /\ since' = IF on THEN 0 ELSE Older(since, Horizon)
    BY <1>1 DEF Tick
  <2>2. since' <= since + 1
    BY <1>0, <2>1, Constants DEF Older, Never
  <2>3. since' \in Nat
    BY <1>0, <2>1, Constants DEF Older, Never
  <2> QED
    BY <1>0, <2>1, <2>2, <2>3, Constants DEF SetupInv
<1>2. CASE Wake \/ Reset
  BY <1>2, Constants DEF Wake, Reset, Boot, BootState, SetupInv
<1>3. CASE filestoreNoteBusActivity \/ UnseenFrame \/ Switch \/ RailFalls
  BY <1>3 DEF filestoreNoteBusActivity, UnseenFrame, Switch, RailFalls, ignition, SetupInv
<1>4. CASE LoopStep
  <2>1. pc' # "setup"
    BY <1>4 DEF LoopStep, Setup, powerLoop, IgnitionIsOn, ignitionPowerTick, BusQuietTick, Keys,
       KeyOffClose, Unmounted, Record, IdleCheck, MarkIdleClosed, AtSleepStep
  <2> QED
    BY <2>1 DEF SetupInv
<1>5. CASE UNCHANGED vars
  BY <1>5 DEF vars, SetupInv
<1> QED
  BY <1>1, <1>2, <1>3, <1>4, <1>5 DEF Next

(* Where a bus-wake boot may be told to sleep.                             *)
LEMMA WindowStep ==
  ASSUME BusWake <= MaxAwake, TypeOK, Next, Ignition, said', ~said, ~seenOn, ~wdtBoot
  PROVE  since >= BusWake \/ (pc = "setup" /\ since >= closeMs)
<1>0. since \in Nat /\ sleepMs = BusWake /\ powerQuietMs = since /\ closeMs = OffDebounce
  BY Constants, Thresholds DEF sleepMs, ignSleepAfterMs, closeMs
<1>1. CASE Setup
  <2>1. sleepExecute(sleepVerdict(open), open) /\ pc = "setup" /\ open \in BOOLEAN
    BY <1>1 DEF Setup, transceiverRequestSleep, TypeOK
  <2>2. sleepVerdict(open) \in {"ok", "backstop"}
    BY <2>1, Sequence DEF TypeOK
  <2>3. closeMs \in Nat /\ BusWake \in Nat
    BY <1>0, Constants
  <2>4. since >= BusWake \/ ~(since < closeMs)
    BY <1>0, <2>2 DEF sleepVerdict
  <2> QED
    BY <1>0, <2>1, <2>3, <2>4
<1>2. CASE ignitionPowerTick
  <2>1. BackstopDue \/ SleepDue
    BY <1>2, OffTick DEF TypeOK
  <2> QED
    BY <1>0, <2>1, Constants DEF BackstopDue, SleepDue
<1>3. CASE powerLoop
  BY <1>3 DEF powerLoop, ignDebounce, Believe, Steady, TypeOK
<1>4. CASE IgnitionIsOn \/ Keys \/ BusQuietTick
  BY <1>4 DEF IgnitionIsOn, Keys, BusQuietTick, TypeOK
<1>5. CASE KeyOffClose \/ Unmounted \/ Record \/ IdleCheck \/ MarkIdleClosed
  BY <1>5 DEF KeyOffClose, Unmounted, Record, AtFilesStep, IdleCheck, MarkIdleClosed, TypeOK
<1>6. CASE filestoreNoteBusActivity \/ UnseenFrame \/ Switch \/ Tick \/ RailFalls
  BY <1>6 DEF filestoreNoteBusActivity, UnseenFrame, Switch, Tick, RailFalls, TypeOK
<1>7. CASE Wake \/ Reset
  BY <1>7 DEF Wake, Reset, Boot, BootState
<1> QED
  BY <1>1, <1>2, <1>3, <1>4, <1>5, <1>6, <1>7 DEF Next, LoopStep

(* A bus-wake boot stays up for its whole window, unless setup() itself    *)
(* outlasts the OFF debounce: from then on loop() never commands sleep     *)
(* early, for every threshold and however long setup() takes               *)
(* (ignSleepAfterMs, ignitionPowerTick).                                   *)
THEOREM WindowIsKept == BusWake <= MaxAwake /\ Spec => WakeWindowKept
<1> SUFFICES ASSUME BusWake <= MaxAwake PROVE Spec => WakeWindowKept
  OBVIOUS
<1>1. TypeOK /\ [Next]_vars
        => [Ignition /\ said' /\ ~said /\ ~seenOn /\ ~wdtBoot
              => since >= BusWake \/ (pc = "setup" /\ since >= closeMs)]_vars
  BY WindowStep
<1> QED
  BY <1>1, TypeCorrect, PTL DEF Spec, WakeWindowKept

(* And with a setup() shorter than the debounce the window is whole.       *)
THEOREM WindowIsWhole ==
  MaxSetup < OffDebounce /\ BusWake <= MaxAwake /\ Spec => WakeWindowWhole
<1> SUFFICES ASSUME MaxSetup < OffDebounce, BusWake <= MaxAwake PROVE Spec => WakeWindowWhole
  OBVIOUS
<1>1. Init => SetupInv
  BY Constants DEF Init, SetupInv
<1>2. TypeOK /\ SetupInv /\ [Next]_vars => SetupInv'
  BY SetupStep
<1>3. TypeOK /\ SetupInv /\ [Next]_vars
        => [Ignition /\ said' /\ ~said /\ ~seenOn /\ ~wdtBoot => since >= BusWake]_vars
  <2> SUFFICES ASSUME TypeOK, SetupInv, Next, Ignition, said', ~said, ~seenOn, ~wdtBoot
               PROVE  since >= BusWake
    OBVIOUS
  <2>1. since >= BusWake \/ (pc = "setup" /\ since >= closeMs)
    BY WindowStep
  <2>2. closeMs = OffDebounce
    BY DEF closeMs
  <2> QED
    BY <2>1, <2>2, Constants DEF SetupInv, TypeOK, Age
<1> QED
  BY <1>1, <1>2, <1>3, TypeCorrect, PTL DEF Spec, WakeWindowWhole
=============================================================================
