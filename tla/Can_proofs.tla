------------------------------ MODULE Can_proofs ------------------------------
(***************************************************************************)
(* Proofs about the CAN side: Modes, for every waiting time of canPause    *)
(* that is longer than a task blocks and any number of failed starts;      *)
(* CanRecov, for all its times; SpscRing, the ring canTask fills, for      *)
(* every capacity and every width of its counters.                         *)
(***************************************************************************)
EXTENDS Modes, CanRecov, SpscRing, SequenceTheorems, WellFoundedInduction, TLAPS

(* Where an applyMode in progress, or the last one, takes the mode.        *)
Target == IF at = "pause" THEN call.mode ELSE mode

(* A task inside the driver has been there for as long as canPause has     *)
(* waited for it; none is inside a driver that does not run.               *)
HandsInv ==
  /\ at \notin Stage => pause
  /\ at = "start" => ~up
  /\ canIdle => rx = "away"
  /\ stIdle => st = "away"
  /\ pause /\ rx = "receiving" => waited <= rxAge
  /\ pause /\ st = "ticking" => waited = 0
  /\ at = "blink" => rx = "away" /\ st = "away"
  /\ HandsOff

(* A driver that runs in a passive mode was given listen_only.             *)
GateInv ==
  /\ up /\ mode \in Passive => ctl = "listen_only"
  /\ at = "start" => ~up
  /\ GateKept

(* What is to be restored is what was chosen, and is there only while the  *)
(* ignition is OFF.                                                        *)
ChoiceInv ==
  /\ at # "ignition" => wasOn = on
  /\ wasOn => restore = None
  /\ IF restore = None THEN Target = choice ELSE restore = choice

LEMMA Types ==
  ASSUME NEW m
  PROVE  /\ m \in Passive => m \in Mode /\ m \notin Transmitting /\ m # None
         /\ m \in Transmitting => m \in Mode /\ m \notin Passive /\ m # None
         /\ m \in Mode => m \in Passive \/ m \in Transmitting
         /\ "listen" \in Passive /\ "sniff" \in Passive
  BY DEF Passive, Transmitting, Mode, None

(* The two ways a stage of loop() ends: in an applyMode, or at the next.   *)
LEMMA CallType ==
  ASSUME TypeOK, NEW m \in Mode, NEW p \in BOOLEAN, NEW back \in Stage,
         NEW r \in Transmitting \cup {None}, applyMode(m, p, r), Called(m, p, back),
         on' \in BOOLEAN, wasOn' \in BOOLEAN, pending' \in Transmitting \cup {None}
  PROVE  TypeOK'
<1>1. /\ at' = "pause" /\ call' = [mode |-> m, persist |-> p, back |-> back] /\ waited' = 0
      /\ restore' \in Transmitting \cup {None} /\ pause' \in BOOLEAN
      /\ choice' \in Mode /\ asked' \in Mode
  BY DEF applyMode, Called, StillToRestore, TypeOK
<1>2. UNCHANGED <<mode, stored, up, driver, ctl, fails, rx, rxAge, canIdle, st, stAge, stIdle>>
  BY DEF applyMode, twai, canTaskVars, stVars
<1>3. call' # NoCall /\ call' \in [mode : Mode, persist : BOOLEAN, back : Stage] \cup {NoCall}
  BY <1>1 DEF NoCall, Mode, Passive, Transmitting, None
<1> QED
  BY <1>1, <1>2, <1>3, ModesAssumption DEF TypeOK, Stage

LEMMA GotoType ==
  ASSUME TypeOK, NEW stage \in Stage, Goto(stage),
         on' \in BOOLEAN, wasOn' \in BOOLEAN, pending' \in Transmitting \cup {None},
         restore' \in Transmitting \cup {None}, choice' \in Mode, asked' \in Mode
  PROVE  TypeOK'
<1>1. at' = stage /\ call' = NoCall
  BY DEF Goto
<1>2. UNCHANGED <<waited, mode, stored, up, driver, ctl, fails, pause, rx, rxAge, canIdle,
                  st, stAge, stIdle>>
  BY DEF Goto, twai, canTaskVars, stVars
<1>3. NoCall \in [mode : Mode, persist : BOOLEAN, back : Stage] \cup {NoCall}
  BY DEF NoCall, Stage
<1> QED
  BY <1>1, <1>2, <1>3 DEF TypeOK

LEMMA LoopType ==
  ASSUME TypeOK, Loop
  PROVE  TypeOK'
<1> USE DEF TypeOK, ign, history
<1>1. ASSUME IgnitionOn PROVE TypeOK'
  <2>1. on' \in BOOLEAN /\ wasOn' \in BOOLEAN /\ pending' \in Transmitting \cup {None}
    BY <1>1 DEF IgnitionOn
  <2>2. CASE ~wasOn /\ restore \notin {None, mode}
    <3>1. applyMode(restore, FALSE, None) /\ Called(restore, FALSE, "keys")
      BY <1>1, <2>2 DEF IgnitionOn
    <3> QED
      BY <2>1, <2>2, <3>1, CallType DEF Mode, Stage
  <2>3. CASE ~(~wasOn /\ restore \notin {None, mode})
    <3>1. Goto("keys") /\ restore' \in Transmitting \cup {None} /\ choice' = choice /\ asked' = asked
      BY <1>1, <2>3 DEF IgnitionOn
    <3> QED
      BY <2>1, <3>1, GotoType DEF Stage
  <2> QED
    BY <2>2, <2>3
<1>2. ASSUME IgnitionOff PROVE TypeOK'
  <2>1. on' \in BOOLEAN /\ wasOn' \in BOOLEAN /\ pending' \in Transmitting \cup {None}
    BY <1>2 DEF IgnitionOff
  <2>2. CASE mode \in Transmitting
    <3>1. applyMode("listen", FALSE, IF restore = None THEN mode ELSE restore)
      BY <1>2, <2>2 DEF IgnitionOff
    <3>2. Called("listen", FALSE, "keys")
      BY <1>2, <2>2 DEF IgnitionOff
    <3> QED
      BY <2>1, <2>2, <3>1, <3>2, Types, CallType DEF Mode, Stage
  <2>3. CASE mode \notin Transmitting
    <3>1. Goto("keys") /\ restore' = restore /\ choice' = choice /\ asked' = asked
      BY <1>2, <2>3 DEF IgnitionOff
    <3> QED
      BY <2>1, <3>1, GotoType DEF Stage
  <2> QED
    BY <2>2, <2>3
<1>3. ASSUME NEW m \in Mode, requestMode(m) PROVE TypeOK'
  <2>1. on' = on /\ wasOn' = wasOn
    BY <1>3 DEF requestMode
  <2>2. \/ /\ Goto("keys") /\ restore' = restore /\ choice' \in Mode /\ asked' \in Mode
           /\ pending' \in Transmitting \cup {None}
        \/ applyMode(m, TRUE, restore) /\ Called(m, TRUE, "keys") /\ pending' = pending
    BY <1>3 DEF requestMode
  <2> QED
    BY <2>1, <2>2, CallType, GotoType DEF Stage
<1>4. ASSUME Confirm PROVE TypeOK'
  <2>1. /\ pending \in Mode /\ pending' = None /\ on' = on /\ wasOn' = wasOn
        /\ applyMode(pending, TRUE, restore) /\ Called(pending, TRUE, "keys")
    BY <1>4 DEF Confirm, Mode
  <2> QED
    BY <2>1, CallType DEF Stage
<1>5. ASSUME Cancel \/ NoKey \/ NoRequest PROVE TypeOK'
  <2>1. /\ Goto("keys") \/ Goto("button") \/ Goto("recov")
        /\ pending' \in Transmitting \cup {None} /\ on' = on /\ wasOn' = wasOn
        /\ restore' = restore /\ choice' = choice /\ asked' = asked
    BY <1>5 DEF Cancel, NoKey, NoRequest
  <2> QED
    BY <2>1, GotoType DEF Stage
<1>6. ASSUME handleButton PROVE TypeOK'
  <2>1. on' = on /\ wasOn' = wasOn /\ pending' = pending
    BY <1>6 DEF handleButton
  <2>2. \/ Goto("hub") /\ restore' = restore /\ choice' = choice /\ asked' = asked
        \/ \E m \in Passive : applyMode(m, TRUE, restore) /\ Called(m, TRUE, "hub")
    BY <1>6, Types DEF handleButton
  <2> QED
    BY <2>1, <2>2, CallType, GotoType DEF Stage, Mode
<1>7. ASSUME NEW m \in Passive, cardiagSetPassiveMode(m) PROVE TypeOK'
  <2>1. on' = on /\ wasOn' = wasOn /\ pending' = pending
    BY <1>7 DEF cardiagSetPassiveMode
  <2>2. \/ Goto("recov") /\ restore' = restore /\ choice' = choice /\ asked' \in Mode
        \/ applyMode(m, TRUE, restore) /\ Called(m, TRUE, "recov")
    BY <1>7 DEF cardiagSetPassiveMode, Mode
  <2> QED
    BY <2>1, <2>2, CallType, GotoType DEF Stage, Mode
<1>8. ASSUME canRecoveryTick PROVE TypeOK'
  <2>1. on' = on /\ wasOn' = wasOn /\ pending' = pending
    BY <1>8 DEF canRecoveryTick
  <2>2. \/ Goto("ignition") /\ restore' = restore /\ choice' = choice /\ asked' = asked
        \/ applyMode(mode, FALSE, restore) /\ Called(mode, FALSE, "ignition")
    BY <1>8 DEF canRecoveryTick
  <2> QED
    BY <2>1, <2>2, CallType, GotoType DEF Stage
<1>9. ASSUME Uninstall PROVE TypeOK'
  <2>1. at' = "start" /\ up' = FALSE /\ mode' = call.mode /\ at = "pause" /\ LetGo
    BY <1>9 DEF Uninstall
  <2>2. UNCHANGED <<call, waited, on, wasOn, restore, pending, stored, ctl, pause, rx, rxAge, canIdle,
                    st, stAge, stIdle, choice, asked>>
    BY <1>9 DEF Uninstall, canTaskVars, stVars
  <2>3. at \notin Stage /\ at' \notin Stage
    BY <2>1 DEF Stage
  <2>4. call.mode \in Mode
    BY <1>9, <2>3 DEF Uninstall, NoCall
  <2>5. driver' \in {"none", "installed", "running"} /\ fails' \in 0 .. MaxDriverFails
    BY <2>1, ModesAssumption DEF LetGo
  <2> QED
    BY <2>1, <2>2, <2>3, <2>4, <2>5
<1>10. ASSUME Start PROVE TypeOK'
  <2>1. /\ at' = "blink" /\ at = "start" /\ up' /\ driver' = "running"
        /\ ctl' = twaiModeFor(mode) /\ stored' = Remembered
    BY <1>10 DEF Start
  <2>2. UNCHANGED <<call, waited, on, wasOn, restore, mode, pending, pause, rx, rxAge, canIdle,
                    st, stAge, stIdle, fails, choice, asked>>
    BY <1>10 DEF Start, canTaskVars, stVars
  <2>3. twaiModeFor(mode) \in {"listen_only", "normal", "no_ack"} /\ Remembered \in Passive
    BY DEF twaiModeFor, Remembered
  <2>4. at \notin Stage /\ at' \notin Stage /\ up' \in BOOLEAN
    BY <1>10, <2>1 DEF Start, Stage
  <2> QED
    BY <2>1, <2>2, <2>3, <2>4
<1>11. ASSUME StartFails PROVE TypeOK'
  <2>1. /\ at' = call.back /\ call' = NoCall
        /\ \/ driver = "none" /\ driver' \in {"none", "installed"}
           \/ driver # "none" /\ driver' = driver
        /\ fails' \in 0 .. MaxDriverFails
    BY <1>11, ModesAssumption DEF StartFails
  <2>2. UNCHANGED <<waited, on, wasOn, restore, mode, pending, stored, up, ctl, pause, rx, rxAge, canIdle,
                    st, stAge, stIdle, choice, asked>>
    BY <1>11 DEF StartFails, modes, canTaskVars, stVars
  <2>3. at' \in Stage /\ call' \in [mode : Mode, persist : BOOLEAN, back : Stage] \cup {NoCall}
    BY <2>1 DEF NoCall, Stage
  <2>4. up => driver' = "running"
    BY <2>1 DEF TypeOK
  <2>5. driver' \in {"none", "installed", "running"}
    BY <2>1 DEF TypeOK
  <2> QED
    BY <2>1, <2>2, <2>3, <2>4, <2>5
<1>12. ASSUME Resume PROVE TypeOK'
  <2>1. at' = call.back /\ call' = NoCall /\ ~pause'  /\ pause' \in BOOLEAN
    BY <1>12 DEF Resume
  <2>2. UNCHANGED <<waited, on, wasOn, restore, mode, pending, stored, up, driver, ctl, fails, rx, rxAge,
                    canIdle, st, stAge, stIdle, choice, asked>>
    BY <1>12 DEF Resume, modes, twai, canTaskVars, stVars
  <2>3. at' \in Stage /\ call' \in [mode : Mode, persist : BOOLEAN, back : Stage] \cup {NoCall}
    BY <2>1 DEF NoCall, Stage
  <2> QED
    BY <2>1, <2>2, <2>3
<1> QED
  BY <1>1, <1>2, <1>3, <1>4, <1>5, <1>6, <1>7, <1>8, <1>9, <1>10, <1>11, <1>12 DEF Loop

LEMMA TaskType ==
  ASSUME TypeOK, canTask \/ selfTestTask \/ Ticked \/ Tick \/ UNCHANGED vars
  PROVE  TypeOK'
<1> USE DEF TypeOK
<1>1. /\ UNCHANGED <<at, call, on, wasOn, restore, mode, pending, stored, up, driver, ctl, fails, pause,
                     choice, asked>>
      /\ waited' \in 0 .. PauseTicks
  BY ModesAssumption DEF canTask, selfTestTask, Ticked, Tick, Untouched, vars, control, ign, modes, twai, history
<1>2. rx' \in {"away", "receiving"} /\ rxAge' \in 0 .. AwayTicks
  BY ModesAssumption DEF canTask, selfTestTask, Ticked, Tick, vars, canTaskVars
<1>3. st' \in {"away", "ticking"} /\ stAge' \in 0 .. AwayTicks
  BY ModesAssumption DEF canTask, selfTestTask, Ticked, Tick, vars, stVars
<1>4. canIdle' \in BOOLEAN /\ stIdle' \in BOOLEAN
  BY DEF canTask, selfTestTask, Ticked, Tick, vars, canTaskVars, stVars
<1> QED
  BY <1>1, <1>2, <1>3, <1>4

(* Types, and a driver that is up runs.                                    *)
THEOREM TypeCorrect == Spec => []TypeOK
<1>1. Init => TypeOK
  <2> SUFFICES ASSUME Init PROVE TypeOK
    OBVIOUS
  <2>1. /\ at = "ignition" /\ call = NoCall /\ waited \in 0 .. PauseTicks /\ at \in Stage
        /\ on \in BOOLEAN /\ wasOn \in BOOLEAN /\ restore = None /\ pending = None
    BY ModesAssumption DEF Init, Stage
  <2>2. mode \in Passive /\ stored \in Passive /\ mode \in Mode /\ choice \in Mode /\ asked \in Mode
    BY DEF Init, Mode
  <2>3. /\ up \in BOOLEAN /\ driver = "running" /\ up /\ ctl = "listen_only" /\ pause \in BOOLEAN
        /\ canIdle \in BOOLEAN /\ stIdle \in BOOLEAN /\ rx = "away" /\ st = "away"
    BY DEF Init
  <2>4. rxAge \in 0 .. AwayTicks /\ stAge \in 0 .. AwayTicks /\ fails \in 0 .. MaxDriverFails
    BY ModesAssumption DEF Init
  <2> QED
    BY <2>1, <2>2, <2>3, <2>4 DEF TypeOK
<1>2. TypeOK /\ [Next]_vars => TypeOK'
  BY LoopType, TaskType DEF Next
<1> QED
  BY <1>1, <1>2, PTL DEF Spec

-----------------------------------------------------------------------------
(* HandsOff                                                                *)

(* Every action of loop() that is not part of applyMode ends in one of the *)
(* two ways.                                                               *)
InCall == \E m \in Mode, p \in BOOLEAN, r \in Transmitting \cup {None} : applyMode(m, p, r)
Gone == \E stage \in Stage : Goto(stage)

LEMMA LoopShape ==
  ASSUME TypeOK, Loop
  PROVE  (at \in Stage /\ (InCall \/ Gone)) \/ Uninstall \/ Start \/ StartFails \/ Resume
<1> USE DEF TypeOK, InCall, Gone
<1>1. ASSUME IgnitionOn PROVE at \in Stage /\ (InCall \/ Gone)
  <2>1. /\ at = "ignition"
        /\ \/ restore \in Transmitting /\ applyMode(restore, FALSE, None)
           \/ Goto("keys")
    BY <1>1 DEF IgnitionOn
  <2> QED
    BY <2>1 DEF Stage, Mode
<1>2. ASSUME IgnitionOff PROVE at \in Stage /\ (InCall \/ Gone)
  <2>1. /\ at = "ignition"
        /\ \/ /\ mode \in Transmitting
              /\ applyMode("listen", FALSE, IF restore = None THEN mode ELSE restore)
           \/ Goto("keys")
    BY <1>2 DEF IgnitionOff
  <2> QED
    BY <2>1, Types DEF Stage, Mode
<1>3. ASSUME NEW m \in Mode, requestMode(m) PROVE at \in Stage /\ (InCall \/ Gone)
  <2>1. at = "keys" /\ (Goto("keys") \/ applyMode(m, TRUE, restore))
    BY <1>3 DEF requestMode
  <2> QED
    BY <2>1 DEF Stage
<1>4. ASSUME Confirm PROVE at \in Stage /\ (InCall \/ Gone)
  <2>1. at = "keys" /\ pending \in Mode /\ applyMode(pending, TRUE, restore)
    BY <1>4 DEF Confirm, Mode
  <2> QED
    BY <2>1 DEF Stage
<1>5. ASSUME Cancel \/ NoKey \/ NoRequest PROVE at \in Stage /\ (InCall \/ Gone)
  BY <1>5 DEF Cancel, NoKey, NoRequest, Stage
<1>6. ASSUME handleButton PROVE at \in Stage /\ (InCall \/ Gone)
  <2>1. /\ at = "button"
        /\ (\E m \in Passive : applyMode(m, TRUE, restore)) \/ Goto("hub")
    BY <1>6, Types DEF handleButton
  <2> QED
    BY <2>1 DEF Stage, Mode
<1>7. ASSUME NEW m \in Passive, cardiagSetPassiveMode(m) PROVE at \in Stage /\ (InCall \/ Gone)
  <2>1. at = "hub" /\ (Goto("recov") \/ applyMode(m, TRUE, restore))
    BY <1>7 DEF cardiagSetPassiveMode
  <2> QED
    BY <2>1 DEF Stage, Mode
<1>8. ASSUME canRecoveryTick PROVE at \in Stage /\ (InCall \/ Gone)
  <2>1. at = "recov" /\ (Goto("ignition") \/ applyMode(mode, FALSE, restore))
    BY <1>8 DEF canRecoveryTick
  <2> QED
    BY <2>1 DEF Stage
<1> QED
  BY <1>1, <1>2, <1>3, <1>4, <1>5, <1>6, <1>7, <1>8 DEF Loop

LEMMA HandsLoop ==
  ASSUME TypeOK, HandsInv, Loop
  PROVE  HandsInv'
<1> USE DEF HandsInv, HandsOff
<1>1. ASSUME at \in Stage, InCall PROVE HandsInv'
  <2>1. /\ at' = "pause" /\ waited' = 0 /\ pause'
        /\ UNCHANGED <<up, driver, rx, rxAge, canIdle, st, stIdle>>
    BY <1>1 DEF InCall, applyMode, twai, canTaskVars, stVars
  <2> QED
    BY <2>1 DEF TypeOK
<1>2. ASSUME at \in Stage, Gone PROVE HandsInv'
  <2>1. at' \in Stage /\ UNCHANGED <<pause, waited, up, driver, rx, rxAge, canIdle, st, stIdle>>
    BY <1>2 DEF Gone, Goto, twai, canTaskVars, stVars
  <2> QED
    BY <2>1 DEF Stage
<1>3. ASSUME Uninstall PROVE HandsInv'
  <2>1. /\ at = "pause" /\ at' = "start" /\ ~up' /\ PauseOver
        /\ UNCHANGED <<pause, waited, rx, rxAge, canIdle, st, stIdle>>
    BY <1>3 DEF Uninstall, canTaskVars, stVars
  <2>2. pause
    BY <2>1 DEF Stage
  <2>3. rx # "receiving"
    BY <2>1, <2>2, ModesAssumption DEF PauseOver, TypeOK
  <2>4. st # "ticking"
    BY <2>1, <2>2, ModesAssumption DEF PauseOver, TypeOK
  <2> QED
    BY <2>1, <2>2, <2>3, <2>4 DEF TypeOK
<1>4. ASSUME Start PROVE HandsInv'
  <2>1. /\ at = "start" /\ at' = "blink" /\ driver = "none" /\ driver' = "running"
        /\ UNCHANGED <<pause, waited, rx, rxAge, canIdle, st, stIdle>>
    BY <1>4 DEF Start, canTaskVars, stVars
  <2>2. pause /\ rx = "away" /\ st = "away"
    BY <2>1 DEF Stage, TypeOK
  <2> QED
    BY <2>1, <2>2
<1>5. ASSUME StartFails PROVE HandsInv'
  <2>1. /\ at = "start" /\ at' = call.back
        /\ UNCHANGED <<up, pause, waited, rx, rxAge, canIdle, st, stIdle>>
        /\ (driver # "none" => driver' = driver)
    BY <1>5 DEF StartFails, canTaskVars, stVars
  <2>2. at' \in Stage
    BY <2>1 DEF Stage, TypeOK, NoCall
  <2>3. (rx' = "receiving" \/ st' = "ticking") => driver' = "running"
    BY <2>1
  <2>4. pause /\ ~up
    BY <2>1 DEF Stage
  <2> QED
    BY <2>1, <2>2, <2>3, <2>4 DEF Stage
<1>6. ASSUME Resume PROVE HandsInv'
  <2>1. /\ at = "blink" /\ at' = call.back /\ ~pause'
        /\ UNCHANGED <<up, driver, waited, rx, rxAge, canIdle, st, stIdle>>
    BY <1>6 DEF Resume, twai, canTaskVars, stVars
  <2>2. at' \in Stage
    BY <2>1 DEF Stage, TypeOK, NoCall
  <2> QED
    BY <2>1, <2>2 DEF Stage
<1> QED
  BY <1>1, <1>2, <1>3, <1>4, <1>5, <1>6, LoopShape

LEMMA HandsTask ==
  ASSUME TypeOK, HandsInv, canTask \/ selfTestTask \/ Ticked \/ Tick \/ UNCHANGED vars
  PROVE  HandsInv'
<1> USE DEF HandsInv, HandsOff
<1>1. ASSUME canTask PROVE HandsInv'
  <2>1. UNCHANGED <<at, waited, pause, up, driver, st, stIdle>>
    BY <1>1 DEF canTask, Untouched, control, twai, stVars
  <2>2. CASE pause \/ ~up
    BY <1>1, <2>1, <2>2 DEF canTask, TypeOK
  <2>3. CASE ~pause /\ up
    <3>1. ~canIdle' /\ rx' = "receiving" /\ driver = "running" /\ at # "blink"
      BY <1>1, <2>3 DEF canTask, TypeOK, Stage
    <3> QED
      BY <2>1, <2>3, <3>1
  <2> QED
    BY <2>2, <2>3
<1>2. ASSUME selfTestTask PROVE HandsInv'
  <2>1. UNCHANGED <<at, waited, pause, up, driver, rx, rxAge, canIdle>>
    BY <1>2 DEF selfTestTask, Untouched, control, twai, canTaskVars
  <2>2. CASE pause \/ ~up \/ mode # "selftest"
    BY <1>2, <2>1, <2>2 DEF selfTestTask
  <2>3. CASE ~(pause \/ ~up \/ mode # "selftest")
    <3>1. ~stIdle' /\ st' = "ticking" /\ driver = "running" /\ at # "blink"
      BY <1>2, <2>3 DEF selfTestTask, TypeOK, Stage
    <3> QED
      BY <2>1, <2>3, <3>1
  <2> QED
    BY <2>2, <2>3
<1>3. ASSUME Ticked PROVE HandsInv'
  BY <1>3 DEF Ticked, Untouched, control, twai, canTaskVars
<1>4. ASSUME Tick PROVE HandsInv'
  <2>1. UNCHANGED <<at, pause, up, driver, rx, canIdle, st, stIdle>> /\ st = "away"
    BY <1>4 DEF Tick, twai
  <2>2. rxAge' = rxAge + 1 /\ waited' \in {waited, waited + 1}
    BY <1>4 DEF Tick, TypeOK
  <2>3. pause /\ rx = "receiving" => waited' <= rxAge'
    BY <2>2 DEF TypeOK
  <2> QED
    BY <2>1, <2>3
<1>5. ASSUME UNCHANGED vars PROVE HandsInv'
  BY <1>5 DEF vars
<1> QED
  BY <1>1, <1>2, <1>3, <1>4, <1>5

(* The driver is never taken away under a task that is inside it, for      *)
(* every wait of canPause that is longer than a task blocks.               *)
THEOREM HandsAreOff == Spec => []HandsOff
<1>1. Init => HandsInv
  BY DEF Init, HandsInv, HandsOff, Stage
<1>2. TypeOK /\ HandsInv /\ [Next]_vars => HandsInv'
  BY HandsLoop, HandsTask DEF Next
<1>3. HandsInv => HandsOff
  BY DEF HandsInv
<1> QED
  BY <1>1, <1>2, <1>3, TypeCorrect, PTL DEF Spec

-----------------------------------------------------------------------------
(* GateKept                                                                *)

LEMMA GateStep ==
  ASSUME TypeOK, GateInv, [Next]_vars
  PROVE  GateInv'
<1> USE DEF GateInv, GateKept
<1>1. ASSUME IgnitionOn PROVE GateInv'
  <2>1. on' /\ at' \in {"pause", "keys"} /\ UNCHANGED <<mode, up, ctl>>
    BY <1>1 DEF IgnitionOn, applyMode, Goto, twai
  <2> QED
    BY <2>1
<1>2. ASSUME IgnitionOff PROVE GateInv'
  <2>1. UNCHANGED <<mode, up, ctl>>
    BY <1>2 DEF IgnitionOff, applyMode, Goto, twai
  <2>2. mode \in Transmitting => at' = "pause"
    BY <1>2 DEF IgnitionOff, applyMode
  <2>3. mode \notin Transmitting => at' = "keys"
    BY <1>2 DEF IgnitionOff, Goto
  <2> QED
    BY <2>1, <2>2, <2>3 DEF TypeOK, Mode
<1>3. ASSUME at \notin {"ignition", "start", "pause"}, UNCHANGED <<on, mode, up, ctl>>, at' # "start"
      PROVE  GateInv'
  BY <1>3
<1>4. ASSUME NEW m \in Mode, requestMode(m) PROVE GateInv'
  <2>1. at = "keys" /\ at' # "start" /\ UNCHANGED <<on, mode, up, ctl>>
    BY <1>4 DEF requestMode, applyMode, Goto, twai, ign
  <2> QED
    BY <2>1, <1>3
<1>5. ASSUME Confirm \/ Cancel \/ NoKey \/ handleButton \/ NoRequest \/ canRecoveryTick PROVE GateInv'
  <2>1. at \notin {"ignition", "start", "pause"} /\ at' # "start" /\ UNCHANGED <<on, mode, up, ctl>>
    BY <1>5 DEF Confirm, Cancel, NoKey, handleButton, NoRequest, canRecoveryTick, applyMode, Goto, twai, ign
  <2> QED
    BY <2>1, <1>3
<1>6. ASSUME NEW m \in Passive, cardiagSetPassiveMode(m) PROVE GateInv'
  <2>1. at = "hub" /\ at' # "start" /\ UNCHANGED <<on, mode, up, ctl>>
    BY <1>6 DEF cardiagSetPassiveMode, applyMode, Goto, twai, ign
  <2> QED
    BY <2>1, <1>3
<1>7. ASSUME Uninstall PROVE GateInv'
  BY <1>7 DEF Uninstall
<1>8. ASSUME Start PROVE GateInv'
  <2>1. on' = on /\ mode' = mode /\ at' = "blink" /\ ctl' = twaiModeFor(mode)
    BY <1>8 DEF Start, ign
  <2>2. ~on \/ mode \in Passive => twaiModeFor(mode) = "listen_only"
    BY DEF twaiModeFor, Passive
  <2> QED
    BY <2>1, <2>2
<1>9. ASSUME StartFails PROVE GateInv'
  <2>1. at = "start" /\ ~up /\ up' = up
    BY <1>9 DEF StartFails
  <2> QED
    BY <2>1
<1>10. ASSUME Resume PROVE GateInv'
  <2>1. at = "blink" /\ at' = call.back /\ UNCHANGED <<on, mode, up, ctl>>
    BY <1>10 DEF Resume, ign, modes, twai
  <2>2. at' # "start"
    BY <2>1 DEF TypeOK, Stage, NoCall
  <2> QED
    BY <2>1, <2>2, <1>3
<1>11. ASSUME canTask \/ selfTestTask \/ Ticked \/ Tick \/ UNCHANGED vars PROVE GateInv'
  <2>1. UNCHANGED <<at, on, mode, up, ctl>>
    BY <1>11 DEF canTask, selfTestTask, Ticked, Tick, Untouched, control, ign, modes, twai, vars
  <2> QED
    BY <2>1
<1> QED
  BY <1>1, <1>2, <1>4, <1>5, <1>6, <1>7, <1>8, <1>9, <1>10, <1>11 DEF Next, Loop

(* With the ignition OFF a driver that is up is listen-only outside of the *)
(* drop, however the mode was asked for.                                   *)
THEOREM GateIsKept == Spec => []GateKept
<1>1. Init => GateInv
  BY DEF Init, GateInv, GateKept
<1>2. TypeOK /\ GateInv /\ [Next]_vars => GateInv'
  BY GateStep
<1>3. GateInv => GateKept
  BY DEF GateInv
<1> QED
  BY <1>1, <1>2, <1>3, TypeCorrect, PTL DEF Spec

-----------------------------------------------------------------------------
(* ChoiceHolds                                                             *)

(* What an applyMode has to know of the mode it is given.                  *)
LEMMA ChoiceCall ==
  ASSUME TypeOK, ChoiceInv, NEW m \in Mode, NEW p \in BOOLEAN, NEW back \in Stage,
         NEW r \in Transmitting \cup {None}, applyMode(m, p, r), Called(m, p, back),
         on' = wasOn', wasOn' /\ ~p => r = None,
         ~p => IF r = None THEN m = choice ELSE r = choice
  PROVE  ChoiceInv'
<1>1. at' = "pause" /\ call'.mode = m
  BY DEF applyMode, Called
<1>2. CASE p
  <2>1. restore' = None /\ choice' = m
    BY <1>2 DEF applyMode, StillToRestore
  <2> QED
    BY <1>1, <2>1 DEF ChoiceInv, Target
<1>3. CASE ~p
  <2>1. restore' = r /\ choice' = choice
    BY <1>3 DEF applyMode, StillToRestore
  <2> QED
    BY <1>1, <1>3, <2>1 DEF ChoiceInv, Target
<1> QED
  BY <1>2, <1>3

LEMMA ChoiceGoto ==
  ASSUME TypeOK, ChoiceInv, NEW stage \in Stage, Goto(stage), at \in Stage,
         on' = wasOn', wasOn' => restore' = None, choice' = choice,
         IF restore' = None THEN mode = choice ELSE restore' = choice
  PROVE  ChoiceInv'
<1>1. at' # "pause" /\ mode' = mode
  BY DEF Goto, Stage
<1> QED
  BY <1>1 DEF ChoiceInv, Target

LEMMA ChoiceStep ==
  ASSUME TypeOK, ChoiceInv, [Next]_vars
  PROVE  ChoiceInv'
<1>1. ASSUME IgnitionOn PROVE ChoiceInv'
  <2>1. at = "ignition" /\ at \in Stage /\ on' /\ wasOn' /\ on' = wasOn' /\ mode \in Mode
    BY <1>1 DEF IgnitionOn, Stage, TypeOK
  <2>2. CASE ~wasOn /\ restore \notin {None, mode}
    <3>1. applyMode(restore, FALSE, None) /\ Called(restore, FALSE, "keys") /\ restore \in Mode
      BY <1>1, <2>2 DEF IgnitionOn, TypeOK, Mode
    <3>2. restore = choice
      BY <2>2 DEF ChoiceInv
    <3> QED
      BY <2>1, <3>1, <3>2, ChoiceCall DEF Stage
  <2>3. CASE ~(~wasOn /\ restore \notin {None, mode})
    <3>1. Goto("keys") /\ choice' = choice /\ restore' = IF wasOn THEN restore ELSE None
      BY <1>1, <2>3 DEF IgnitionOn, history
    <3>2. restore' = None /\ mode = choice
      BY <2>1, <2>3, <3>1 DEF ChoiceInv, Target
    <3> QED
      BY <2>1, <3>1, <3>2, ChoiceGoto DEF Stage
  <2> QED
    BY <2>2, <2>3
<1>2. ASSUME IgnitionOff PROVE ChoiceInv'
  <2>1. at = "ignition" /\ at \in Stage /\ ~on' /\ ~wasOn' /\ on' = wasOn' /\ mode \in Mode
    BY <1>2 DEF IgnitionOff, Stage, TypeOK
  <2>2. IF restore = None THEN mode = choice ELSE restore = choice
    BY <2>1 DEF ChoiceInv, Target
  <2>3. CASE mode \in Transmitting
    <3> DEFINE r == IF restore = None THEN mode ELSE restore
    <3>1. applyMode("listen", FALSE, r) /\ Called("listen", FALSE, "keys")
      BY <1>2, <2>3 DEF IgnitionOff
    <3>2. r \in Transmitting \cup {None} /\ r # None /\ r = choice
      BY <2>2, <2>3, Types DEF TypeOK
    <3>3. "listen" \in Mode /\ "keys" \in Stage
      BY DEF Mode, Passive, Stage
    <3> HIDE DEF r
    <3> QED
      BY <2>1, <3>1, <3>2, <3>3, ChoiceCall
  <2>4. CASE mode \notin Transmitting
    <3>1. Goto("keys") /\ choice' = choice /\ restore' = restore
      BY <1>2, <2>4 DEF IgnitionOff, history
    <3> QED
      BY <2>1, <2>2, <3>1, ChoiceGoto DEF Stage
  <2> QED
    BY <2>3, <2>4
<1>3. ASSUME NEW m \in Mode, NEW p \in BOOLEAN, NEW back \in Stage, at \in Stage \ {"ignition"},
             UNCHANGED <<on, wasOn>>, ~p => m = mode,
             \/ applyMode(m, p, restore) /\ Called(m, p, back)
             \/ Goto(back) /\ UNCHANGED <<restore, choice>>
      PROVE  ChoiceInv'
  <2>1. /\ on' = wasOn'
        /\ wasOn' => restore = None
        /\ IF restore = None THEN mode = choice ELSE restore = choice
    BY <1>3 DEF ChoiceInv, Target, Stage
  <2>2. restore \in Transmitting \cup {None}
    BY DEF TypeOK
  <2>3. CASE applyMode(m, p, restore) /\ Called(m, p, back)
    BY <1>3, <2>1, <2>2, <2>3, ChoiceCall
  <2>4. CASE Goto(back) /\ UNCHANGED <<restore, choice>>
    BY <1>3, <2>1, <2>2, <2>4, ChoiceGoto
  <2> QED
    BY <1>3, <2>3, <2>4
<1>4. ASSUME NEW m \in Mode, requestMode(m) PROVE ChoiceInv'
  <2>1. /\ at = "keys" /\ UNCHANGED <<on, wasOn>>
        /\ \/ applyMode(m, TRUE, restore) /\ Called(m, TRUE, "keys")
           \/ Goto("keys") /\ UNCHANGED <<restore, choice>>
    BY <1>4 DEF requestMode, ign, history
  <2> QED
    BY <2>1, <1>3 DEF Stage
<1>5. ASSUME Confirm PROVE ChoiceInv'
  <2>1. /\ at = "keys" /\ UNCHANGED <<on, wasOn>> /\ pending \in Mode
        /\ applyMode(pending, TRUE, restore) /\ Called(pending, TRUE, "keys")
    BY <1>5 DEF Confirm, ign, TypeOK, Mode
  <2> QED
    BY <2>1, <1>3 DEF Stage
<1>6. ASSUME Cancel \/ NoKey \/ NoRequest PROVE ChoiceInv'
  <2>1. /\ at \in {"keys", "hub"} /\ UNCHANGED <<on, wasOn, restore, choice>> /\ mode \in Mode
        /\ Goto("keys") \/ Goto("button") \/ Goto("recov")
    BY <1>6 DEF Cancel, NoKey, NoRequest, ign, history, TypeOK
  <2> QED
    BY <2>1, <1>3 DEF Stage
<1>7. ASSUME handleButton PROVE ChoiceInv'
  <2>1. /\ at = "button" /\ UNCHANGED <<on, wasOn>> /\ mode \in Mode
        /\ \/ \E m \in Passive : applyMode(m, TRUE, restore) /\ Called(m, TRUE, "hub")
           \/ Goto("hub") /\ UNCHANGED <<restore, choice>>
    BY <1>7, Types DEF handleButton, ign, history, TypeOK
  <2> QED
    BY <2>1, <1>3 DEF Stage, Mode
<1>8. ASSUME NEW m \in Passive, cardiagSetPassiveMode(m) PROVE ChoiceInv'
  <2>1. /\ at = "hub" /\ UNCHANGED <<on, wasOn>> /\ m \in Mode
        /\ \/ applyMode(m, TRUE, restore) /\ Called(m, TRUE, "recov")
           \/ Goto("recov") /\ UNCHANGED <<restore, choice>>
    BY <1>8 DEF cardiagSetPassiveMode, ign, Mode
  <2> QED
    BY <2>1, <1>3 DEF Stage
<1>9. ASSUME canRecoveryTick PROVE ChoiceInv'
  <2>1. /\ at = "recov" /\ UNCHANGED <<on, wasOn>> /\ mode \in Mode
        /\ \/ applyMode(mode, FALSE, restore) /\ Called(mode, FALSE, "ignition")
           \/ Goto("ignition") /\ UNCHANGED <<restore, choice>>
    BY <1>9 DEF canRecoveryTick, ign, history, TypeOK
  <2> QED
    BY <2>1, <1>3 DEF Stage
<1>10. ASSUME Uninstall PROVE ChoiceInv'
  <2>1. at = "pause" /\ at' = "start" /\ mode' = call.mode /\ UNCHANGED <<on, wasOn, restore, choice>>
    BY <1>10 DEF Uninstall, ign, history
  <2> QED
    BY <2>1 DEF ChoiceInv, Target
<1>11. ASSUME Start \/ StartFails \/ Resume PROVE ChoiceInv'
  <2>1. /\ at \notin Stage /\ at # "pause" /\ UNCHANGED <<on, wasOn, restore, mode, choice>>
        /\ at' = "blink" \/ at' = call.back
    BY <1>11 DEF Start, StartFails, Resume, ign, modes, history, Stage
  <2>2. at' # "pause" /\ at # "ignition"
    BY <2>1 DEF TypeOK, Stage, NoCall
  <2> QED
    BY <2>1, <2>2 DEF ChoiceInv, Target
<1>12. ASSUME canTask \/ selfTestTask \/ Ticked \/ Tick \/ UNCHANGED vars PROVE ChoiceInv'
  <2>1. UNCHANGED <<at, call, on, wasOn, restore, mode, choice>>
    BY <1>12 DEF canTask, selfTestTask, Ticked, Tick, Untouched, control, ign, modes, history, vars
  <2> QED
    BY <2>1 DEF ChoiceInv, Target
<1> QED
  BY <1>1, <1>2, <1>4, <1>5, <1>6, <1>7, <1>8, <1>9, <1>10, <1>11, <1>12 DEF Next, Loop

(* With the ignition ON the board is in the mode last chosen, whatever was *)
(* dropped and restored on the way.                                        *)
THEOREM ChoiceIsHeld == Spec => []ChoiceHolds
<1>1. Init => ChoiceInv
  BY DEF Init, ChoiceInv, Target
<1>2. TypeOK /\ ChoiceInv /\ [Next]_vars => ChoiceInv'
  BY ChoiceStep
<1>3. TypeOK /\ ChoiceInv => ChoiceHolds
  BY DEF ChoiceInv, ChoiceHolds, Target, Stage, TypeOK
<1> QED
  BY <1>1, <1>2, <1>3, TypeCorrect, PTL DEF Spec

-----------------------------------------------------------------------------
(* CanRecov                                                                *)

LEMMA RecovConstants ==
  /\ PassiveFor \in Nat /\ RecoverTimeout \in Nat /\ BackoffMin \in Nat /\ BackoffMax \in Nat /\ Stable \in Nat
  /\ MaxLate \in Nat /\ BackoffMin > 0 /\ BackoffMin <= BackoffMax /\ MaxLate > 0
  /\ MaxFaults \in Nat /\ MaxModes \in Nat /\ MaxFails \in Nat
  /\ Half \in Nat /\ BackoffMax < Half /\ MaxLate < Half
BY CanRecovAssumption

LEMMA RecovTypeInit == RecovInit => RecovTypeOK
<1>1. /\ 0 \in Age /\ BackoffMin \in BackoffMin .. BackoffMax /\ 0 \in 0 .. BackoffMax
      /\ 1 \in 1 .. MaxLate /\ 0 \in 0 .. MaxFaults /\ 0 \in 0 .. MaxModes
      /\ 0 \in 1 - Half .. Half /\ 0 \in 0 .. MaxFails
  BY RecovConstants DEF Age
<1> QED
  BY <1>1 DEF RecovInit, RecovTypeOK

(* What the ages and the backoff can become.                               *)
LEMMA RecovRanges ==
  ASSUME RecovTypeOK, NEW d \in 1 .. MaxLate
  PROVE  /\ Left(d) \in 1 - Half .. Half /\ Doubled \in BackoffMin .. BackoffMax /\ backoff <= Doubled
         /\ \A a \in Age : Aged(a, d) \in Age
         /\ 0 \in Age /\ backoff \in 0 .. BackoffMax /\ backoff \in 1 - Half .. Half
         /\ FailingFor(d) \in Age /\ HealthyFor(d) \in Age
<1>1. /\ backoff \in BackoffMin .. BackoffMax /\ wait \in 1 - Half .. Half
      /\ failingAge \in Age /\ healthyAge \in Age
  BY DEF RecovTypeOK
<1>2. Left(d) \in 1 - Half .. Half
  BY <1>1, RecovConstants DEF Left
<1>3. Doubled \in BackoffMin .. BackoffMax /\ backoff <= Doubled
  BY <1>1, RecovConstants DEF Doubled
<1>4. \A a \in Age : Aged(a, d) \in Age
  BY RecovConstants DEF Age, Aged
<1>5. 0 \in Age /\ backoff \in 0 .. BackoffMax /\ backoff \in 1 - Half .. Half
  BY <1>1, RecovConstants DEF Age
<1> QED
  BY <1>1, <1>2, <1>3, <1>4, <1>5 DEF FailingFor, HealthyFor

LEMMA RecovTypeStep == RecovTypeOK /\ [RecovNext]_recovVars => RecovTypeOK'
<1> SUFFICES ASSUME RecovTypeOK, [RecovNext]_recovVars
             PROVE  RecovTypeOK'
  OBVIOUS
<1>a. Reinstall => badStarts' \in 0 .. MaxFails /\ bus' \in {"running", "none"} /\ tx' = "ok"
  BY RecovConstants DEF Reinstall, RecovTypeOK
<1>1. ASSUME NEW d \in 1 .. MaxLate, Ages(d), UNCHANGED <<faults, modeChanges>>,
             Recovering(d) \/ BusOff(d) \/ Failing(d) \/ Healthy(d) \/ Down(d)
      PROVE  RecovTypeOK'
  <2>r. /\ Left(d) \in 1 - Half .. Half /\ Doubled \in BackoffMin .. BackoffMax
        /\ \A a \in Age : Aged(a, d) \in Age
        /\ 0 \in Age /\ backoff \in 0 .. BackoffMax /\ backoff \in 1 - Half .. Half
        /\ FailingFor(d) \in Age /\ HealthyFor(d) \in Age
    BY RecovRanges
  <2>a. late' \in 1 .. MaxLate /\ stuckAge' \in Age
    BY <1>1, <2>r DEF Ages, RecovTypeOK
  <2>b. owed' \in 0 .. BackoffMax
    <3>1. owed \in 0 .. BackoffMax
      BY DEF RecovTypeOK
    <3>2. (IF owed > d THEN owed - d ELSE 0) \in 0 .. BackoffMax
      BY <3>1, RecovConstants
    <3> QED
      BY <1>1, <2>r, <3>2 DEF Ages
  <2>c. faults' \in 0 .. MaxFaults /\ modeChanges' \in 0 .. MaxModes
    BY <1>1 DEF RecovTypeOK
  <2>1. CASE Recovering(d)
    <3>1. CASE RestartDriver(d)
      BY <2>1, <3>1, <1>a, <2>r, <2>a, <2>b, <2>c DEF Recovering, RestartDriver, canRecovAct, RecovTypeOK
    <3>2. CASE NoAction(d) /\ UNCHANGED <<failing, failingAge, backoff>>
      BY <2>1, <3>2, <2>r, <2>a, <2>b, <2>c DEF Recovering, NoAction, RecovTypeOK
    <3> QED
      BY <2>1, <3>1, <3>2 DEF Recovering
  <2>2. CASE BusOff(d)
    <3>1. CASE StartRecovery(d)
      BY <2>2, <3>1, <2>r, <2>a, <2>b, <2>c DEF BusOff, StartRecovery, canRecovAct, RecovTypeOK
    <3>2. CASE NoAction(d) /\ failingAge' = Aged(failingAge, d) /\ UNCHANGED <<failing, backoff>>
      BY <2>2, <3>2, <2>r, <2>a, <2>b, <2>c DEF BusOff, NoAction, RecovTypeOK
    <3> QED
      BY <2>2, <3>1, <3>2 DEF BusOff
  <2>3. CASE Failing(d)
    <3>1. CASE RestartDriver(d)
      BY <2>3, <3>1, <1>a, <2>r, <2>a, <2>b, <2>c DEF Failing, RestartDriver, canRecovAct, RecovTypeOK
    <3>2. CASE NoAction(d) /\ failing' = TRUE /\ failingAge' = FailingFor(d) /\ UNCHANGED backoff
      BY <2>3, <3>2, <2>r, <2>a, <2>b, <2>c DEF Failing, NoAction, RecovTypeOK
    <3> QED
      BY <2>3, <3>1, <3>2 DEF Failing
  <2>4. CASE Healthy(d)
    <3>1. BackoffMin \in BackoffMin .. BackoffMax
      BY RecovConstants
    <3> QED
      BY <2>4, <3>1, <2>r, <2>a, <2>b, <2>c DEF Healthy, NoAction, RecovTypeOK
  <2>5. CASE Down(d)
    <3>1. failingAge' \in Age /\ healthyAge' \in Age
      BY <2>5, <2>r DEF Down, RecovTypeOK
    <3> QED
      BY <2>5, <3>1, <2>r, <2>a, <2>b, <2>c DEF Down, Up, NoAction, RecovTypeOK
  <2> QED
    BY <1>1, <2>1, <2>2, <2>3, <2>4, <2>5
<1>e. ASSUME Elsewhere
      PROVE  /\ recovering' = recovering /\ recoverAge' \in Age /\ (failing' = failing)
             /\ failingAge' \in Age /\ healthyAge' \in Age
             /\ backoff' \in BackoffMin .. BackoffMax /\ wait' \in 1 - Half .. Half
             /\ act' = "none" /\ late' \in 1 .. MaxLate /\ stuckAge' \in Age /\ owed' \in 0 .. BackoffMax
  BY <1>e DEF Elsewhere, recov, sinceAct, RecovTypeOK
<1>f. Fault => faults' \in 0 .. MaxFaults
  BY RecovConstants DEF Fault, RecovTypeOK
<1>2. CASE GoesBusOff
  BY <1>2, <1>e, <1>f DEF GoesBusOff, Fault, Kept, RecovTypeOK
<1>3. CASE GoesPassive
  BY <1>3, <1>e, <1>f DEF GoesPassive, Fault, Kept, RecovTypeOK
<1>4. CASE Clears
  BY <1>4, <1>e DEF Clears, Kept, RecovTypeOK
<1>5. CASE Recessive
  BY <1>5, <1>e DEF Recessive, Kept, RecovTypeOK
<1>6. CASE ModeChange
  <2>1. modeChanges' \in 0 .. MaxModes
    BY <1>6, RecovConstants DEF ModeChange, RecovTypeOK
  <2> QED
    BY <1>6, <1>a, <1>e, <2>1 DEF ModeChange, RecovTypeOK
<1>7. CASE UNCHANGED recovVars
  BY <1>7 DEF recovVars, RecovTypeOK
<1> QED
  BY <1>1, <1>2, <1>3, <1>4, <1>5, <1>6, <1>7 DEF RecovNext, canRecovStep

(* What is owed is still to be waited for, and a RESTART that ends a       *)
(* recovery writes no shorter wait.                                        *)
OwedInv == (owed <= wait \/ owed = 0) /\ (recovering => owed <= backoff)

LEMMA OwedStep == RecovTypeOK /\ OwedInv /\ [RecovNext]_recovVars
      => OwedInv' /\ (act' = "recover" /\ ~UNCHANGED recovVars => owed <= late')
<1> SUFFICES ASSUME RecovTypeOK, OwedInv, [RecovNext]_recovVars
             PROVE  OwedInv' /\ (act' = "recover" /\ ~UNCHANGED recovVars => owed <= late')
  OBVIOUS
<1>t. owed \in Nat /\ wait \in 1 - Half .. Half /\ backoff \in Nat /\ Half \in Nat /\ MaxLate < Half
      /\ MaxLate \in Nat
  BY RecovConstants DEF RecovTypeOK
<1>1. ASSUME NEW d \in 1 .. MaxLate, Ages(d),
             Recovering(d) \/ BusOff(d) \/ Failing(d) \/ Healthy(d) \/ Down(d)
      PROVE  OwedInv' /\ (act' = "recover" => owed <= late')
  <2>r. backoff <= Doubled /\ d \in Nat /\ Doubled \in Nat
    BY RecovRanges, RecovConstants
  <2>o. late' = d /\ owed' = IF act' = "recover" THEN backoff ELSE IF owed > d THEN owed - d ELSE 0
    BY <1>1 DEF Ages
  <2>m. MayAct(d) => owed <= d
    BY <2>r, <1>t DEF MayAct, Left, OwedInv
  <2>n. ASSUME NoAction(d), recovering => backoff' = backoff PROVE OwedInv' /\ act' # "recover"
    BY <2>n, <2>o, <2>r, <1>t DEF NoAction, Left, OwedInv
  <2>1. CASE Recovering(d)
    <3>1. CASE RestartDriver(d)
      BY <2>1, <3>1, <2>o, <2>r, <1>t DEF Recovering, RestartDriver, canRecovAct, OwedInv
    <3>2. CASE NoAction(d) /\ UNCHANGED <<failing, failingAge, backoff>>
      BY <3>2, <2>n
    <3> QED
      BY <2>1, <3>1, <3>2 DEF Recovering
  <2>2. CASE BusOff(d)
    <3>1. CASE MayAct(d) /\ StartRecovery(d)
      <4>1. owed <= d
        BY <3>1, <2>m
      <4>2. act' = "recover" /\ wait' = backoff /\ backoff' = Doubled
        BY <3>1 DEF StartRecovery, canRecovAct
      <4> QED
        BY <4>1, <4>2, <2>o, <2>r, <1>t DEF OwedInv
    <3>2. CASE NoAction(d) /\ failingAge' = Aged(failingAge, d) /\ UNCHANGED <<failing, backoff>>
      BY <3>2, <2>n
    <3> QED
      BY <2>2, <3>1, <3>2 DEF BusOff
  <2>3. CASE Failing(d)
    <3>1. CASE MayAct(d) /\ RestartDriver(d)
      <4>1. owed <= d
        BY <3>1, <2>m
      <4>2. act' = "restart" /\ wait' = backoff /\ recovering' = FALSE
        BY <3>1 DEF RestartDriver, canRecovAct
      <4> QED
        BY <4>1, <4>2, <2>o, <2>r, <1>t DEF OwedInv
    <3>2. CASE NoAction(d) /\ failing' = TRUE /\ failingAge' = FailingFor(d) /\ UNCHANGED backoff
      BY <3>2, <2>n
    <3> QED
      BY <2>3, <3>1, <3>2 DEF Failing
  <2>4. CASE Healthy(d)
    BY <2>4, <2>n DEF Healthy
  <2>5. CASE Down(d)
    BY <2>5, <2>n DEF Down
  <2> QED
    BY <1>1, <2>1, <2>2, <2>3, <2>4, <2>5
<1>2. CASE GoesBusOff \/ GoesPassive \/ Clears \/ Recessive \/ ModeChange
  <2>1. Elsewhere
    BY <1>2 DEF GoesBusOff, GoesPassive, Clears, Recessive, ModeChange
  <2> QED
    BY <2>1 DEF Elsewhere, recov, sinceAct, OwedInv
<1>3. CASE UNCHANGED recovVars
  BY <1>3 DEF recovVars, OwedInv
<1> QED
  BY <1>1, <1>2, <1>3 DEF RecovNext, canRecovStep

(* Every variable of CanRecov keeps its type whatever the timings: the      *)
(* backoff stays between its bounds, the wait is a signed difference, an    *)
(* age saturates at Stable, a controller                                    *)
(* that stopped or recovers does so in a recovery canRecovStep knows of.    *)
THEOREM RecovTypes == RecovSpec => []RecovTypeOK
BY RecovTypeInit, RecovTypeStep, PTL DEF RecovSpec

(* A RECOVER never comes sooner than the one before announced: nothing      *)
(* between the two shortens the wait.  The RESTART that ends a recovery     *)
(* writes the same timer, but a backoff at least as long; a healthy run     *)
(* resets the backoff, not the timer; the wrap of the clock only puts an    *)
(* action off.                                                              *)
THEOREM NoHammering == RecovSpec => RecoversSpaced
<1>1. RecovInit => OwedInv
  BY RecovConstants DEF RecovInit, OwedInv
<1>2. RecovTypeOK /\ OwedInv /\ [RecovNext]_recovVars => OwedInv' /\ [act' = "recover" => owed <= late']_recovVars
  BY OwedStep
<1> QED
  BY <1>1, <1>2, RecovTypes, PTL DEF RecovSpec, RecoversSpaced

-----------------------------------------------------------------------------
(* SpscRing                                                                *)

(* Remainders.                                                             *)
LEMMA Divides ==
  ASSUME NEW x \in Int, NEW c \in Nat, c > 0
  PROVE  x % c \in 0 .. c - 1 /\ x \div c \in Int /\ x = c * (x \div c) + (x % c)
OBVIOUS

LEMMA Factor ==
  ASSUME NEW c \in Nat, c > 0, NEW z \in Int, NEW r \in 0 .. c - 1, NEW s \in 0 .. c - 1, c * z = s - r
  PROVE  z = 0 /\ r = s
<1>1. CASE z >= 1
  <2>1. c * z >= c * 1
    BY <1>1
  <2> QED
    BY <2>1
<1>2. CASE z <= -1
  <2>1. c * z <= c * (-1)
    BY <1>2
  <2> QED
    BY <2>1
<1>3. CASE z = 0
  BY <1>3
<1> QED
  BY <1>1, <1>2, <1>3

LEMMA Remainder ==
  ASSUME NEW c \in Nat, c > 0, NEW x \in Int, NEW z \in Int, NEW r \in 0 .. c - 1, x = c * z + r
  PROVE  x % c = r
<1> DEFINE q == x \div c
           s == x % c
<1>1. s \in 0 .. c - 1 /\ q \in Int /\ x = c * q + s
  BY Divides
<1> HIDE DEF q, s
<1>2. c * (q - z) = r - s
  <2>1. c * (q - z) = c * q - c * z
    BY <1>1
  <2> QED
    BY <1>1, <2>1
<1>3. q - z \in Int
  BY <1>1
<1>4. r = s
  <2> DEFINE w == q - z
  <2>1. w \in Int /\ c * w = r - s
    BY <1>2, <1>3
  <2> HIDE DEF w
  <2> QED
    BY <1>1, <2>1, Factor
<1> QED
  BY <1>4 DEF s

LEMMA SameRemainder ==
  ASSUME NEW c \in Nat, c > 0, NEW x \in Int, NEW y \in Int, NEW z \in Int, y = c * z + x
  PROVE  y % c = x % c
<1> DEFINE q == x \div c
           s == x % c
<1>1. s \in 0 .. c - 1 /\ q \in Int /\ x = c * q + s
  BY Divides
<1> HIDE DEF q, s
<1>2. q + z \in Int /\ y = c * (q + z) + s
  BY <1>1
<1>3. y % c = s
  BY <1>1, <1>2, Remainder
<1> QED
  BY <1>3 DEF s

LEMMA Apart ==
  ASSUME NEW c \in Nat, c > 0, NEW x \in Int, NEW y \in Int, x < y, y < x + c
  PROVE  x % c # y % c
<1> SUFFICES ASSUME x % c = y % c PROVE FALSE
  OBVIOUS
<1> DEFINE q == x \div c
           p == y \div c
           s == x % c
<1>1. s \in 0 .. c - 1 /\ q \in Int /\ p \in Int /\ x = c * q + s /\ y = c * p + s
  BY Divides
<1> HIDE DEF q, p, s
<1>2. c * (p - q) = y - x
  <2>1. c * (p - q) = c * p - c * q
    BY <1>1
  <2> QED
    BY <1>1, <2>1
<1>3. p - q \in Int /\ y - x \in 0 .. c - 1 /\ 0 \in 0 .. c - 1
  BY <1>1
<1>4. y - x = 0
  <2> DEFINE w == p - q
  <2>1. w \in Int /\ c * w = (y - x) - 0
    BY <1>2, <1>3
  <2> HIDE DEF w
  <2> QED
    BY <1>3, <2>1, Factor
<1> QED
  BY <1>4

LEMMA Least ==
  ASSUME NEW S, S \subseteq Nat, NEW x \in S
  PROVE  \E m \in S : \A n \in S : ~(n < m)
<1> DEFINE Less == {ss \in Nat \X Nat : ss[1] < ss[2]}
<1>1. IsWellFoundedOn(Less, Nat)
  BY NatLessThanWellFounded DEF OpToRel
<1>2. \A m, n \in Nat : n < m => <<n, m>> \in Less
  OBVIOUS
<1> HIDE DEF Less
<1>3. \E m \in S : \A n \in S : <<n, m>> \notin Less
  BY <1>1, WFMin
<1> QED
  BY <1>2, <1>3

(* The capacity is a power of two that divides the width of the counters.  *)
LEMMA RingConstants ==
  /\ Cap \in Nat /\ Cap > 0 /\ Wrap \in Nat /\ 2 * Cap <= Wrap /\ Wrap % Cap = 0
<1>1. /\ Wrap \in Nat /\ Size \in Nat /\ Size > 0 /\ 2 * Size <= Wrap
      /\ \A p \in Powers : p < Wrap => 2 * p \in Powers
  BY SpscAssumption
<1> DEFINE Short == {m \in Nat : \E p \in Powers : p <= Size /\ m = Size - p}
<1>2. 1 \in Powers
  <2>1. Wrap % 1 = 0
    <3>1. 0 \in 0 .. 0 /\ Wrap = 1 * Wrap + 0
      BY <1>1
    <3> QED
      BY <1>1, <3>1, Remainder
  <2> QED
    BY <1>1, <2>1 DEF Powers
<1>3. Size - 1 \in Short
  BY <1>1, <1>2
<1>4. PICK m \in Short : \A n \in Short : ~(n < m)
  <2>1. Short \subseteq Nat
    OBVIOUS
  <2> HIDE DEF Short
  <2> QED
    BY <1>3, <2>1, Least
<1>5. PICK p \in Powers : p <= Size /\ m = Size - p
  BY <1>4
<1>6. p \in Nat /\ p > 0
  BY <1>5, <1>1 DEF Powers
<1>7. Size < 2 * p
  <2> SUFFICES ASSUME 2 * p <= Size PROVE FALSE
    BY <1>1, <1>6
  <2>1. 2 * p \in Powers
    BY <1>1, <1>6
  <2>2. Size - 2 * p \in Short /\ Size - 2 * p < m
    BY <1>1, <1>5, <1>6, <2>1
  <2> QED
    BY <1>4, <2>2
<1>8. Cap \in Powers /\ Cap <= Size
  BY <1>5, <1>7 DEF Cap, spscPow2Floor
<1> QED
  BY <1>1, <1>8 DEF Powers

(* What the counters say of the numbers of rows.                           *)
LEMMA Counted ==
  ASSUME NEW p \in Nat, NEW c \in Nat, c <= p, p <= c + Cap
  PROVE  Minus(p % Wrap, c % Wrap) = p - c
<1> DEFINE a == p \div Wrap
           r == p % Wrap
           b == c \div Wrap
           s == c % Wrap
<1>1. /\ a \in Int /\ b \in Int /\ r \in Int /\ s \in Int
      /\ p = Wrap * a + r /\ c = Wrap * b + s
  BY RingConstants, Divides
<1> HIDE DEF a, r, b, s
<1>2. r - s = Wrap * (b - a) + (p - c)
  <2>1. Wrap * (b - a) = Wrap * b - Wrap * a
    BY <1>1, RingConstants
  <2>2. Wrap * a \in Int /\ Wrap * b \in Int
    BY <1>1, RingConstants
  <2> QED
    BY <1>1, <2>1, <2>2
<1>3. p - c \in 0 .. Wrap - 1 /\ b - a \in Int /\ r - s \in Int /\ Wrap > 0
  BY <1>1, RingConstants
<1>4. (r - s) % Wrap = p - c
  BY <1>2, <1>3, RingConstants, Remainder
<1> QED
  BY <1>4 DEF Minus, r, s

LEMMA SlotIs ==
  ASSUME NEW c \in Nat, NEW i \in Nat
  PROVE  SlotOf((c % Wrap) + i) = (c + i) % Cap /\ SlotOf(c % Wrap) = c % Cap
<1> DEFINE b == c \div Wrap
           s == c % Wrap
           m == Wrap \div Cap
<1>1. b \in Int /\ s \in Int /\ c = Wrap * b + s
  BY RingConstants, Divides
<1>2. m \in Int /\ Wrap = Cap * m
  <2>1. Wrap = Cap * m + (Wrap % Cap) /\ m \in Int
    BY RingConstants, Divides
  <2> HIDE DEF m
  <2>2. Cap * m \in Int
    BY <2>1, RingConstants
  <2> QED
    BY <2>1, <2>2, RingConstants
<1> HIDE DEF b, s, m
<1>3. m * b \in Int /\ Wrap * b = Cap * (m * b)
  BY <1>1, <1>2, RingConstants
<1> DEFINE z == m * b
<1>4. c + i = (s + i) + Cap * z /\ c = Cap * z + s
  BY <1>1, <1>3, RingConstants
<1>5. z \in Int /\ s + i \in Int /\ s \in Int /\ c + i \in Int
  BY <1>1, <1>3
<1> HIDE DEF z
<1>6. (c + i) % Cap = (s + i) % Cap
  <2> DEFINE x == s + i
             y == c + i
  <2>1. x \in Int /\ y \in Int /\ y = Cap * z + x
    BY <1>4, <1>5, RingConstants
  <2>0. Cap \in Nat /\ Cap > 0
    BY RingConstants
  <2> HIDE DEF x, y
  <2>2. y % Cap = x % Cap
    BY <1>5, <2>0, <2>1, SameRemainder
  <2> QED
    BY <2>2 DEF x, y
<1>7. c % Cap = s % Cap
  <2>1. c \in Int /\ Cap \in Nat /\ Cap > 0
    BY RingConstants
  <2> QED
    BY <1>4, <1>5, <2>1, SameRemainder
<1> QED
  BY <1>6, <1>7 DEF SlotOf, s

LEMMA CounterStep ==
  ASSUME NEW c \in Nat, NEW i \in Nat
  PROVE  ((c % Wrap) + i) % Wrap = (c + i) % Wrap
<1> DEFINE b == c \div Wrap
           s == c % Wrap
<1>1. b \in Int /\ s \in Int /\ c = Wrap * b + s
  BY RingConstants, Divides
<1> HIDE DEF b, s
<1>2. c + i = (s + i) + Wrap * b /\ s + i \in Int /\ c + i \in Int
  <2>1. Wrap * b \in Int
    BY <1>1, RingConstants
  <2> QED
    BY <1>1, <2>1
<1>3. (c + i) % Wrap = (s + i) % Wrap
  <2> DEFINE x == s + i
             y == c + i
  <2>1. x \in Int /\ y \in Int /\ y = Wrap * b + x
    BY <1>1, <1>2, RingConstants
  <2>0. Wrap \in Nat /\ Wrap > 0
    BY RingConstants
  <2> HIDE DEF x, y
  <2>2. y % Wrap = x % Wrap
    BY <1>1, <2>0, <2>1, SameRemainder
  <2> QED
    BY <2>2 DEF x, y
<1> QED
  BY <1>3 DEF s

-----------------------------------------------------------------------------
(* Where the two sides are: the counters are the numbers of rows but for   *)
(* the width, the rows held are whole and in their slots, and the producer *)
(* writes a slot that holds none of them.                                  *)
Steps == {"idle", "tail", "rec", "mask", "publish"}

RingTyped ==
  /\ published \in Nat /\ consumed \in Nat /\ published <= MaxRows
  /\ rec \in [Slot -> Int] /\ mask \in [Slot -> Int]
  /\ pat \in Steps /\ cat \in {"idle", "rec", "mask", "consume"}
  /\ have \in Nat /\ row \in 0 .. have

Counters ==
  /\ head = published % Wrap /\ tail = consumed % Wrap
  /\ consumed <= published /\ published <= consumed + Cap

Writing ==
  /\ pat # "idle" => ph = head /\ published < MaxRows
  /\ pat \in {"rec", "mask", "publish"} => published < consumed + Cap
  /\ pat \in {"mask", "publish"} => rec[published % Cap] = published
  /\ pat = "publish" => mask[published % Cap] = published

Held == \A x \in consumed .. published - 1 : rec[x % Cap] = x /\ mask[x % Cap] = x

Taking ==
  /\ cat # "idle" => have > 0 /\ have <= published - consumed
  /\ cat = "mask" => row < have

RingInv == RingTyped /\ Counters /\ Writing /\ Held /\ Taking

LEMMA RingStart == RingInit => RingInv
<1> SUFFICES ASSUME RingInit PROVE RingInv
  OBVIOUS
<1>1. 0 % Wrap = 0
  <2>1. 0 \in 0 .. Wrap - 1 /\ 0 = Wrap * 0 + 0 /\ Wrap > 0
    BY RingConstants
  <2> QED
    BY <2>1, RingConstants, Remainder
<1>2. RingTyped
  BY SpscAssumption DEF RingInit, RingTyped, Steps, NoRow
<1>3. Counters
  BY <1>1, RingConstants DEF RingInit, Counters
<1>4. Writing /\ Taking
  BY DEF RingInit, Writing, Taking
<1>5. Held
  BY DEF RingInit, Held
<1> QED
  BY <1>2, <1>3, <1>4, <1>5 DEF RingInv

LEMMA Difference ==
  ASSUME RingInv
  PROVE  Minus(head, tail) = published - consumed
BY Counted DEF RingInv, RingTyped, Counters

(* The slot the producer writes is none of those that hold a row.          *)
LEMMA OwnSlot ==
  ASSUME RingInv, pat \in {"rec", "mask", "publish"}
  PROVE  /\ SlotOf(ph) = published % Cap /\ SlotOf(ph) \in Slot
         /\ \A x \in consumed .. published - 1 : x % Cap # published % Cap
<1>1. ph = published % Wrap /\ published \in Nat /\ consumed \in Nat /\ published < consumed + Cap
  BY DEF RingInv, Writing, Counters, RingTyped
<1>2. SlotOf(ph) = published % Cap
  BY <1>1, SlotIs
<1>3. published % Cap \in Slot
  BY <1>1, RingConstants, Divides DEF Slot
<1>4. ASSUME NEW x \in consumed .. published - 1 PROVE x % Cap # published % Cap
  <2>1. x \in Int /\ published \in Int /\ x < published /\ published < x + Cap
    BY <1>1, RingConstants
  <2> QED
    BY <2>1, RingConstants, Apart
<1> QED
  BY <1>2, <1>3, <1>4

LEMMA RingStep == RingInv /\ [RingNext]_ringVars => RingInv'
<1> SUFFICES ASSUME RingInv, [RingNext]_ringVars
             PROVE  RingInv'
  OBVIOUS
<1>t. RingTyped /\ Counters /\ Writing /\ Held /\ Taking
  BY DEF RingInv
<1>c. Cap \in Nat /\ Cap > 0 /\ published \in Nat /\ consumed \in Nat
  BY <1>t, RingConstants DEF RingTyped
<1>1. CASE LoadHead
  BY <1>1, <1>t DEF LoadHead, RingInv, RingTyped, Steps, Counters, Writing, Held, Taking, consumer
<1>2. CASE spscReserve
  <2>1. published < consumed + Cap
    <3>1. ph = head /\ ~(Minus(ph, tail) >= Cap)
      BY <1>2, <1>t DEF spscReserve, Full, Writing
    <3> QED
      BY <3>1, <1>c, Difference
  <2> QED
    BY <1>2, <2>1, <1>t DEF spscReserve, RingInv, RingTyped, Steps, Counters, Writing, Held, Taking, consumer
<1>3. CASE Refuse
  BY <1>3, <1>t DEF Refuse, RingInv, RingTyped, Steps, Counters, Writing, Held, Taking, consumer
<1>4. CASE FillRecord
  <2>1. /\ SlotOf(ph) = published % Cap /\ SlotOf(ph) \in Slot
        /\ \A x \in consumed .. published - 1 : x % Cap # published % Cap
    BY <1>4, OwnSlot DEF FillRecord
  <2>2. rec' = [rec EXCEPT ![published % Cap] = published]
    BY <1>4, <2>1 DEF FillRecord
  <2>3. rec' \in [Slot -> Int] /\ rec'[published % Cap] = published
    BY <2>1, <2>2, <1>c, <1>t DEF RingTyped
  <2>4. ASSUME NEW x \in consumed .. published - 1 PROVE rec'[x % Cap] = x
    <3>1. x % Cap \in Slot
      BY <1>c, Divides DEF Slot
    <3> QED
      BY <2>1, <2>2, <3>1, <1>t DEF RingTyped, Held
  <2>5. Held'
    BY <1>4, <2>4, <1>t DEF FillRecord, Held
  <2> QED
    BY <1>4, <2>3, <2>5, <1>t DEF FillRecord, RingInv, RingTyped, Steps, Counters, Writing, Taking, consumer
<1>5. CASE FillMask
  <2>1. /\ SlotOf(ph) = published % Cap /\ SlotOf(ph) \in Slot
        /\ \A x \in consumed .. published - 1 : x % Cap # published % Cap
    BY <1>5, OwnSlot DEF FillMask
  <2>2. mask' = [mask EXCEPT ![published % Cap] = published]
    BY <1>5, <2>1 DEF FillMask
  <2>3. mask' \in [Slot -> Int] /\ mask'[published % Cap] = published
    BY <2>1, <2>2, <1>c, <1>t DEF RingTyped
  <2>4. ASSUME NEW x \in consumed .. published - 1 PROVE mask'[x % Cap] = x
    <3>1. x % Cap \in Slot
      BY <1>c, Divides DEF Slot
    <3> QED
      BY <2>1, <2>2, <3>1, <1>t DEF RingTyped, Held
  <2>5. Held'
    BY <1>5, <2>4, <1>t DEF FillMask, Held
  <2> QED
    BY <1>5, <2>3, <2>5, <1>t DEF FillMask, RingInv, RingTyped, Steps, Counters, Writing, Taking, consumer
<1>6. CASE spscPublish
  <2>1. /\ published' = published + 1 /\ consumed' = consumed /\ published < MaxRows
        /\ published < consumed + Cap /\ rec' = rec /\ mask' = mask
        /\ rec[published % Cap] = published /\ mask[published % Cap] = published
    BY <1>6, <1>t DEF spscPublish, Writing, consumer
  <2>2. head' = published' % Wrap
    BY <1>6, <2>1, <1>t, <1>c, CounterStep DEF spscPublish, Counters
  <2>3. Counters'
    BY <1>6, <2>1, <2>2, <1>t, <1>c DEF spscPublish, Counters
  <2>4. Held'
    <3>1. \A x \in consumed .. published : x \in consumed .. published - 1 \/ x = published
      BY <1>c
    <3>2. published' - 1 = published
      BY <2>1, <1>c
    <3> QED
      BY <2>1, <3>1, <3>2, <1>t DEF Held
  <2>5. RingTyped'
    BY <1>6, <2>1, <1>t, SpscAssumption DEF spscPublish, RingTyped, Steps, consumer
  <2>6. Writing' /\ Taking'
    BY <1>6, <2>1, <1>c, <1>t DEF spscPublish, Writing, Taking, RingTyped, consumer
  <2> QED
    BY <2>3, <2>4, <2>5, <2>6 DEF RingInv
<1>7. CASE spscCount
  <2>1. have' = published - consumed
    BY <1>7, Difference DEF spscCount
  <2> QED
    BY <1>7, <2>1, <1>t, <1>c DEF spscCount, RingInv, RingTyped, Steps, Counters, Writing, Held, Taking, producer
<1>8. CASE ReadRecord
  BY <1>8, <1>t DEF ReadRecord, RingInv, RingTyped, Steps, Counters, Writing, Held, Taking, producer
<1>9. CASE ReadMask
  BY <1>9, <1>t DEF ReadMask, RingInv, RingTyped, Steps, Counters, Writing, Held, Taking, producer
<1>10. CASE StopReading
  BY <1>10, <1>t DEF StopReading, RingInv, RingTyped, Steps, Counters, Writing, Held, Taking, producer
<1>11. CASE spscConsume
  <2> DEFINE n == GivenBack(IF row = 0 THEN have ELSE row)
  <2>1. n \in Nat /\ n <= published - consumed
    BY <1>11, <1>t, <1>c, Difference DEF spscConsume, GivenBack, RingTyped, Taking
  <2>2. tail' = (tail + n) % Wrap /\ consumed' = consumed + n
    BY <1>11 DEF spscConsume
  <2> HIDE DEF n
  <2>3. tail' = consumed' % Wrap
    BY <2>1, <2>2, <1>t, <1>c, CounterStep DEF Counters
  <2>4. UNCHANGED <<head, rec, mask, pat, ph, published>>
    BY <1>11 DEF spscConsume, producer
  <2>5. Counters'
    BY <2>1, <2>2, <2>3, <2>4, <1>c, <1>t DEF Counters
  <2>6. Held'
    BY <2>1, <2>2, <2>4, <1>c, <1>t DEF Held
  <2>7. RingTyped' /\ Writing' /\ Taking'
    BY <1>11, <2>1, <2>2, <2>4, <1>c, <1>t DEF spscConsume, RingTyped, Writing, Taking
  <2> QED
    BY <2>5, <2>6, <2>7 DEF RingInv
<1>12. CASE UNCHANGED ringVars
  BY <1>12, <1>t DEF ringVars, producer, consumer, RingInv, RingTyped, Steps, Counters, Writing, Held, Taking
<1> QED
  BY <1>1, <1>2, <1>3, <1>4, <1>5, <1>6, <1>7, <1>8, <1>9, <1>10, <1>11, <1>12 DEF RingNext

-----------------------------------------------------------------------------
(* The ring implements the queue.                                          *)
Queued == [i \in 1 .. Minus(head, tail) |-> <<rec[SlotOf(tail + i - 1)], mask[SlotOf(tail + i - 1)]>>]
RowsOf(c, p) == [i \in 1 .. p - c |-> <<c + i - 1, c + i - 1>>]

LEMMA SameEnd ==
  ASSUME NEW m \in Nat, NEW n \in Nat, 1 .. m = 1 .. n
  PROVE  m = n
<1>1. CASE m > n
  <2>1. m \in 1 .. m /\ m \notin 1 .. n
    BY <1>1
  <2> QED
    BY <2>1
<1>2. CASE n > m
  <2>1. n \in 1 .. n /\ n \notin 1 .. m
    BY <1>2
  <2> QED
    BY <2>1
<1> QED
  BY <1>1, <1>2

LEMMA RowsSeq ==
  ASSUME NEW c \in Nat, NEW p \in Nat, c <= p
  PROVE  /\ RowsOf(c, p) \in Seq(Int \X Int) /\ Len(RowsOf(c, p)) = p - c
         /\ \A i \in 1 .. p - c : RowsOf(c, p)[i] = <<c + i - 1, c + i - 1>>
<1>1. p - c \in Nat /\ \A i \in 1 .. p - c : <<c + i - 1, c + i - 1>> \in Int \X Int
  OBVIOUS
<1>2. RowsOf(c, p) \in [1 .. p - c -> Int \X Int]
  BY <1>1 DEF RowsOf
<1>3. RowsOf(c, p) \in Seq(Int \X Int)
  BY <1>1, <1>2, SeqDef
<1>4. DOMAIN RowsOf(c, p) = 1 .. p - c /\ \A i \in 1 .. p - c : RowsOf(c, p)[i] = <<c + i - 1, c + i - 1>>
  BY DEF RowsOf
<1>5. Len(RowsOf(c, p)) = p - c
  <2> DEFINE s == RowsOf(c, p)
             n == p - c
  <2>1. Len(s) \in Nat /\ DOMAIN s = 1 .. Len(s) /\ DOMAIN s = 1 .. n /\ n \in Nat
    BY <1>1, <1>3, <1>4, LenProperties
  <2> HIDE DEF s, n
  <2>2. Len(s) = n
    BY <2>1, SameEnd
  <2> QED
    BY <2>2 DEF s, n
<1> QED
  BY <1>3, <1>4, <1>5

LEMMA QueueIs ==
  ASSUME RingInv
  PROVE  Queued = RowsOf(consumed, published)
<1>1. /\ Minus(head, tail) = published - consumed /\ tail = consumed % Wrap
      /\ published \in Nat /\ consumed \in Nat /\ consumed <= published
  BY Difference DEF RingInv, RingTyped, Counters
<1>2. ASSUME NEW i \in 1 .. published - consumed
      PROVE  <<rec[SlotOf(tail + i - 1)], mask[SlotOf(tail + i - 1)]>> = <<consumed + i - 1, consumed + i - 1>>
  <2> DEFINE j == i - 1
  <2>1. j \in Nat /\ tail + i - 1 = tail + j /\ consumed + i - 1 = consumed + j
        /\ consumed + j \in consumed .. published - 1
    <3>1. tail \in Int
      BY <1>1, RingConstants, Divides
    <3> QED
      BY <1>1, <3>1
  <2> HIDE DEF j
  <2>2. SlotOf(tail + j) = (consumed + j) % Cap
    BY <1>1, <2>1, SlotIs
  <2>3. rec[(consumed + j) % Cap] = consumed + j /\ mask[(consumed + j) % Cap] = consumed + j
    BY <2>1 DEF RingInv, Held
  <2> QED
    BY <2>1, <2>2, <2>3
<1> QED
  BY <1>1, <1>2 DEF Queued, RowsOf

LEMMA RowsGrow ==
  ASSUME NEW c \in Nat, NEW p \in Nat, c <= p
  PROVE  RowsOf(c, p + 1) = Append(RowsOf(c, p), <<p, p>>)
<1> DEFINE s == RowsOf(c, p)
           t == RowsOf(c, p + 1)
           e == <<p, p>>
<1>1. s \in Seq(Int \X Int) /\ Len(s) = p - c /\ \A i \in 1 .. p - c : s[i] = <<c + i - 1, c + i - 1>>
  BY RowsSeq
<1>2. t \in Seq(Int \X Int) /\ Len(t) = p + 1 - c /\ \A i \in 1 .. p + 1 - c : t[i] = <<c + i - 1, c + i - 1>>
  <2> DEFINE pp == p + 1
  <2>1. pp \in Nat /\ c <= pp
    OBVIOUS
  <2> HIDE DEF pp
  <2>2. /\ RowsOf(c, pp) \in Seq(Int \X Int) /\ Len(RowsOf(c, pp)) = pp - c
        /\ \A i \in 1 .. pp - c : RowsOf(c, pp)[i] = <<c + i - 1, c + i - 1>>
    BY <2>1, RowsSeq
  <2> QED
    BY <2>2 DEF pp
<1>3. e \in Int \X Int /\ e = <<p, p>>
  OBVIOUS
<1> HIDE DEF s, t, e
<1>4. /\ Append(s, e) \in Seq(Int \X Int) /\ Len(Append(s, e)) = p + 1 - c
      /\ \A i \in 1 .. Len(s) : Append(s, e)[i] = s[i]
      /\ Append(s, e)[Len(s) + 1] = e
  BY <1>1, <1>3, AppendProperties
<1>5. ASSUME NEW i \in 1 .. p + 1 - c PROVE t[i] = Append(s, e)[i]
  <2>1. CASE i \in 1 .. p - c
    BY <1>1, <1>2, <1>4, <2>1
  <2>2. CASE i = Len(s) + 1
    <3>1. c + i - 1 = p
      BY <1>1, <2>2
    <3> QED
      BY <1>2, <1>3, <1>4, <2>2, <3>1
  <2> QED
    BY <1>1, <2>1, <2>2
<1>6. t = Append(s, e)
  BY <1>2, <1>4, <1>5, SeqEqual
<1> QED
  BY <1>6 DEF s, t, e

LEMMA RowsShrink ==
  ASSUME NEW c \in Nat, NEW p \in Nat, NEW n \in 1 .. p - c
  PROVE  RowsOf(c + n, p) = SubSeq(RowsOf(c, p), n + 1, Len(RowsOf(c, p)))
<1> DEFINE s == RowsOf(c, p)
           t == RowsOf(c + n, p)
<1>0. c <= p /\ n \in Nat /\ n <= p - c
  OBVIOUS
<1>1. s \in Seq(Int \X Int) /\ Len(s) = p - c /\ \A i \in 1 .. p - c : s[i] = <<c + i - 1, c + i - 1>>
  BY <1>0, RowsSeq
<1>2. t \in Seq(Int \X Int) /\ Len(t) = p - (c + n)
      /\ \A i \in 1 .. p - (c + n) : t[i] = <<c + n + i - 1, c + n + i - 1>>
  <2> DEFINE cc == c + n
  <2>1. cc \in Nat /\ cc <= p
    OBVIOUS
  <2> HIDE DEF cc
  <2>2. /\ RowsOf(cc, p) \in Seq(Int \X Int) /\ Len(RowsOf(cc, p)) = p - cc
        /\ \A i \in 1 .. p - cc : RowsOf(cc, p)[i] = <<cc + i - 1, cc + i - 1>>
    BY <2>1, RowsSeq
  <2> QED
    BY <2>2 DEF cc
<1> HIDE DEF s, t
<1>l. Len(s) \in Nat /\ 1 <= n /\ n <= Len(s)
  BY <1>0, <1>1
<1> DEFINE u == SubSeq(s, n + 1, Len(s))
<1>3. n + 1 \in 1 .. Len(s) + 1 /\ Len(s) \in 0 .. Len(s) /\ Len(s) - (n + 1) + 1 = p - (c + n)
  <2> DEFINE m == Len(s)
  <2>1. m \in Nat /\ n \in Nat /\ 1 <= n /\ n <= m /\ m = p - c
    BY <1>0, <1>1, <1>l
  <2> HIDE DEF m
  <2>2. n + 1 \in 1 .. m + 1 /\ m \in 0 .. m
    BY <2>1
  <2>3. m - (n + 1) + 1 = p - (c + n)
    BY <2>1
  <2> QED
    BY <2>2, <2>3 DEF m
<1>4. /\ u \in Seq(Int \X Int) /\ Len(u) = p - (c + n)
      /\ \A i \in 1 .. p - (c + n) : u[i] = s[n + 1 + i - 1]
  BY <1>1, <1>3, SubSeqProperties
<1>5. ASSUME NEW i \in 1 .. p - (c + n) PROVE t[i] = u[i]
  <2>1. n + 1 + i - 1 \in 1 .. p - c /\ c + (n + 1 + i - 1) - 1 = c + n + i - 1
    OBVIOUS
  <2> QED
    BY <1>1, <1>2, <1>4, <2>1
<1>7. t = u
  <2> HIDE DEF u
  <2> QED
    BY <1>2, <1>4, <1>5, SeqEqual
<1> QED
  BY <1>7 DEF s, t, u

LEMMA QueueNext == RingInv' => (Queued = RowsOf(consumed, published))'
<1>1. RingInv => Queued = RowsOf(consumed, published)
  BY QueueIs
<1> QED
  BY <1>1, PTL

LEMMA RingIsQueue == RingInv /\ RingInv' /\ [RingNext]_ringVars => [FifoOf!Next]_FifoOf!vars
<1> SUFFICES ASSUME RingInv, RingInv', [RingNext]_ringVars
             PROVE  [FifoOf!Next]_<<Queued, refused>>
  BY DEF FifoOf!vars, Queued
<1>q. Queued = RowsOf(consumed, published) /\ Queued' = RowsOf(consumed', published')
  <2>1. Queued = RowsOf(consumed, published)
    BY QueueIs
  <2> QED
    BY <2>1, QueueNext
<1>t. published \in Nat /\ consumed \in Nat /\ consumed <= published /\ Len(Queued) = published - consumed
  <2>1. published \in Nat /\ consumed \in Nat /\ consumed <= published
    BY DEF RingInv, RingTyped, Counters
  <2> QED
    BY <1>q, <2>1, RowsSeq
<1>s. ASSUME UNCHANGED <<published, consumed, refused>> PROVE [FifoOf!Next]_<<Queued, refused>>
  BY <1>s, <1>q
<1>1. CASE LoadHead \/ spscReserve \/ FillRecord \/ FillMask
  BY <1>1, <1>s DEF LoadHead, spscReserve, FillRecord, FillMask
<1>2. CASE spscCount \/ ReadRecord \/ ReadMask \/ StopReading
  BY <1>2, <1>s DEF spscCount, ReadRecord, ReadMask, StopReading
<1>3. CASE UNCHANGED ringVars
  BY <1>3, <1>s DEF ringVars
<1>4. CASE Refuse
  <2>1. refused' = refused + 1 /\ UNCHANGED <<published, consumed>>
    BY <1>4 DEF Refuse
  <2>2. published - consumed >= Cap /\ published <= consumed + Cap
    <3>1. ph = head /\ Minus(ph, tail) >= Cap
      BY <1>4 DEF Refuse, Full, RingInv, Writing
    <3> QED
      BY <3>1, Difference DEF RingInv, Counters
  <2>3. Len(Queued) = Cap
    BY <1>t, <2>2, RingConstants
  <2>4. FifoOf!Refuse
    BY <1>q, <2>1, <2>3 DEF FifoOf!Refuse, Queued
  <2> QED
    BY <2>4 DEF FifoOf!Next
<1>5. CASE spscPublish
  <2>1. published' = published + 1 /\ UNCHANGED <<consumed, refused>>
    BY <1>5 DEF spscPublish, consumer
  <2>2. published < consumed + Cap /\ published \in 0 .. MaxRows
    BY <1>5, <1>t, SpscAssumption DEF spscPublish, RingInv, Writing, RingTyped
  <2>3. Len(Queued) < Cap
    BY <1>t, <2>2, RingConstants
  <2>4. Queued' = Append(Queued, <<published, published>>)
    BY <1>q, <1>t, <2>1, RowsGrow
  <2>5. <<published, published>> \in {<<n, n>> : n \in 0 .. MaxRows}
    BY <2>2
  <2>6. FifoOf!Put
    BY <2>1, <2>3, <2>4, <2>5 DEF FifoOf!Put, Queued
  <2> QED
    BY <2>6 DEF FifoOf!Next
<1>6. CASE spscConsume
  <2> DEFINE n == GivenBack(IF row = 0 THEN have ELSE row)
  <2>1. n \in 1 .. published - consumed
    <3>1. /\ have > 0 /\ have <= published - consumed /\ have \in Nat /\ row \in 0 .. have
      BY <1>6 DEF spscConsume, RingInv, RingTyped, Taking
    <3> QED
      BY <1>t, <3>1, Difference DEF GivenBack
  <2>2. consumed' = consumed + n /\ UNCHANGED <<published, refused>>
    BY <1>6 DEF spscConsume
  <2> HIDE DEF n
  <2>3. Queued' = SubSeq(Queued, n + 1, Len(Queued))
    BY <1>q, <1>t, <2>1, <2>2, RowsShrink
  <2>4. n \in 1 .. Len(Queued)
    BY <1>t, <2>1
  <2>5. FifoOf!GiveBack
    BY <2>2, <2>3, <2>4 DEF FifoOf!GiveBack, Queued
  <2> QED
    BY <2>5 DEF FifoOf!Next
<1> QED
  BY <1>1, <1>2, <1>3, <1>4, <1>5, <1>6 DEF RingNext

(* What the consumer reads at a slot is the row that was put there, record *)
(* and mask, however far the producer has gone meanwhile.                  *)
ReadsWhole ==
  cat \in {"rec", "mask"} /\ row < have =>
    LET s == SlotOf(tail + row) IN rec[s] = consumed + row /\ mask[s] = consumed + row

(* Wherever producer and consumer stand, the counters are the numbers of    *)
(* rows but for their width, at most Cap rows are held, each whole and in   *)
(* its slot, and the slot being written is none of theirs.                  *)
THEOREM RingInvariant == RingSpec => []RingInv
BY RingStart, RingStep, PTL DEF RingSpec

(* The consumer never reads half a row or another one: the record and the   *)
(* mask it takes are those of the row it is at.                             *)
THEOREM RowsAreRead == RingSpec => []ReadsWhole
<1>1. RingInv => ReadsWhole
  <2> SUFFICES ASSUME RingInv, cat \in {"rec", "mask"}, row < have
               PROVE  /\ rec[SlotOf(tail + row)] = consumed + row
                      /\ mask[SlotOf(tail + row)] = consumed + row
    BY DEF ReadsWhole
  <2>1. /\ row \in Nat /\ consumed \in Nat /\ published \in Nat /\ have \in Nat /\ have <= published - consumed
        /\ tail = consumed % Wrap
    BY DEF RingInv, RingTyped, Counters, Taking
  <2>2. SlotOf(tail + row) = (consumed + row) % Cap
    BY <2>1, SlotIs
  <2>3. consumed + row \in consumed .. published - 1
    BY <2>1
  <2> QED
    BY <2>2, <2>3 DEF RingInv, Held
<1> QED
  BY <1>1, RingInvariant, PTL

(* The ring implements the queue of whole rows: publish is Put, a refusal   *)
(* is a full queue's, consume is GiveBack, every other step a stutter; for  *)
(* any capacity and any width of the counters.                              *)
THEOREM RingImplementsQueue == RingSpec => KeepsFifo
<1>1. RingInit => FifoOf!Init
  <2> SUFFICES ASSUME RingInit PROVE FifoOf!Init
    OBVIOUS
  <2>1. Queued = RowsOf(0, 0)
    BY RingStart, QueueIs DEF RingInit
  <2>2. RowsOf(0, 0) = <<>>
    <3>1. RowsOf(0, 0) \in Seq(Int \X Int) /\ Len(RowsOf(0, 0)) = 0 - 0
      BY RowsSeq
    <3> QED
      BY <3>1, EmptySeq
  <2> QED
    BY <2>1, <2>2 DEF FifoOf!Init, Queued, RingInit
<1> QED
  BY <1>1, RingInvariant, RingIsQueue, PTL DEF RingSpec, KeepsFifo, FifoOf!Spec
=============================================================================
