--------------------------------- MODULE Modes ---------------------------------
(***************************************************************************)
(* The driving mode and the TWAI driver (main.cpp) under the ignition      *)
(* policy: loop() changes the mode from five of its stages, each through   *)
(* applyMode, which takes the driver away from canTask and selfTestTask.   *)
(*                                                                         *)
(* The three tasks share core 1 and loop() has the lowest priority: what a *)
(* task does between two of its blocking calls is one step.                *)
(***************************************************************************)
EXTENDS Integers

CONSTANTS
  AwayTicks,           \* the longest a task blocks (CAN_RX_WAIT_MS)
  PauseTicks,          \* how long canPause waits (CAN_RX_WAIT_MS * 3)
  MaxDriverFails       \* bound: driver calls that fail

ASSUME ModesAssumption ==
  /\ AwayTicks \in Nat \ {0} /\ PauseTicks \in Nat /\ MaxDriverFails \in Nat
  /\ AwayTicks < PauseTicks

VARIABLES
  at,                  \* stage of loop(), or of the applyMode it is in
  call,                \* arguments of that applyMode, and the stage to go on with
  waited,              \* ticks spent in canPause
  on, wasOn,           \* ignition believed ON, now and in the pass before
  restore,             \* g_modeRestore
  mode, pending,       \* g_mode, g_pendingMode
  stored,              \* the mode in NVS
  up,                  \* g_twaiUp
  driver, ctl,         \* what the TWAI driver is, and the mode it was given
  pause,               \* g_canPause
  rx, rxAge, canIdle,  \* canTask, ticks since it blocked, g_canIdle
  st, stAge, stIdle,   \* selfTestTask
  fails,
  choice,              \* history: the mode last applied at someone's request
  asked                \* history: the mode last asked for, changed or not

control == <<at, call, waited>>
ign == <<on, wasOn>>
modes == <<restore, mode, pending, stored>>
twai == <<up, driver, ctl, fails>>
canTaskVars == <<rx, rxAge, canIdle>>
stVars == <<st, stAge, stIdle>>
history == <<choice, asked>>
vars == <<at, call, waited, on, wasOn, restore, mode, pending, stored, up, driver, ctl, pause,
          rx, rxAge, canIdle, st, stAge, stIdle, fails, choice, asked>>

Passive == {"listen", "sniff"}
Transmitting == {"selftest", "poll"}      \* modeTransmits
Mode == Passive \cup Transmitting
None == "none"                            \* MODE_RESTORE_NONE, 0xFF

Stage == {"ignition", "keys", "button", "hub", "recov"}
NoCall == [mode |-> None, persist |-> FALSE, back |-> "ignition"]

TypeOK ==
  /\ at \in Stage \cup {"pause", "start", "blink"}
  /\ call \in [mode : Mode, persist : BOOLEAN, back : Stage] \cup {NoCall}
  /\ at \in Stage <=> call = NoCall
  /\ waited \in 0 .. PauseTicks
  /\ on \in BOOLEAN /\ wasOn \in BOOLEAN
  /\ restore \in Transmitting \cup {None} /\ pending \in Transmitting \cup {None}
  /\ mode \in Mode /\ stored \in Passive
  /\ up \in BOOLEAN /\ driver \in {"none", "installed", "running"}
  /\ ctl \in {"listen_only", "normal", "no_ack"}
  /\ up => driver = "running"
  /\ pause \in BOOLEAN
  /\ rx \in {"away", "receiving"} /\ rxAge \in 0 .. AwayTicks /\ canIdle \in BOOLEAN
  /\ st \in {"away", "ticking"} /\ stAge \in 0 .. AwayTicks /\ stIdle \in BOOLEAN
  /\ fails \in 0 .. MaxDriverFails
  /\ choice \in Mode /\ asked \in Mode

\* Mutant: the mode alone decides.
twaiModeFor_NoGate(m) ==
  IF m = "selftest" THEN "no_ack" ELSE IF m = "poll" THEN "normal" ELSE "listen_only"

\* NORMAL acknowledges and NO_ACK drives: neither while the TX gate is shut.
twaiModeFor(m) ==
  IF ~on THEN "listen_only"
    ELSE IF m = "selftest" THEN "no_ack" ELSE IF m = "poll" THEN "normal" ELSE "listen_only"

\* setup(), after its own applyMode: the stored mode, the tasks just created.
Init ==
  /\ at = "ignition" /\ call = NoCall /\ waited = 0
  /\ on \in BOOLEAN /\ wasOn = TRUE
  /\ restore = None /\ pending = None
  /\ mode \in Passive /\ stored = mode
  /\ up = TRUE /\ driver = "running" /\ ctl = "listen_only"
  /\ pause = FALSE
  /\ rx = "away" /\ rxAge = 0 /\ canIdle = FALSE
  /\ st = "away" /\ stAge = 0 /\ stIdle = TRUE
  /\ fails = 0 /\ choice = mode /\ asked = mode

-----------------------------------------------------------------------------
(* applyMode                                                               *)

\* Mutant: a choice leaves the mode to restore standing.
StillToRestore_NoCancel(r, persist) == r

\* A deliberate choice cancels the restore.
StillToRestore(r, persist) == IF persist THEN None ELSE r

\* applyMode(m, persist), r being the mode to restore by then.
applyMode(m, persist, r) ==
  /\ restore' = StillToRestore(r, persist)
  /\ pause' = TRUE /\ waited' = 0
  /\ at' = "pause"
  /\ choice' = IF persist THEN m ELSE choice
  /\ asked' = IF persist THEN m ELSE asked
  /\ UNCHANGED <<mode, stored, twai, canTaskVars, stVars>>

Goto(stage) ==
  /\ at' = stage /\ call' = NoCall
  /\ UNCHANGED <<waited, mode, stored, twai, pause, canTaskVars, stVars>>

\* Mutant: only the receiver is waited for.
PauseOver_ReceiverOnly == canIdle \/ waited >= PauseTicks

\* canPause: both tasks are off the driver, or waiting any longer is no use.
PauseOver == (canIdle /\ stIdle) \/ waited >= PauseTicks

\* twai_stop and twai_driver_uninstall, if the driver is up.  Nobody looks at
\* what they answer: one that is refused leaves the driver as it was.
LetGo ==
  \/ up /\ driver' = "none" /\ UNCHANGED fails
  \/ up /\ driver' \in {"running", "installed"} /\ fails < MaxDriverFails /\ fails' = fails + 1
  \/ ~up /\ UNCHANGED <<driver, fails>>

Uninstall ==
  /\ at = "pause" /\ PauseOver
  /\ LetGo /\ up' = FALSE
  /\ mode' = call.mode
  /\ at' = "start"
  /\ UNCHANGED <<call, waited, ign, restore, pending, stored, ctl, pause, canTaskVars, stVars,
                 history>>

\* Only a passive mode is remembered, and only if someone chose it.
Remembered == IF call.persist /\ mode \in Passive THEN mode ELSE stored

Start ==
  /\ at = "start" /\ driver = "none"
  /\ driver' = "running" /\ up' = TRUE /\ ctl' = twaiModeFor(mode)
  /\ stored' = Remembered
  /\ at' = "blink"
  /\ UNCHANGED <<call, waited, ign, restore, mode, pending, pause, canTaskVars, stVars, fails,
                 history>>

\* The tasks stay paused and g_twaiUp FALSE; a driver that is still there
\* cannot be installed again.
StartFails ==
  /\ at = "start"
  /\ \/ driver = "none" /\ fails < MaxDriverFails
        /\ driver' \in {"none", "installed"} /\ fails' = fails + 1
     \/ driver # "none" /\ UNCHANGED <<driver, fails>>
  /\ at' = call.back /\ call' = NoCall
  /\ UNCHANGED <<waited, ign, modes, up, ctl, pause, canTaskVars, stVars, history>>

\* blinkMode(), then canResume().
Resume ==
  /\ at = "blink"
  /\ pause' = FALSE
  /\ at' = call.back /\ call' = NoCall
  /\ UNCHANGED <<waited, ign, modes, twai, canTaskVars, stVars, history>>

-----------------------------------------------------------------------------
(* loop()                                                                  *)

Called(m, persist, back) == call' = [mode |-> m, persist |-> persist, back |-> back]

\* powerLoop and ignitionPowerTick, ignition ON: the edge restores.
IgnitionOn ==
  /\ at = "ignition"
  /\ on' = TRUE /\ wasOn' = TRUE /\ UNCHANGED pending
  /\ IF ~wasOn /\ restore \notin {None, mode}
       THEN applyMode(restore, FALSE, None) /\ Called(restore, FALSE, "keys")
       ELSE Goto("keys") /\ restore' = (IF wasOn THEN restore ELSE None) /\ UNCHANGED history

\* Ignition OFF: a transmitting mode is dropped to LISTEN.
IgnitionOff ==
  /\ at = "ignition"
  /\ on' = FALSE /\ wasOn' = FALSE /\ UNCHANGED pending
  /\ IF mode \in Transmitting
       THEN /\ applyMode("listen", FALSE, IF restore = None THEN mode ELSE restore)
            /\ Called("listen", FALSE, "keys")
       ELSE Goto("keys") /\ UNCHANGED <<restore, history>>

\* handleKeys, 1 to 4: a mode that transmits waits for a 'y'.  A pass reads
\* every key there is.
requestMode(m) ==
  /\ at = "keys" /\ pending = None /\ UNCHANGED ign
  /\ \/ /\ m \in Transmitting /\ ~on
        /\ Goto("keys") /\ UNCHANGED <<restore, pending, history>>
     \/ /\ m \in Passive \/ on
        /\ m = mode
        /\ Goto("keys") /\ asked' = m /\ UNCHANGED <<restore, pending, choice>>
     \/ /\ m \in Transmitting \ {mode} /\ on
        /\ Goto("keys") /\ pending' = m /\ UNCHANGED <<restore, history>>
     \/ /\ m \in Passive \ {mode}
        /\ applyMode(m, TRUE, restore) /\ Called(m, TRUE, "keys") /\ UNCHANGED pending

Confirm ==
  /\ at = "keys" /\ pending # None
  /\ pending' = None
  /\ applyMode(pending, TRUE, restore) /\ Called(pending, TRUE, "keys")
  /\ UNCHANGED ign

\* Any other key.
Cancel ==
  /\ at = "keys" /\ pending # None
  /\ pending' = None
  /\ Goto("keys") /\ UNCHANGED <<ign, restore, history>>

\* The end of handleKeys: the window for the 'y' may be over.
NoKey ==
  /\ at = "keys"
  /\ pending' \in {pending, None}
  /\ Goto("button") /\ UNCHANGED <<ign, restore, history>>

handleButton ==
  /\ at = "button" /\ UNCHANGED <<ign, pending>>
  /\ LET m == IF mode = "sniff" THEN "listen" ELSE "sniff"
     IN  \/ applyMode(m, TRUE, restore) /\ Called(m, TRUE, "hub")
         \/ Goto("hub") /\ UNCHANGED <<restore, history>>

\* What a web page or the hub may ask for.
cardiagSetPassiveMode(m) ==
  /\ at = "hub" /\ UNCHANGED <<ign, pending>>
  /\ IF m # mode
       THEN applyMode(m, TRUE, restore) /\ Called(m, TRUE, "recov")
       ELSE Goto("recov") /\ asked' = m /\ UNCHANGED <<restore, choice>>

NoRequest ==
  /\ at = "hub"
  /\ Goto("recov") /\ UNCHANGED <<ign, restore, pending, history>>

\* A RESTART of canRecovStep: the same mode again.
canRecoveryTick ==
  /\ at = "recov" /\ UNCHANGED <<ign, pending>>
  /\ \/ up /\ applyMode(mode, FALSE, restore) /\ Called(mode, FALSE, "ignition")
     \/ Goto("ignition") /\ UNCHANGED <<restore, history>>

Loop ==
  \/ IgnitionOn
  \/ IgnitionOff
  \/ \E m \in Mode : requestMode(m)
  \/ Confirm
  \/ Cancel
  \/ NoKey
  \/ handleButton
  \/ \E m \in Passive : cardiagSetPassiveMode(m)
  \/ NoRequest
  \/ canRecoveryTick
  \/ Uninstall
  \/ Start
  \/ StartFails
  \/ Resume

-----------------------------------------------------------------------------
(* The other tasks                                                         *)

Untouched == UNCHANGED <<control, ign, modes, twai, pause, history>>

\* From where twai_receive or the delay returns to where it blocks again.
canTask ==
  /\ IF pause \/ ~up THEN canIdle' = TRUE /\ rx' = "away"
                     ELSE canIdle' = FALSE /\ rx' = "receiving"
  /\ rxAge' = 0
  /\ UNCHANGED stVars /\ Untouched

selfTestTask ==
  /\ st = "away"
  /\ IF pause \/ ~up \/ mode # "selftest" THEN stIdle' = TRUE /\ st' = "away"
                                          ELSE stIdle' = FALSE /\ st' = "ticking"
  /\ stAge' = 0
  /\ UNCHANGED canTaskVars /\ Untouched

\* selfTestTick is over; the delay that follows leaves g_stIdle FALSE.
Ticked ==
  /\ st = "ticking" /\ st' = "away" /\ stAge' = 0
  /\ UNCHANGED stIdle
  /\ UNCHANGED canTaskVars /\ Untouched

\* Time passes for whoever waits; no task overruns what it waits for.
Tick ==
  /\ rxAge < AwayTicks /\ stAge < AwayTicks /\ st = "away"
  /\ rxAge' = rxAge + 1 /\ stAge' = stAge + 1
  /\ waited' = IF at = "pause" /\ waited < PauseTicks THEN waited + 1 ELSE waited
  /\ UNCHANGED <<at, call, ign, modes, twai, pause, rx, canIdle, st, stIdle, history>>

Next ==
  \/ Loop
  \/ canTask
  \/ selfTestTask
  \/ Ticked
  \/ Tick

Spec == Init /\ [][Next]_vars

\* Every task keeps running and time passes.
FairSpec ==
  /\ Spec
  /\ WF_vars(Loop) /\ WF_vars(canTask) /\ WF_vars(selfTestTask) /\ WF_vars(Ticked) /\ WF_vars(Tick)

-----------------------------------------------------------------------------
(* Properties                                                              *)

(* The driver is never taken away under a task that is inside it, nor used *)
(* before it is back: the pause flag, the two idle flags and the bounded   *)
(* wait are enough (canPause).                                             *)
HandsOff == (rx = "receiving" \/ st = "ticking") => driver = "running"

(* With the ignition OFF a driver that is up neither acknowledges nor      *)
(* drives, once the drop that the OFF edge began has taken the driver:     *)
(* also for a mode confirmed after the edge, and for a recovery            *)
(* (twaiModeFor).                                                          *)
GateKept == ~on /\ up /\ at \notin {"ignition", "pause"} => ctl = "listen_only"

(* The same of any driver that runs, also one applyMode could not let go   *)
(* of (main.cpp: a shut gate means listen-only).                           *)
GateKeptByDriver ==
  ~on /\ driver = "running" /\ at \notin {"ignition", "pause"} => ctl = "listen_only"

(* With the ignition ON the board is in the mode last chosen, whatever was *)
(* dropped, restored, restarted or refused on the way (applyMode).         *)
ChoiceHolds == on /\ at \in Stage \ {"ignition"} => mode = choice

(* The restore is for a board nobody told otherwise (powerpolicy.h): no    *)
(* mode comes back over the one last asked for.                            *)
AskedIsFinal == [][call'.mode \in Transmitting /\ ~call'.persist /\ at = "ignition"
                     => call'.mode = asked]_vars

(* A stuck transmitter is brought back without a reboot (canrecov.h): a    *)
(* driver that failed to start once is started again.                      *)
DriverComesBack == []<>up

=============================================================================
