------------------------------- MODULE CanRecov -------------------------------
(***************************************************************************)
(* Bringing a stuck CAN controller back (canrecov.h), stepped by loop()    *)
(* about once a second (main.cpp, canRecoveryTick).                        *)
(*                                                                         *)
(* A step is `late' ticks after the one before.  A timestamp is its age,   *)
(* capped at Stable; nextAllowedMs is the signed 32-bit difference the     *)
(* code takes, which wraps.                                                *)
(***************************************************************************)
EXTENDS Integers

CONSTANTS
  PassiveFor, RecoverTimeout,        \* CANRECOV_PASSIVE_MS, CANRECOV_RECOVER_TIMEOUT_MS
  BackoffMin, BackoffMax, Stable,    \* CANRECOV_BACKOFF_MIN_MS, _MAX_MS, CANRECOV_STABLE_MS
  MaxLate,                           \* bound: ticks between two steps
  Half,                              \* 2^31 ms, in ticks
  MaxFaults,                         \* bound: faults of the bus
  MaxModes,                          \* bound: mode changes by a person or the hub
  MaxFails                           \* bound: restarts that leave no driver running

ASSUME CanRecovAssumption ==
  /\ {PassiveFor, RecoverTimeout, BackoffMin, BackoffMax, Stable, MaxLate} \subseteq Nat \ {0}
  /\ {Half, MaxFaults, MaxModes, MaxFails} \subseteq Nat
  /\ BackoffMax < Half /\ MaxLate < Half
  /\ BackoffMin <= BackoffMax /\ RecoverTimeout < Stable /\ PassiveFor < Stable

VARIABLES
  bus,                 \* twai_state_t; "none": g_twaiUp is FALSE
  tx,                  \* "ok"; "passive": tec >= 128 or transmits fail; "stuck": both
  recovering, recoverAge,
  failing, failingAge, healthyAge,
  backoff, wait,       \* backoffMs; nextAllowedMs - now
  act, late,           \* what this transition returned; ticks since the step before
  stuckAge,            \* history: ticks every step has seen transmits fail
  owed,                \* history: ticks left of the wait the last RECOVER announced
  faults, modeChanges, badStarts

recov == <<recovering, recoverAge, failing, failingAge, healthyAge, backoff, wait>>
sinceAct == <<stuckAge, owed>>
recovVars ==
  <<bus, tx, recovering, recoverAge, failing, failingAge, healthyAge, backoff, wait, act, late,
    stuckAge, owed, faults, modeChanges, badStarts>>

Age == 0 .. Stable
Aged(a, d) == IF a + d > Stable THEN Stable ELSE a + d
Left(d) == IF wait - d > -Half THEN wait - d ELSE wait - d + 2 * Half
MayAct(d) == Left(d) <= 0
Up == bus # "none"                                \* g_twaiUp
RunsWell == bus = "running" /\ tx = "ok"

RecovTypeOK ==
  /\ bus \in {"stopped", "running", "bus_off", "recovering", "none"}
  /\ tx \in {"ok", "passive", "stuck"}
  /\ recovering \in BOOLEAN /\ recoverAge \in Age
  /\ failing \in BOOLEAN /\ failingAge \in Age /\ healthyAge \in Age
  /\ backoff \in BackoffMin .. BackoffMax /\ wait \in 1 - Half .. Half
  /\ act \in {"none", "recover", "restart"}
  /\ late \in 1 .. MaxLate
  /\ stuckAge \in Age /\ owed \in 0 .. BackoffMax
  /\ faults \in 0 .. MaxFaults /\ modeChanges \in 0 .. MaxModes /\ badStarts \in 0 .. MaxFails
  /\ ~(recovering /\ failing) /\ (bus # "running" => tx = "ok")
  /\ (bus \in {"stopped", "recovering"} => recovering)

RecovInit ==
  /\ bus = "running" /\ tx = "ok"
  /\ recovering = FALSE /\ recoverAge = 0 /\ failing = FALSE /\ failingAge = 0
  /\ healthyAge = 0 /\ backoff = BackoffMin /\ wait = 0 /\ act = "none"
  /\ late = 1 /\ stuckAge = 0 /\ owed = 0
  /\ faults = 0 /\ modeChanges = 0 /\ badStarts = 0

-----------------------------------------------------------------------------
(* canRecovStep                                                            *)

Ages(d) ==
  /\ late' = d
  /\ stuckAge' = IF tx = "stuck" /\ act' = "none" THEN Aged(stuckAge, d) ELSE 0
  /\ owed' = IF act' = "recover" THEN backoff ELSE IF owed > d THEN owed - d ELSE 0

Doubled == IF backoff >= BackoffMax \div 2 THEN BackoffMax ELSE 2 * backoff

\* Mutant: the restart that ends a recovery opens the way for the next.
canRecovAct_RestartIsFree(a) ==
  /\ act' = a /\ wait' = (IF a = "restart" THEN 0 ELSE backoff) /\ backoff' = Doubled
  /\ failing' = FALSE /\ recovering' = (a = "recover")
  /\ UNCHANGED failingAge

canRecovAct(a) ==
  /\ act' = a /\ wait' = backoff /\ backoff' = Doubled
  /\ failing' = FALSE /\ recovering' = (a = "recover")
  /\ UNCHANGED failingAge

\* RECOVER: twai_initiate_recovery(), which may be refused.
StartRecovery(d) ==
  /\ canRecovAct("recover") /\ recoverAge' = 0
  /\ bus' \in {"recovering", bus} /\ tx' = "ok" /\ UNCHANGED badStarts

\* applyMode() reinstalls the driver, unless it was not let go of or does not
\* start: then there is none, and g_twaiUp says so.
Reinstall ==
  /\ tx' = "ok"
  /\ \/ bus' = "running" /\ UNCHANGED badStarts
     \/ bus' = "none" /\ badStarts < MaxFails /\ badStarts' = badStarts + 1

\* RESTART: applyMode() with the current mode.
RestartDriver(d) ==
  /\ canRecovAct("restart") /\ recoverAge' = Aged(recoverAge, d)
  /\ Reinstall

NoAction(d) ==
  /\ act' = "none" /\ wait' = Left(d) /\ recoverAge' = Aged(recoverAge, d)
  /\ UNCHANGED <<bus, tx, recovering, badStarts>>

\* With no driver up loop() does not step the recovery: only time passes.
Down(d) ==
  /\ ~Up
  /\ NoAction(d)
  /\ failingAge' = Aged(failingAge, d) /\ healthyAge' = Aged(healthyAge, d)
  /\ UNCHANGED <<failing, backoff>>

\* Mutant: a bus that never goes recessive is waited for.
RecoveryOver_OnlyWhenStopped(d) == bus = "stopped"

\* The controller stopped, or was given its time, whatever its state now.
RecoveryOver(d) == bus = "stopped" \/ Aged(recoverAge, d) >= RecoverTimeout

Recovering(d) ==
  /\ Up /\ recovering
  /\ healthyAge' = Aged(healthyAge, d)
  /\ \/ RecoveryOver(d) /\ RestartDriver(d)
     \/ ~RecoveryOver(d) /\ NoAction(d) /\ UNCHANGED <<failing, failingAge, backoff>>

BusOff(d) ==
  /\ ~recovering /\ bus = "bus_off"
  /\ healthyAge' = 0
  /\ \/ MayAct(d) /\ StartRecovery(d)
     \/ ~MayAct(d) /\ NoAction(d)
        /\ failingAge' = Aged(failingAge, d) /\ UNCHANGED <<failing, backoff>>

FailingFor(d) == IF failing THEN Aged(failingAge, d) ELSE 0

Failing(d) ==
  /\ ~recovering /\ bus = "running" /\ tx = "stuck"
  /\ healthyAge' = 0
  /\ IF FailingFor(d) >= PassiveFor /\ MayAct(d)
       THEN RestartDriver(d)
       ELSE NoAction(d) /\ failing' = TRUE /\ failingAge' = FailingFor(d) /\ UNCHANGED backoff

HealthyFor(d) == IF RunsWell THEN Aged(healthyAge, d) ELSE 0

Healthy(d) ==
  /\ Up /\ ~recovering /\ bus # "bus_off" /\ ~(bus = "running" /\ tx = "stuck")
  /\ NoAction(d)
  /\ failing' = FALSE /\ UNCHANGED failingAge
  /\ healthyAge' = HealthyFor(d)
  /\ backoff' = IF RunsWell /\ HealthyFor(d) >= Stable THEN BackoffMin ELSE backoff

canRecovStep ==
  /\ \E d \in 1 .. MaxLate :
       /\ Recovering(d) \/ BusOff(d) \/ Failing(d) \/ Healthy(d) \/ Down(d)
       /\ Ages(d)
  /\ UNCHANGED <<faults, modeChanges>>

-----------------------------------------------------------------------------
(* The controller, the bus and the rest of main.cpp                        *)

Elsewhere == act' = "none" /\ UNCHANGED <<recov, late, sinceAct>>
Kept == UNCHANGED <<modeChanges, badStarts>>

Fault == bus = "running" /\ faults < MaxFaults /\ faults' = faults + 1

\* Errors take the controller off the bus.
GoesBusOff ==
  /\ Elsewhere /\ Fault
  /\ bus' = "bus_off" /\ tx' = "ok" /\ Kept

\* Error-passive; its transmits fail, or nothing is being sent.
GoesPassive ==
  /\ Elsewhere /\ Fault
  /\ tx' \in {"passive", "stuck"} /\ tx' # tx /\ UNCHANGED bus /\ Kept

\* The error counter falls again.
Clears ==
  /\ Elsewhere
  /\ tx # "ok" /\ tx' = "ok" /\ UNCHANGED <<bus, faults>> /\ Kept

\* 128 x 11 recessive bits were seen.
Recessive ==
  /\ Elsewhere
  /\ bus = "recovering" /\ bus' = "stopped" /\ UNCHANGED <<tx, faults>> /\ Kept

\* Someone changes the mode, with or without a driver; CanRecov is not told.
ModeChange ==
  /\ Elsewhere
  /\ modeChanges < MaxModes /\ modeChanges' = modeChanges + 1
  /\ Reinstall /\ UNCHANGED faults

RecovNext ==
  \/ canRecovStep
  \/ GoesBusOff
  \/ GoesPassive
  \/ Clears
  \/ Recessive
  \/ ModeChange

RecovSpec == RecovInit /\ [][RecovNext]_recovVars

\* loop() keeps stepping; the bus itself is trusted with nothing.
FairRecovSpec == RecovSpec /\ WF_recovVars(canRecovStep)

-----------------------------------------------------------------------------
(* Properties                                                              *)

(* A broken bus is not hammered: a RECOVER comes no sooner than the one    *)
(* before announced, though the RESTART in between writes the same timer   *)
(* and a long healthy run may have reset the backoff.                      *)
RecoversSpaced == [][act' = "recover" => owed <= late']_recovVars

(* A driver that is reinstalled was off the bus, or its transmits have     *)
(* failed without a break for the whole window: never one that runs        *)
(* (canrecov.h names the states that call for a restart).                  *)
OnlyStuckRestarts ==
  [][act' = "restart" => bus # "running" \/ stuckAge + late' >= PassiveFor]_recovVars

Transmits == bus = "running" /\ tx # "stuck"

(* Once the faults end the transmitter is back, without a reboot, even if  *)
(* the bus never goes recessive, a recovery is refused, or a restart fails *)
(* in between, if only a driver is up in the end (canRecovStep).           *)
ComesBack == <>[]Up => <>[]Transmits

(* The same whatever applyMode does (canrecov.h: a stuck transmitter is    *)
(* brought back without a reboot).                                         *)
AlwaysComesBack == <>[]Transmits

(* An action is put off by the backoff and no more (canrecov.h).           *)
BackoffBoundsWait == wait <= BackoffMax
=============================================================================
