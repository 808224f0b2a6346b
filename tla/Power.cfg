\* Either policy: one reset and one failed pin write anywhere, a fair loop.
SPECIFICATION FairSpec
CONSTANTS
  Policies = {"ignition", "bus-quiet"}
  OnDebounce = 1
  OffDebounce = 2
  OffSleep = 1
  BusWake = 4
  Resleep = 5
  IdleClose = 2
  MaxAwake = 6
  Horizon = 8
  MaxPass = 1
  MaxSetup = 3
  MaxResets = 1
  MaxPinFails = 1
INVARIANTS SleepsInTime SafeStaysSafe
PROPERTIES NoFalseOff WakeWindowKept SleepsWhenOff RecordsWhenOn NoFalseIdleClose
