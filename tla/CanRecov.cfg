\* Faults of the bus at any moment, late steps, a mode change and a failed restart at any moment.
SPECIFICATION FairRecovSpec
CONSTANTS
  PassiveFor = 3
  RecoverTimeout = 3
  BackoffMin = 1
  BackoffMax = 6
  Stable = 8
  MaxLate = 2
  Half = 8
  MaxFaults = 3
  MaxModes = 1
  MaxFails = 1
PROPERTIES RecoversSpaced ComesBack
