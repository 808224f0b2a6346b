\* Mode changes from every stage, ignition edges, failing driver calls, three tasks.
SPECIFICATION Spec
CONSTANTS
  AwayTicks = 1
  PauseTicks = 3
  MaxDriverFails = 2
INVARIANTS HandsOff GateKept ChoiceHolds
