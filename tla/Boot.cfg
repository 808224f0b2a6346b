\* Two firmwares, four resets at any write, two requests of the hub, one write of NVS that fails.
SPECIFICATION Spec
CONSTANTS
  Builds = {b1, b2}
  Limit = 2
  MaxResets = 4
  MaxRequests = 2
  MaxFaults = 1
INVARIANTS SafeModeEarned NoThirdStart AckSparesNewer DumpsAccounted
