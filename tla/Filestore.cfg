\* Files, the NVS record and the index, with a power cut at every step and every fault but a .meta that does not open.
SPECIFICATION Spec
CONSTANTS
  MaxFiles = 2
  Budget = 2
  Room = 1
  MaxIndex = 2
  MaxBoots = 3
  Faulty = {"rename", "remove", "put"}
  MaxFaults = 1
  MillisWraps = TRUE
INVARIANTS IndexMatchesDisk IndexesUnique LossAccounted
PROPERTIES KeepsCustody
