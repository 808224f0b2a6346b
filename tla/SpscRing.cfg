\* A ring asked for five slots and given four, its counters wrapping at 16.
SPECIFICATION RingSpec
CONSTANTS
  Size = 5
  Wrap = 16
  MaxRows = 40
  MaxRefusals = 1
PROPERTIES KeepsFifo
CHECK_DEADLOCK FALSE
