SPECIFICATION CredsSpec
CONSTANTS
  Order <- MCOrder
  Owners <- MCOwners
  Legacy <- MCLegacy
  MaxLen <- MCMaxLen
  PassMin = 2
  Psk = 4
  LineMax = 8
  Capacity = 26
  Entry = 2
  Reserve = 6
  MaxFails = 1
  MaxCommits = 2
INVARIANTS LoadsLast NoStrayKeys BuffersInUse
