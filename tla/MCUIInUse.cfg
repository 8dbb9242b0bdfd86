CONSTANTS
  Starts <- MCStarts
  Specs <- MCSpecs
  Bridges <- MCBridges
  Keys <- MCKeys
  Clients = {c1, c2}
  Absent = Absent
  MaxEvents = 2
SPECIFICATION Spec
INVARIANT
  CleanupSparesUsed
CHECK_DEADLOCK FALSE
