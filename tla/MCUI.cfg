CONSTANTS
  Starts <- MCStarts
  Specs <- MCSpecs
  Bridges <- MCBridges
  Keys <- MCKeys
  Clients = {c1, c2}
  Absent = Absent
  MaxEvents = 2
SPECIFICATION FairSpec
INVARIANTS
  TypeOK
  MountedSegmentExists
  LoginAgrees
PROPERTIES
  ClientSecretKept
  UIConverges
CHECK_DEADLOCK FALSE
