CONSTANTS
  None = None
  MaxUpgrades = 1
  MaxMeddles = 0
  MaxFaults = 0
SPECIFICATION Spec
PROPERTY
  ChangesReachInfo
CHECK_DEADLOCK FALSE
