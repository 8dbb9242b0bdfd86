CONSTANTS
  None = None
  MaxUpgrades = 2
  MaxMeddles = 1
  MaxFaults = 2
SPECIFICATION Spec
PROPERTIES
  NeverAhead
  VersionsPublished
  ReadyTells
CHECK_DEADLOCK FALSE
