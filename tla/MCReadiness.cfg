CONSTANTS
  Setups <- MCSetups
  Optional = {"imagecontroller"}
  NeedsCerts = {"ui", "imagecontroller"}
SPECIFICATION FairSpec
INVARIANTS
  TypeOK
  StatusConsistent
PROPERTIES
  ReadyConverges
  Quiesces
CHECK_DEADLOCK FALSE
