CONSTANTS
  Operands = {"build", "integration", "image", "release", "lister", "bridge", "contract",
              "certs", "rbac", "api"}
  Platforms = {TRUE, FALSE}
  Specs <- MCSpecs
  Ingresses <- MCIngresses
  Absent = Absent
  MaxEvents <- MCEvents
SPECIFICATION FairSpec
INVARIANTS
  DefaultPipelineListed
PROPERTIES
  PassRestores
  CustomisedAsSpecified
  OperandConverges
  LeftoversRemoved
CHECK_DEADLOCK FALSE
