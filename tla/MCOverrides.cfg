CONSTANTS
  Walk <- MCWalk
  Pristine <- MCPristine
  Base <- MCBase
  Digests <- MCDigests
  RepoOf <- MCRepoOf
  OrgRepo <- MCOrgRepo
  ToLower <- MCToLower
  LocalDirs = {"here"}
  SafeNames = {"bridge", "ui", "ghost"}
  Configs <- MCConfigs
  Absent = Absent
  MaxRuns = 4
SPECIFICATION Spec
INVARIANTS
  NoOriginalLeft
  SourcesFollowRules
  RerunHeals
  RebuildForgets
CHECK_DEADLOCK FALSE
