CONSTANTS
  Keys <- MCKeys
  Manifest <- MCManifest
  Optional <- MCOptional
  CRDs <- MCCRDs
  Namespaced <- MCNamespaced
  Kinds <- MCKinds
  kindOf <- MCkindOf
  CleanupKinds <- MCCleanupKinds
  Unserved <- MCUnserved
  AllowList <- MCAllowList
  Watched <- MCWatched
  Uids = {u1, u2}
  NoUid = NoUid
  Foreign = Foreign
  Absent = Absent
  Budgets <- MCBudgets
SPECIFICATION FairSpec
INVARIANTS
  TypeOK
  CleanupStartsComplete
  CleanupLeavesNoOrphan
PROPERTIES
  CRDsSurvive
  MandatoryStays
  KeepsPromise
  Converges
CHECK_DEADLOCK FALSE
