CONSTANTS
  good = good
  other = other
  x = x
  y = y
  z = z
  Bad = Bad
  NoConfig = NoConfig
  Catalog <- MCCatalog
  Manifest <- MCManifest
  Configs <- MCConfigs
  UserEntries <- MCUserEntries
  Selections <- MCSelections
  Flaky = {"base"}
  MaxCalls = 3
  MaxReconciles = 3
SPECIFICATION Spec
CHECK_DEADLOCK FALSE
INVARIANTS
  TypeOK
  BoundToMembers
PROPERTIES
  PreviewMatches
  RebuildsAsNeeded
  ReportsAgree
