CONSTANTS
  good = good
  other = other
  x = x
  y = y
  z = z
  Bad = Bad
  NoConfig = NoConfig
  Catalog <- MCCatalog
  Manifest <- MCManifest
  Configs <- MCDeclaredConfigs
  UserEntries = {}
  Selections = {}
  Flaky = {}
  MaxCalls = 2
  MaxReconciles = 4
SPECIFICATION Spec
CHECK_DEADLOCK FALSE
INVARIANT
  RepeatedReconciliationIsANoOp
