CONSTANTS
  good = good
  other = other
  wide = wide
  narrow = narrow
  x = x
  Bad = Bad
  Direct = Direct
  NoConfig = NoConfig
  Catalog <- MCCatalog
  Documents <- MCDocuments
  Specs <- MCSpecs
  Agents <- MCAgents
  Runtimes <- MCRuntimes
  UserEntries <- MCUserEntries
  UserScopes <- MCUserScopes
  Provisions = {x}
  Runs = {r1}
  MaxCalls = 3
SPECIFICATION Spec
CHECK_DEADLOCK FALSE
INVARIANTS
  DesiredStateSound
  RunsKeepTheirRevision
PROPERTIES
  FailureRestores
  ConfigurationConverges
  AgentsKeepToTheirOwn
