CONSTANTS
    outer = outer
    inner = inner
    innermost = innermost
    toolKey = toolKey
    modelKey = modelKey
    NoLimit = NoLimit
    Governors <- MCGovernors
    Root = outer
    Parent <- MCParent
    Limit <- MCLimit
    WallLimit <- MCWallLimit
    Reports <- MCReports
    MaxNow = 1
    Keys <- MCKeys
    Modes = {"live", "record", "replay"}
    MaxLoaded = 2
    Calls <- MCCalls
    c1 = c1
    c2 = c2
    BudgetsOf <- MCBudgetsOf
    ModelKeys = {modelKey}
SPECIFICATION Spec
CHECK_DEADLOCK FALSE
INVARIANTS
  WithinLimits
  CallsAccounted
  RemainingIsGranted
  ReplayExact
  ReportsExact
