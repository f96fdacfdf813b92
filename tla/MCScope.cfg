CONSTANTS
    plugin = plugin
    child = child
    Scopes = {plugin, child}
    Root = plugin
    Parent <- MCParent
    Effects = {e1, e2}
    Tasks = {t1}
    MaxCancels = 2
SPECIFICATION FairSpec
CHECK_DEADLOCK FALSE
INVARIANTS
  ReverseOrder
  CloseIsHonest
PROPERTIES
  CloseTerminates
