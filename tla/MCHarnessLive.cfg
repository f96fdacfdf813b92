CONSTANTS
    base = base
    provider = provider
    consumer = consumer
    Tasks = {t1, t2}
    Entries <- MCSoleEntries
    Requires <- MCSoleRequires
    ActivationOrder <- MCSoleOrder
    Preinstalled <- MCSoleEntries
    MaxInstances = 7
    Changing <- MCSoleEntries
    MaxChanges = 2
    MaxGenerations = 4
    CancelAt = {}
    MaxCancels = 0
SPECIFICATION FairSpec
CHECK_DEADLOCK FALSE
PROPERTIES
  EveryCallReturns
  IdleGenerationsRetire
