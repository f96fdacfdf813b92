CONSTANTS
    base = base
    provider = provider
    consumer = consumer
    Tasks = {t1}
    Entries <- MCChainEntries
    Requires <- MCChainRequires
    ActivationOrder <- MCChainOrder
    Preinstalled <- MCChainEntries
    MaxInstances = 7
    Changing = {provider, consumer}
    MaxChanges = 1
    MaxGenerations = 4
    CancelAt = {"mounting", "mounted", "published", "unmount"}
    MaxCancels = 1
SPECIFICATION Spec
CHECK_DEADLOCK FALSE
INVARIANTS
  CancellationSafe
