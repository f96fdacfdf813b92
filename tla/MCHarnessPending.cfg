CONSTANTS
    base = base
    provider = provider
    consumer = consumer
    Tasks = {t1, t2}
    Entries <- MCEntries
    Requires <- MCRequires
    ActivationOrder <- MCActivationOrder
    Preinstalled <- MCEntries
    MaxInstances = 8
    Changing <- MCEntries
    MaxChanges = 1
    MaxGenerations = 4
    CancelAt = {}
    MaxCancels = 0
SPECIFICATION Spec
SYMMETRY MCSymmetry
CHECK_DEADLOCK FALSE
INVARIANTS PendingChangesKnown
