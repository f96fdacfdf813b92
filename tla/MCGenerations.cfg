CONSTANTS
    MaxGenerations = 3
    MaxLeases = 2
    HistoryLimit = 1
SPECIFICATION Spec
INVARIANTS
  TypeOK
  HeldStaysLive
  BookkeepingExact
PROPERTIES
  ImplementsContract
