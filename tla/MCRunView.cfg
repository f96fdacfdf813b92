CONSTANTS
  r1 = r1
  r2 = r2
  a = a
  next = next
  b = b
  strict = strict
  loose = loose
  sys = sys
  model = model
  naming = naming
  sharing = sharing
  system = system
  chains = chains
  graphs = graphs
  Families = {naming, sharing, system, chains, graphs}
  Instances = {a, next, b}
  Policies = {strict, loose}
  Settings <- MCSettings
  Place <- MCPlace
  Lineage <- MCLineage
  ToolView <- MCToolView
  CapView <- MCCapView
  System = sys
  BuildCaps = {model}
  Runs = {r1, r2}
  MaxEntries = 2
SYMMETRY MCSymmetry
SPECIFICATION Spec
CHECK_DEADLOCK FALSE
INVARIANTS
  RegistriesConsistent
  ServedAsPublished
  NarrowedFailClosed
  HooksInOrder
  GraphsFit
