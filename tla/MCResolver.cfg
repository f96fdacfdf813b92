CONSTANTS
  x = x
  y = y
  Root = Root
  a = a
  ab = ab
  b = b
  flat = flat
  scoped = scoped
  ranges = ranges
  broken = broken
  Families = {flat, scoped, ranges, broken}
  Nodes <- MCNodes
  Scopes <- MCScopes
  ParentOf <- MCParentOf
  Caps = {x, y}
  Inputs <- MCInputs
SPECIFICATION Spec
CHECK_DEADLOCK FALSE
INVARIANTS
  ComponentsExact
  PlanClosed
  GreatestPlan
  SelectionSound
  TreeServesThePlan
