SPECIFICATION BoundedSpec
CONSTANTS
  c1 = c1
  ra = ra
  rb = rb
  a = a
  b = b
  one = one
  two = two
  NoConfig = NoConfig
  OperatorFinalizer = operatorFinalizer
  ForeignFinalizers = {}
  Configs = {c1}
  Names = {a, b}
  Owners <- MCOwners
  Resources = {ra, rb}
  SpecsOf <- DistinctSpecs
  Desired <- DistinctDesired
  ResourceName <- DistinctNames
  MaxConfigEdits = 3
  MaxFaults = 1
  MaxStale = 1
  MaxTogether = 3
  MaxLag = 3
INVARIANTS
  TypeOK
  Inv
PROPERTIES
  UpdatesOwnChildrenOnly
  ConfigConverges
  ChildrenCollected
CHECK_DEADLOCK FALSE
