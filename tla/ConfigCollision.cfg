SPECIFICATION FairSpec
CONSTANTS
  c1 = c1
  ra = ra
  rb = rb
  a = a
  b = b
  one = one
  two = two
  NoConfig = NoConfig
  OperatorFinalizer = operatorFinalizer
  ForeignFinalizers = {}
  Configs = {c1}
  Names = {a, b}
  Owners <- MCOwners
  Resources = {ra}
  SpecsOf <- CollidingSpecs
  Desired <- CollidingDesired
  ResourceName <- CollidingNames
  MaxConfigEdits = 2
  MaxFaults = 0
  MaxStale = 4
  MaxTogether = 0
  MaxLag = 0
PROPERTIES
  RenameCompletes
CHECK_DEADLOCK FALSE
