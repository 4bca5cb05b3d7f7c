SPECIFICATION FairSpec
CONSTANTS
  r1 = r1
  x = x
  t1 = t1
  t2 = t2
  insert = insert
  user = user
  NoResource = NoResource
  Volatile = {}
  NoOne = NoOne
  OperatorFinalizer = operatorFinalizer
  ForeignFinalizers = {}
  Resources = {r1}
  SpecsOf <- OneSpecs
  PublicationNames = {x}
  Tables = {t1, t2}
  Operations = {insert}
  PreExisting = {}
  ByHand = {x}
  Owners = {user}
  MaxEdits = 2
  MaxFaults = 1
INVARIANTS
  NoOrphan
  Inv
PROPERTIES
  Converges
  DropEventually
  ImplementsLifecycle
CHECK_DEADLOCK FALSE
