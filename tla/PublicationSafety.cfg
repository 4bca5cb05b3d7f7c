SPECIFICATION Spec
CONSTANTS
  r1 = r1
  r2 = r2
  x = x
  y = y
  t1 = t1
  t2 = t2
  insert = insert
  update = update
  user = user
  NoResource = NoResource
  Volatile = {t1}
  OperatorFinalizer = operatorFinalizer
  Resources = {r1, r2}
  SpecsOf <- SharedSpecs
  PublicationNames = {x}
  Owners = {user}
  Tables = {t1, t2}
  Operations = {insert, update}
  MaxEdits = 3
  MaxFaults = 1
  PreExisting <- Found
  ByHand = {x}
  ForeignFinalizers = {foreground}
INVARIANTS
  TypeOK
  GuardedCreate
  NoOrphan
  Inv
PROPERTIES
  SuccessMeansApplied
  WorkerKeepsOthersWrites
CHECK_DEADLOCK FALSE
