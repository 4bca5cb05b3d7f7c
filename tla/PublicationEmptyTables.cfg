SPECIFICATION FairSpec
CONSTANTS
  r1 = r1
  r2 = r2
  x = x
  y = y
  t1 = t1
  t2 = t2
  insert = insert
  update = update
  user = user
  NoResource = NoResource
  Volatile = {}
  OperatorFinalizer = operatorFinalizer
  Resources = {r1}
  SpecsOf <- EmptyOrNot
  PublicationNames = {x}
  Owners = {user}
  Tables = {t1, t2}
  Operations = {insert, update}
  MaxEdits = 2
  MaxFaults = 0
  PreExisting = {}
  ByHand = {}
  ForeignFinalizers = {}
PROPERTIES
  ConvergesAsDocumented
CHECK_DEADLOCK FALSE
