SPECIFICATION FairSpec
CONSTANTS
  c1 = c1
  ra = ra
  a = a
  t1 = t1
  t2 = t2
  insert = insert
  NoResource = NoResource
  Volatile = {}
  NoConfig = NoConfig
  OperatorFinalizer = operatorFinalizer
  ForeignFinalizers = {}
  Resources = {ra}
  SpecsOf <- OneSpecs
  PublicationNames = {a}
  Tables = {t1, t2}
  Operations = {insert}
  PreExisting = {}
  ByHand = {}
  Owners <- MCOwners
  Configs = {c1}
  Names = {a}
  Desired <- OneDesired
  ResourceName <- OneNames
  UserObjects = {ra}
  MaxConfigEdits = 3
  MaxEdits = 1
  MaxFaults = 1
  MaxStale = 1
  MaxTogether = 3
INVARIANTS
  TypeOK
  Inv
  NoOrphan
PROPERTIES
  UpdatesOwnChildrenOnly
  PublishedAsListed
  UnpublishedWithConfig
  ImplementsLifecycle
CHECK_DEADLOCK FALSE
