SPECIFICATION FairSpec
CONSTANTS
  r1 = r1
  r2 = r2
  app = app
  jobs = jobs
  ids = ids
  db = db
  OperatorFinalizer = operatorFinalizer
  ForeignFinalizers = {}
  Owners = {user}
  Resources = {r1, r2}
  SpecsOf <- MixedSpecs
  Roles = {app}
  OtherWords = {"DUMMY"}
  Identifiers = {jobs, ids, db}
  KindOf <- Kinds
  Droppable = {jobs}
  HasLog = TRUE
  MaxEdits = 3
  MaxFaults = 1
INVARIANTS
  TypeOK
  OnlyWellFormed
  GrantInv
PROPERTIES
  GrantedAsAsked
  SuccessMeansGranted
  GrantConverges
CHECK_DEADLOCK FALSE
