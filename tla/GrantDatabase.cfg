SPECIFICATION FairSpec
CONSTANTS
  r1 = r1
  r2 = r2
  app = app
  jobs = jobs
  ids = ids
  db = db
  OperatorFinalizer = operatorFinalizer
  ForeignFinalizers = {}
  Owners = {user}
  Resources = {r1}
  SpecsOf <- DatabaseSpecs
  Roles = {app}
  OtherWords = {"DUMMY"}
  Identifiers = {jobs, ids, db}
  KindOf <- Kinds
  Droppable = {}
  HasLog = TRUE
  MaxEdits = 1
  MaxFaults = 0
PROPERTIES
  TablesGranted
CHECK_DEADLOCK FALSE
