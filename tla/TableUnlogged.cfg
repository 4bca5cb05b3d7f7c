SPECIFICATION FairSpec
CONSTANTS
  r1 = r1
  r2 = r2
  t1 = t1
  public = public
  OperatorFinalizer = operatorFinalizer
  ForeignFinalizers = {}
  Owners = {user}
  Resources = {r1}
  SpecsOf <- OneSpecs
  TableNames = {t1}
  Schemas = {public}
  SchemaOf <- OneSchema
  ColumnName = {"id", "foo", "bar"}
  ColumnType = {"uuid", "text", "integer"}
  PgTypes = {"uuid", "text", "int4"}
  ColumnsByHand <- None
  HasLog = FALSE
  MaxEdits = 1
  MaxFaults = 0
PROPERTIES
  TableConverges
CHECK_DEADLOCK FALSE
