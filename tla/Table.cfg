SPECIFICATION FairSpec
CONSTANTS
  r1 = r1
  r2 = r2
  t1 = t1
  public = public
  OperatorFinalizer = operatorFinalizer
  ForeignFinalizers = {}
  Owners = {user}
  Resources = {r1, r2}
  SpecsOf <- SharedSpecs
  TableNames = {t1}
  Schemas = {public}
  SchemaOf <- OneSchema
  ColumnName = {"id", "foo", "bar"}
  ColumnType = {"uuid", "text", "integer"}
  PgTypes = {"uuid", "text", "int4"}
  ColumnsByHand <- FooAndBar
  HasLog = TRUE
  MaxEdits = 3
  MaxFaults = 2
INVARIANTS
  TypeOK
  AlterInv
PROPERTIES
  AllColumnsOrNone
  TableConverges
  LockReleased
CHECK_DEADLOCK FALSE
