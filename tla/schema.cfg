SPECIFICATION Spec
CONSTANTS
  s1 = s1
  s2 = s2
  s3 = s3
  t1 = t1
  t2 = t2
  Schemas <- ThreeSchemas
  Tables <- TwoTables
  Limit = 2
  Env <- Ordinary
INVARIANTS TypeOK ManagerKnowsAttached SchemasUsable
PROPERTY ImplementsPgSchema
