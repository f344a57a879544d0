SPECIFICATION Spec
CONSTANTS
  c1 = c1
  c2 = c2
  a = a
  b = b
  r1 = r1
  r2 = r2
  postgres = postgres
  alice = alice
  public = public
  inventory = inventory
  Free = Free
  Clients <- TwoClients
  Names = {a, b}
  Rows = {r1, r2}
  Roles = {postgres}
  Paths = {public}
  Statements <- BlockStatements
  Env <- SerialEnv
  MaxSavepoints = 2
INVARIANTS TypeOK StatusMirrorsSqlite SavepointsMirrorSqlite
