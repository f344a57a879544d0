SPECIFICATION Spec
CONSTANTS
  c1 = c1
  c2 = c2
  a = a
  b = b
  r1 = r1
  r2 = r2
  postgres = postgres
  alice = alice
  public = public
  inventory = inventory
  Free = Free
  Clients <- OneClient
  Names = {a, b}
  Rows = {r1, r2}
  Roles = {postgres, alice}
  Paths = {public, inventory}
  Statements = {"BEGIN", "COMMIT", "ROLLBACK", "SAVEPOINT", "ROLLBACK TO", "RELEASE", "WRITE", "DROP FUNCTION", "SET ROLE", "SET SEARCH_PATH"}
  Env = {"crash"}
  MaxSavepoints = 2
INVARIANTS AckedRowsAreDurable
PROPERTIES IsPgTransaction OnlySetChangesSettings
