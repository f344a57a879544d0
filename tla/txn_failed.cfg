SPECIFICATION Spec
CONSTANTS
  c1 = c1
  c2 = c2
  a = a
  b = b
  r1 = r1
  r2 = r2
  postgres = postgres
  alice = alice
  public = public
  inventory = inventory
  Free = Free
  Clients <- OneClient
  Names = {a}
  Rows = {r1, r2}
  Roles = {postgres}
  Paths = {public}
  Statements = {"BEGIN", "COMMIT", "WRITE"}
  Env = {"commit_when_failed"}
  MaxSavepoints = 1
PROPERTY FailedBlockCommitsNothing
