SPECIFICATION Spec
CONSTANTS
  c1 = c1
  c2 = c2
  users = users
  items = items
  good = good
  other = other
  bad = bad
  Clients <- TwoClients
  Tables <- TwoTables
  Lines <- AllLines
  Bad <- BadLines
  Overlap = FALSE
  MaxLines = 3
  MaxRows = 2
INVARIANT TypeOK
PROPERTIES EachCopyIsItsClients FailedBlockStoresNothing
