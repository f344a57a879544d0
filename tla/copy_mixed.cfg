SPECIFICATION Spec
CONSTANTS
  c1 = c1
  c2 = c2
  users = users
  items = items
  good = good
  other = other
  bad = bad
  Clients <- TwoClients
  Tables <- TwoTables
  Lines <- AllLines
  Bad <- BadLines
  Overlap = TRUE
  MaxLines = 2
  MaxRows = 1
PROPERTY EachCopyIsItsClients
