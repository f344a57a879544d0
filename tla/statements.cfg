SPECIFICATION StatementSpec
CONSTANTS
  NULL = NULL
  Sources <- AllSources
  Statements <- AllStatements
  Blob = Blob
  Real = Real
  Date = Date
  Shown <- AllShown
  BoundTexts <- AllBoundTexts
  NoNumbers = {Date}
  Domain <- AllPoints
  MinValue <- LeastValue
  MaxValue = 3
  Infinite = Infinite
  None = None
  Characters <- AllCharacters
  WrittenArrays <- AllArrays
  Args <- AllArgs
  MaxElems = 3
  Coordinates <- AllCoordinates
  Axis <- AllOfAnAxis
  Words <- AllWords
  StopWords = {"the"}
  Stem <- AllStems
  Short = {}
  Documents <- AllDocuments
  Queries <- AllQueries
  Depth <- AllDepths
  Trees <- AllTrees
  Operands <- AllOperands
  SelectTables <- AllSelectTables
  SelectQueries <- AllSelectQueries
  SetTrees <- AllSetTrees
  JoinTrees <- AllJoinTrees
  RecursiveQueries <- AllRecursive
  Targets <- AllTargets
  Height <- AllHeights
  MaxRecursionDepth = 3
  WriteTables <- AllWriteTables
  Inserts <- AllInserts
  Updates <- AllUpdates
  MaxCompound = 2
  TableNames = {"t", "u"}
  Indexes = {"i"}
  Refs <- AllRefs
  Definitions <- AllDefinitions
  Users = {"postgres", "alice"}
  Nobody = "nobody"
  MaxStatements = 3
  RoleNames = {"postgres", "alice", "bob"}
  Relations = {"t", "u"}
  Privileges = {"SELECT", "INSERT"}
  Grants <- AllGrants
  MaxOid = 13
INVARIANTS
  CsvComesBack TextComesBack BinaryComesBack
  RangeKnowsItsPoints
  ArraysReadBack
  BoxesAnswerAsPoints
  TsmatchFindsDocuments
  ExpressionsReadBack OperatorsReachTheirType
  SelectsAnswer
  WritesDoWhatTheySay
  CatalogTellsColumns AttributesAreColumns
  GrantsAreTheRolesOwn
CHECK_DEADLOCK FALSE
