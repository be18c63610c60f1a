SPECIFICATION Spec
CONSTANTS
  NULL = NULL
  None = None
  TextIn <- MCTextIn
  Matches <- MCMatches
  Flattened <- MCFlattened
  Convertible <- MCConvertible
  SqlCondition <- MCSqlCondition
  MongoQuery <- MCMongoQuery
  Height <- MCHeight
  RowFilter <- MCRowFilter
  ValueFilter <- MCValueFilter
  FieldKind <- MCFieldKind
  Ids = {1, 2, 3}
  Values = {NULL, 1, 2}
  Policies <- MCPolicies
  ClauseLists <- MCClauseLists
  SortOrders <- MCSortOrders
  Limits = {1, 2, 3}
  allow_filter_iteration = TRUE
  MaxSearchLimit = 2
  ViewChoices <- MCViewChoices
  MaxViews = 2
  MaxWrites = 1
  Tables <- MCTables
  MongoIdDescending = TRUE
INVARIANT WalkComplete
CHECK_DEADLOCK FALSE
