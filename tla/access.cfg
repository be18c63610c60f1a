SPECIFICATION Spec
CONSTANTS
  None = None
  NULL = NULL
  TextIn = {}
  Matches <- MCMatches
  Flattened <- MCFlattened
  Convertible <- MCConvertible
  SqlCondition <- MCSqlCondition
  MongoQuery <- MCMongoQuery
  User = {1, 2}
  g = g
  h = h
  garbled = garbled
  Group = {g, h}
  Key = {"k", "svc"}
  c1 = c1
  c2 = c2
  Client = {c1, c2}
  Grantable = {"in_g"}
  Policies <- MCPolicies
  RolePolicies <- MCRolePolicies
  DefaultPolicies = {}
  Resolvers = {"roles", "grants"}
  CacheTtl = 1
  Asks <- MCAsks
  Plans <- MCPlans
  Owners = {1, 2}
  Role = {"admin", "reader", "other"}
  Id = {1, 2, 3}
  Condition <- MCCondition
  PolicyFilter <- MCPolicyFilter
  PolicyAllows <- MCPolicyAllows
  OrFilter <- MCOrFilter
  AndFilter <- MCAndFilter
  EmptyFilter <- MCEmptyFilter
  InMemory <- MCInMemory
  InStatement <- MCInStatement
  InitialRows <- MCInitialRows
  InitialKeys <- MCInitialKeys
  InitialMembers <- MCInitialMembers
  InitialGrants <- MCInitialGrants
  MaxTime = 1
  MaxChanges = 1
  MaxInvalidations = 1
CHECK_DEADLOCK FALSE
INVARIANTS TypeOK ChangeHonouredUnlessOverlapped CredentialsCount
PROPERTY OnlyPermitted
