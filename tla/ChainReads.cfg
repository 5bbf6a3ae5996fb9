SPECIFICATION ChainSpec
CONSTANTS
  Nobody = Nobody
  Readers = {p1, p2}
  Hosts = {h1, h2}
  Nodes = {n1, n2, n3}
  Faulty = {n1}
  ReadQuorum = 2
  MaxBlock = 3

  p1 = p1  p2 = p2  v1 = v1  o1 = o1  o2 = o2
  Resolvers = {p1, p2}
  Verifiers = {v1}
  Observers = {o1, o2}
  Domain <- MCDomain
  Quorum = 2
  MinimumObservers = 2
  MinimumOperatorDomains = 2
  MinimumConfirmationDepth = 3
  ReorgWindowSeconds = 1
  SourceSequence = 1
  TransactionValidUntil = 2
  CreatedAt = 1
  ExpiresAt = 2
  HistoryLimit = 2
  MaxHeight = 4
  MaxTime = 3
  MaxForks = 1
  Outcomes = {"failed", "wrong", "refused", "paid"}
  MaxTransactions = 2
  MaxAnswers = 1

  AgentIDs = {"a1", "a2"}
  Targets = {"a1", "c1"}
  CapabilityIDs = {"c1"}
  DerivedFrom <- MCDerivedFrom
  Policies <- MCPolicies
  Held = {"k1", "k2"}
  DelegationDigests = {"d1"}
  VersionNames = {"v1", "v2"}
  MaxControllers = 2
  MaxControllerWeight = 2
  MaxRecoveryTimelock = 2
  MaxDelegations = 1
  MaxVersions = 2
  RecoverySafety = 1
  MaxSlot = 3
  MaxSent = 2
  MaxRelayed = 4
  MaxObjectTime = 2
  NoObject = NoObject
SYMMETRY Interchangeable
CHECK_DEADLOCK FALSE
INVARIANT ServedIsTrue
PROPERTIES FenceMonotone AnswersStand ObjectsStaySound
