SPECIFICATION CommerceSpec
CONSTANTS
  Drafts <- MCDrafts
  AcceptanceExpiries = {2, 3}
  MaxAcceptances = 2
  MaxKey = 2
  MaxAgreementTime = 3

  Billable <- MCBillable
  Requested <- MCRequested
  Destinations <- MCDestinations
  Reports = {e1, e2}
  Resolutions = {r1}
  Versions = {1, 2}
  WordSize = 16
  MaxRecurrence = 3
  MaxScale = 2
  MaxRequests = 2
  MaxBillingTime = 3

  Obligated = {n1, n2, n3}

  Events <- MCEvents
  TimePins <- MCTimePins
  Lives = {0, 2}
  Members = {1, 2, 3, 4}
  OperationSkew = 1
  Word = 16
  MaxEnvelopes = 1
  MaxOperationKey = 2
  MaxOutcomeTime = 4

  Payloads <- MCPayloads
  WithdrawalLife = 2
  InlineLimit = 1
  IntentLives = {1, 3}
  MaxIntentLife = 3
  IntentSkew = 1
  Retrieval <- MCRetrieval
  Sites <- MCSites
  WantedDigest <- MCWanted
  Challenges <- MCChallenges
  Manifests <- MCManifests
  HandoffLife = 3
  RetentionLimit = 3
  MaxRevisions = 3
  MaxIssuerKey = 2
  MaxSealed = 2
  MaxOpened = 2
  MaxIntentTime = 4

  Owners = {"ann", "ben"}
  OrderCells <- MCOrderCells
  SchemaVersion = 1
  TradingKeys = {"ann", "ben"}
  LotPayout = 4
  PriceScale = 4
  MaxU64 = 15
  MarketMinimum = 1
  TradeClose = 1
  DepositAmounts = {5, 8}
  Quantities = {1, 2, 3}
  MaxDeposits = 3
  MaxNow = 1

  Kinds = {1, 2}
  SourceIDs <- MCSourceIDs
  ContentDigests <- MCContentDigests
  MaxEvidenceEntries = 3

  g1 = g1  g2 = g2  e1 = e1  q1 = q1  q2 = q2  x1 = x1  x2 = x2  w1 = w1  h1 = h1  h2 = h2
  None = None
  Gates = {g1, g2}
  Escrows = {e1}
  Quotes = {q1, q2}
  Executions = {x1, x2}
  Works = {w1}
  CodeHashes = {h1, h2}
  QuoteOf <- OneQuote
  RefundAvailableAt <- MCRefund
  ExecutionDeadline <- MCDeadline
  RegistryHash <- OldAndNewRegistry
  Committed <- AnyWork
  MaxCheckpoint = 2
  MaxTime = 2
  MaxCalls = 3
  Writeback = TRUE
CHECK_DEADLOCK FALSE
INVARIANTS AuthorizedByObligors LedgerBalances CycleFoundIfAny    Solvent OneCellPerManifest OneIntentPerPurchase GrantIsSound
PROPERTIES ClaimAdvances LedgerAdvances OrderHonoured
