SPECIFICATION DealsSpec
CONSTANTS
  ServiceProfile <- MCServiceProfile
  QuoteRequests <- MCQuoteRequests
  QuoteTerms <- MCQuoteTerms
  Obligations <- MCObligations
  MaxObligations = 5
  InclusionMargin = 1
  MaxRequestLife = 4
  ClockSkew = 1
  MaxDealTime = 3

  Executions <- MCExecutions
  LeaseLife = 4
  MaxStartDelay = 2
  MaxAttempts = 3
  Skew = 1
  MaxLeases = 2
  MaxKeys = 2
  MaxReceipts = 3
  MaxAsked = 3
  MaxAuthTime = 2

  GuarantorProfile <- MCGuarantorProfile
  CoverageRequests <- MCCoverageRequests
  CoverageOffers <- MCCoverageOffers
  Reserved = {2, 3}
  OfferLives = {2}
  OfferGrace = 1
  RequestLife = 4
  ClockSkewed = 1
  Whole = 2
  GuarantorRoots = {"guarantor"}
  Controllers <- MCControllers
  ControlAge = 2
  DrawAmounts = {3}
  MaxTransitions = 3
  MaxActivations = 1
  MaxCoverTime = 4

  Wallets = {w1}
  Amounts = {1, 2}
  MaxAction = 2
  MaxCoins = 15
  MaxSequence = 3
  MaxPerTx = 2
  DailyLimit = 3
  DayLength = 2
  FeeReserve = 1
  Margin = 1
  TaskTimeout = 2
  MaxHistory = 2
  GiftEnd = 3
  NotYet = NotYet
  AskedUntil = {2}
  Deadlines = {2, 3}
  MaxOther = 1

  r1 = r1
  r2 = r2
  r3 = r3
  alice = alice
  bob = bob
  None = None
  Servers = {s1, s2}
  Requests = {r1, r2, r3}
  Actions = {x1, x2}
  Agents = {alice, bob}
  Requester <- MCRequester
  Amount <- MCAmount
  MaximumOutstandingAtomic = 2
  MaximumPerRequestAtomic = 2
  MaximumQuoteReservations = 2
  MaximumActiveExecutions = 2
  MaximumActivePerRequester = 1
  QuoteRequestWindowSeconds = 2
  MaximumQuoteRequestsPerWindow = 2
  MaximumQuoteRequestsPerRequesterWindow = 1
  QuoteLife = 2
  MaxDelay = 1
  MaxTime = 3
SYMMETRY Interchangeable
CHECK_DEADLOCK FALSE
INVARIANTS LiabilityIsQuoted StartsFollowReceipts   ExposureBounded
 
