SPECIFICATION PurchaseSpec
CONSTANTS
  b1 = b1  b2 = b2  k1 = k1  k2 = k2   q1 = q1  q2 = q2 
  None = None
  Buyers = {b1, b2}
  Keys = {k1, k2}
  Purchases = {q1, q2}
  Asset <- MCAsset
  Amount <- MCAmount
  Deadline = 2
  Window = 1
  MaxPurchases = 2
  MaxTotal = 2
  MaxTime = 3

  Drafts = {}
  AcceptanceExpiries = {}
  MaxAcceptances = 0
  MaxKey = 1
  MaxAgreementTime = 0

  Packages <- MCPackages
  PublicTerms <- MCPublicTerms
  Buyer <- MCBuyer
  Workers = {b1, b2}
  ActionTTL = 1
  OfferExpiries = {2}
  MaxOffers = 1
  MaxProviderKey = 2
  MaxClock = 5
  MaxChain = 5
SYMMETRY Interchangeable
CHECK_DEADLOCK FALSE
INVARIANTS SuccessIsFunded BudgetRespected PurchaseAsAgreed
PROPERTY ImplementsPayOnce
