SPECIFICATION RetrySpec
CONSTANTS
  b1 = b1  b2 = b2  k1 = k1  k2 = k2   q1 = q1  q2 = q2 
  None = None
  Buyers = {b1, b2}
  Keys = {k1}
  Purchases = {q1}
  Asset <- OneAsset
  Amount <- OneAmount
  Deadline = 9
  Window = 1
  MaxPurchases = 1
  MaxTotal = 2
  MaxTime = 1
PROPERTIES PreparedRecovers
CHECK_DEADLOCK FALSE
