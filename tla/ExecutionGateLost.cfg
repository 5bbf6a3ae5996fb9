SPECIFICATION Spec
CONSTANTS
  g1 = g1  g2 = g2  e1 = e1  q1 = q1  q2 = q2  x1 = x1  x2 = x2  w1 = w1  h1 = h1  h2 = h2
  None = None
  Gates = {g1, g2}
  Escrows = {e1}
  Quotes = {q1}
  Executions = {x1, x2}
  Works = {w1}
  CodeHashes = {h1}
  QuoteOf <- OneQuote
  RefundAvailableAt <- MCRefund
  ExecutionDeadline <- MCDeadline
  RegistryHash <- SameRegistry
  Committed <- AnyWork
  MaxCheckpoint = 2
  MaxTime = 0
  MaxCalls = 4
  Writeback = FALSE
INVARIANT OneIntentPerPurchase
SYMMETRY Interchangeable
CHECK_DEADLOCK FALSE
