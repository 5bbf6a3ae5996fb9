SPECIFICATION Spec
CONSTANTS
  Servers = {s1, s2}
  Offers <- Combined
  Deployments <- AllServers
  Handles = {h1, h2}
  None = None
  MaxObservation = 2
  StartNotAfter = 1
  TopUpUntil = 3
  ExpiresAt = 3
  Margin = 1
  MaxTime = 3
  MaxRevision = 6
  MaxReorgs = 1
SYMMETRY Interchangeable
CHECK_DEADLOCK FALSE
INVARIANT OutcomeIsTrue
