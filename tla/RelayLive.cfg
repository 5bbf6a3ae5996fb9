SPECIFICATION LiveSpec
CONSTANTS
  Servers = {s1}
  Offers <- Relayed
  Deployments <- AllServers
  Handles = {h1, h2}
  None = None
  MaxObservation = 1
  StartNotAfter = 1
  TopUpUntil = 2
  ExpiresAt = 3
  Margin = 1
  MaxTime = 3
  MaxRevision = 6
  MaxReorgs = 1

CHECK_DEADLOCK FALSE
PROPERTY Concludes
