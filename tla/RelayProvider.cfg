SPECIFICATION ExchangeSpec
CONSTANTS
  Servers = {s1, s2}
  Offers <- MCOffers
  Deployments <- SomeServers
  Handles = {h1, h2}
  None = None
  MaxObservation = 2
  StartNotAfter = 1
  TopUpUntil = 3
  ExpiresAt = 4
  Margin = 1
  MaxTime = 4
  MaxRevision = 5
  MaxReorgs = 1

  Handlers = {s1, s2}
  Nonces = {n1}
  Payloads = {p1, p2}
  PacketTTL = 1
  CardLifetime = 2
  MaxPacketTime = 2
  MaxPolicy = 2
  MaxAccepted = 2
  MaxSigned = 1
SYMMETRY Interchangeable
CHECK_DEADLOCK FALSE
INVARIANTS EffectsAccounted Restorable ConclusionIsTrue PacketsAreAccountable
