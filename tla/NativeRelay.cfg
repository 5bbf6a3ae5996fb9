SPECIFICATION NativeSpec
CONSTANTS
  a1 = a1  a2 = a2  b = b
  s1 = s1  s2 = s2  t1 = t1
  None = None
  Relayers = {r1, r2}
  Keys = {k1, k2}
  Actions = {a1, a2, b}
  Slots = {s1, s2}
  Targets = {t1}
  SlotOf <- MCSlotOf
  TargetOf <- MCTargetOf
  Pred <- MCPred
  Fundings = {1, 2}
  Foreign = {a2}
  Window = 1
  MaxActionsPerTarget = 2
  MaxActionsPerWallet = 2
  MaxFundingPerTarget = 2
  MaxFundingPerWallet = 3
  MaxTime = 1

  CatalogProcesses = {"c1", "c2"}
  Uses <- MCUses
  Capabilities = {1, 2, 3}
  Manifests = {"m1", "m2"}
  Version <- MCVersion
  MaxEntries = 2
  PageSize = 1
  MaxHistoryLength = 2
SYMMETRY Interchangeable
INVARIANTS AtMostOneBroadcast AnswersAreEarned BudgetRespected
PROPERTIES ImplementsPayOnce CatalogIsSound
