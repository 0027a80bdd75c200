CONSTANTS
  w1 = w1
  w2 = w2
  None = None
  Workers = {w1}
  Jobs = {1, 2, 3}
  Hooks = {}
  Contents <- MCContents
  Tenants <- MCTenants
  CreatedAt <- MCCreatedAt
  ContentOf <- MCContentOf
  ChunksOf <- MCChunksOf
  TenantOf <- MCTenantOf
  MaxChunks = 2
  Concurrency = 1
  MaxAttempts = 1
  Faults = {"shutdown", "crash", "late"}
SPECIFICATION FairSpec
INVARIANTS SlotAccounting OutcomeSound
PROPERTIES CancelledStops ImplementsLifecycle
