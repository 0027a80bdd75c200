CONSTANTS
  w1 = w1
  w2 = w2
  None = None
  Workers = {w1, w2}
  Jobs = {1, 3}
  Hooks = {}
  Contents <- MCContents
  Tenants <- MCTenants
  CreatedAt <- MCCreatedAt
  ContentOf <- MCContentOf
  ChunksOf <- MCChunksOf
  TenantOf <- MCTenantOf
  MaxChunks = 2
  Concurrency = 1
  MaxAttempts = 1
  Faults = {"db", "deadline", "shutdown", "crash"}
SPECIFICATION Spec
SYMMETRY WorkerSymmetry
INVARIANTS TypeOK ExclusiveClaim OutcomeSound
PROPERTY ForwardOnly
