CONSTANTS
  w1 = w1
  w2 = w2
  None = None
  Workers = {w1}
  Jobs = {1}
  Hooks = {11}
  Contents <- MCContents
  Tenants <- MCTenants
  CreatedAt <- MCCreatedAt
  ContentOf <- MCContentOf
  ChunksOf <- MCChunksOf
  TenantOf <- MCTenantOf
  MaxChunks = 1
  Concurrency = 1
  MaxAttempts = 2
  Faults = {}
SPECIFICATION Spec
INVARIANT RetriedToTheEnd
