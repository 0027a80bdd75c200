CONSTANTS
  t1 = t1
  t2 = t2
  None = None
  Requests = {1, 2, 3}
  Keys = {"dev", "other"}
  KeyOf <- MCKeyOf
  DevKey = "dev"
  Reader = "dev"
  Tenants = {t1, t2}
  Limit = 1
SPECIFICATION Spec
SYMMETRY TenantSymmetry
INVARIANTS TypeOK RowHasDocument RefusedLeavesNothing FoundByItsKey NoneMissed RepeatsExplained TotalReached
PROPERTIES ImplementsIntake
