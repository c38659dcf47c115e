SPECIFICATION Spec
CONSTANTS
  Requests = {r1, r2}
  Accounts <- MCAccounts
  Users <- MCUsers
  Owner <- MCOwner
  InitialBalance <- MCInitialBalance
  Payloads <- Contended
  PoolSizes = {2}
  MaxFaults = 0
  None = None
  alice = alice  bob = bob  a1 = a1  b1 = b1  ghost = ghost  k1 = k1  k2 = k2
SYMMETRY Symmetry
INVARIANTS NoOverdraft
