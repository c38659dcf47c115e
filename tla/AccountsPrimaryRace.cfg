SPECIFICATION Spec
CONSTANTS
  Requests = {r1, r2}
  Accounts = {a1, a2, a3}
  Operations <- AllOperations
  InitialTables <- EmptyOrTwo
  PoolSizes = {2}
  MaxCredits = 0
  MaxFaults = 0
  None = None
  a1 = a1  a2 = a2  a3 = a3  a4 = a4
SYMMETRY Symmetry
INVARIANTS ExactlyOnePrimary
