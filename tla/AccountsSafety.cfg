SPECIFICATION Spec
CONSTANTS
  Requests = {r1, r2, r3}
  Accounts = {a1, a2, a3, a4}
  Operations <- AllOperations
  InitialTables <- AlsoRaced
  PoolSizes = {1, 2}
  MaxCredits = 1
  MaxFaults = 1
  None = None
  a1 = a1  a2 = a2  a3 = a3  a4 = a4
SYMMETRY Symmetry
INVARIANTS IInv NoLostCredit NoStandstill
PROPERTIES FlagMovesOnRequest AccountsFromCreates SerialOnePrimary
