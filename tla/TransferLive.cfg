SPECIFICATION FairSpec
CONSTANTS
  Requests = {r1, r2, r3}
  Accounts <- MCAccounts
  Users <- MCUsers
  Owner <- MCOwner
  InitialBalance <- MCInitialBalance
  Payloads <- Opposed
  PoolSizes = {2}
  MaxFaults = 1
  None = None
  alice = alice  bob = bob  a1 = a1  b1 = b1  ghost = ghost  k1 = k1  k2 = k2
PROPERTIES EveryRequestIsAnswered
