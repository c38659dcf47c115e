SPECIFICATION Spec
CONSTANTS
  Requests = {r1, r2, r3}
  Users <- MCUsers
  Admins = {bob}
  Numbers <- MCNumbers
  HolderOf <- MCHolderOf
  MaxFaults = 1
  Menus <- MCMenus
  Overlaps = {1, 2}
  MaxLapses = 1
  None = None
  alice = alice  bob = bob
  ofAlice = ofAlice  ofBob = ofBob  ofNobody = ofNobody
  r1 = r1  r2 = r2  r3 = r3
INVARIANTS IInv BeneficiariesWithinOverlap ProofsWithinOverlap AuditTellsTheTruth
PROPERTIES SerialColumns
SYMMETRY Later
