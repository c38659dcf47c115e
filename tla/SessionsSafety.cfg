SPECIFICATION Spec
CONSTANTS
  Requests = {r1, r2, r3, r4}
  Keys = {phone, laptop, work}
  Users <- MCUsers
  LockedUsers <- MCLocked
  UserOf <- MCUserOf
  Overlaps = {1, 2}
  MaxVersion = 1
  MaxFaults = 1
  None = None
  alice = alice  bob = bob  phone = phone  laptop = laptop  work = work
SYMMETRY Symmetry
INVARIANTS IInv FamilySharesOrigin
  SuccessorsWithinOverlap SerialDevices SerialReuse 
