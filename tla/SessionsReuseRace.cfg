SPECIFICATION Spec
CONSTANTS
  Requests = {r1, r2, r3, r4}
  Keys = {phone}
  Users <- MCUsers
  LockedUsers <- MCLocked
  UserOf <- MCUserOf
  Overlaps = {2}
  MaxVersion = 1
  MaxFaults = 0
  None = None
  alice = alice  bob = bob  phone = phone  laptop = laptop  work = work
SYMMETRY Symmetry
INVARIANTS ReuseKillsFamily
