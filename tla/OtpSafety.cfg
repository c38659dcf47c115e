SPECIFICATION Spec
CONSTANTS
  Requests = {r1, r2, r3, r4}
  Emails = {mail}
  Secrets = {s1, s2}
  Codes = {c1, c2}
  InitialUsers <- FreeOrTaken
  Overlaps = {1, 2}
  MaxFaults = 1
  None = None
  mail = mail  s1 = s1  s2 = s2
SYMMETRY Symmetry
INVARIANTS IInv OtpPassesWithinOverlap 
PROPERTIES UserAsRegistered
