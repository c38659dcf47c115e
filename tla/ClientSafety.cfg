SPECIFICATION Spec
CONSTANTS
  Users <- MCUsers
  Admins = {bob}
  Tabs = {t1, t2}
  Logins = {l1, l2}
  Worlds <- MCWorlds
  MaxSessions = 3
  MaxKeys = 2
  None = None
  alice = alice  bob = bob  t1 = t1  t2 = t2  l1 = l1  l2 = l2
INVARIANTS IInv OwnTokenIsNoBreach UserIsWhoLoggedIn LogoutLeavesNothing  FreshTabsAreNotified
CHECK_DEADLOCK FALSE
