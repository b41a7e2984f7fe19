SPECIFICATION FairSpec
CONSTANTS
  p1 = p1
  pSomeoneElses = pSomeoneElses
  c1 = c1
  s1 = s1
  s2 = s2
  Partners = {p1, pSomeoneElses}
  Codes = {c1}
  Unmanaged = {pSomeoneElses}
  Syncs = {s1, s2}
  MaxChanges = 2
  MaxMishaps = 1
INVARIANT TypeOK
PROPERTY EventuallyInSync
PROPERTY OneSyncIsEnough
PROPERTY UnmanagedLeftAlone
