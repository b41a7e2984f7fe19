SPECIFICATION MCSpec
CONSTANTS
  i1 = i1
  i2 = i2
  c1 = c1
  c2 = c2
  Absent = Absent
  Idps = {i1, i2}
  Configs = {c1, c2}
  MaxRetries = 1
  MaxChanges = 2
  MaxFailures = 3
INVARIANT RegistrationsAreSound
PROPERTY NoNeedlessOutage
PROPERTY EventuallyRegistered
CHECK_DEADLOCK FALSE
