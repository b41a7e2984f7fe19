SPECIFICATION Spec
CONSTANTS
  i1 = i1
  i2 = i2
  c1 = c1
  c2 = c2
  Absent = Absent
  Idps = {i1, i2}
  Configs = {c1, c2}
  MaxRetries = 1
  MaxChanges = 0
  MaxFailures = 1
PROPERTY RetryIsKept
CHECK_DEADLOCK FALSE
