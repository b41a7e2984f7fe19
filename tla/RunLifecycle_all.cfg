SPECIFICATION Spec
CONSTANTS
  j1 = j1
  j2 = j2
  q1 = q1
  q2 = q2
  r1 = r1
  r2 = r2
  Jobs = {j1}
  Runs = {r1, r2}
  Starts = {q1, q2}
  JobOf <- OneJob
  MaxInitAttempts = 2
  NoJob = NoJob
  NoRun = NoRun
  Disturbances <- AllDisturbances
SYMMETRY RunSymmetry
INVARIANT TypeOK
INVARIANT EndIsRecorded
INVARIANT SuccessIsEarned
INVARIANT FailureIsExplained
PROPERTY ExecutorsReport
CHECK_DEADLOCK FALSE
