SPECIFICATION Spec
CONSTANTS
  j1 = j1
  j2 = j2
  None = None
  Unlisted = Unlisted
  Jobs = {j1, j2}
  Files = {"assessments"}
  MaxRuns = 2
  q1 = q1
  q2 = q2
  Requests = {q1, q2}
INVARIANT SetsAreSound
INVARIANT StatusIsOfLastRun
INVARIANT ResolvedJobsHadErrors
SYMMETRY Symmetry
CHECK_DEADLOCK FALSE
