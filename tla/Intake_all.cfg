SPECIFICATION IntakeSpec
CONSTANTS
  Years = {y1, y2}
  MaxConfigs = 1
  MaxConnections = 2
  None = None
  Pages = {p1}
  ApiClients = {a1}
  RequiredFiles = {"fall", "spring"}
  OptionalFiles = {}
  OtherFiles = {"notes"}
  MaxJobs = 1
  MaxChanges = 2
SYMMETRY MCSymmetry
INVARIANT PayloadFitsJob
INVARIANT RosterIsThere
INVARIANT JobsAreSound
CHECK_DEADLOCK FALSE
