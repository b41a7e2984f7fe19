SPECIFICATION MCSpec
CONSTANTS
  Years = {y1, y2}
  Admins = {a1, a2}
  MaxConfigs = 2
  MaxConnections = 4
  None = None
  SchoolYearIds = {"2026"}
  Editors = {a1, a2}
  MaxSaves = 2
  NoSave = NoSave
  NoDraft = NoDraft
  NoUpdate = NoUpdate
  Streams = {s1, s2}
  MaxCreds = 2
  MaxPools = 3
  NoValue = NoValue
  Callers = {c1, c2}
  TTL = 2
  Patience = 1
  MaxVersion = 3
  MaxTime = 8
  NoFetch = NoFetch
  Writes = {w1, w2}
  MaxUpdates = 2
  Unread = Unread
  Idle = Idle
  Sent = Sent
  PageSizes = {1, 2}
  Texts = {"", "a"}
  FilterSets = {"f"}
  MaxRows = 2
  Bounds = {0, 1}
  Undefined = Undefined
  Null = Null
  NoDialog = NoDialog
  Persons = {a1, a2}
  Me = a1
  Nobody = Nobody
  MaxNotes = 1
  NoNote = NoNote
  Deleted = Deleted
  NoteTexts = {"m", "n"}
  NoText = ""
  PgConnections = {p1}
  Waiting = Waiting
  NoteCalls = {n1, n2}
  NoCall = NoCall
  NoForm = NoForm
  NoQuestion = NoQuestion
INVARIANT DonePageShowsTheEnd
CHECK_DEADLOCK FALSE
