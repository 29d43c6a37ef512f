SPECIFICATION UpkeepSpec
CONSTANTS
  old = old
  now = now
  none = none
  gray = gray
  kitchen = kitchen
  Position <- MCPosition
  Dist <- MCDist
  Cell <- MCCell
  Look = {gray}
  Zone = {kitchen}
  PlainId = {}
  Session = {old, now, none}
  NoLook = NoLook
  NoSession = NoSession
  Absent = Absent
  Radius = 3
  CandidateLimit = 2
  MaxObservations = 10
  Rank <- MCRank
  FromMean <- MCFromMean
  Says <- MCSays
  Untagged = none
  Retags <- MCRetags
  NoRetag = NoRetag
  MaxRuns = 2
  Version = {v1, v2}
  NoDocument = NoDocument
  Task = {t}
  NoLog = NoLog
  Torn = Torn
  Unread = Unread
  Stores <- MCStores
  MaxEvents = 2
CHECK_DEADLOCK FALSE
INVARIANTS
  UpkeepTypeOK
  CompactedApart
  CountsKept
  ServesWhatItRead
  TasksInTheirSession
PROPERTIES
  ServesAgain
