SPECIFICATION ZoneSpec
CONSTANTS
  kitchen = kitchen
  hall = hall
  Position <- MCPosition
  Dist <- MCDist
  Cell <- MCCell
  Look = {}
  Zone <- MCRoom
  PlainId <- MCPlainId
  Session = {fresh, saved}
  NoLook = NoLook
  NoSession = NoSession
  Absent = Absent
  Radius = 3
  CandidateLimit = 3
  MaxObservations = 1
  Area <- MCArea
  NoArea = NoArea
  Centre <- MCCentre
  Room <- MCRoom
  ZoneId <- MCZoneId
  Thread = {t1, t2}
  MaxEdits = 3
  MaxFaults = 1
  QueueDepth = 2
CHECK_DEADLOCK FALSE
INVARIANTS
  ZoneTypeOK
  SettledZonesAgree
PROPERTIES
  RoomsComeBack
