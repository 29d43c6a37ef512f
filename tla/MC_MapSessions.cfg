SPECIFICATION MapSpec
CONSTANTS
  freshA = freshA
  freshB = freshB
  Frame = {0, 2}
  DefaultSpawn = 0
  StartPoint = {2}
  NoZone = NoZone
  AnyStart = FALSE
  Session = {freshA, freshB, house}
  FreshId <- MCFreshId
  SaveNames = {house}
  NoName = NoName
  DefaultId = freshA
  NoFrame = NoFrame
  ReuseNames = FALSE
  SaveEarly = FALSE
  HalfPairs = {{"posegraph"}}
  SlamQueue = 2
  Position <- MCPosition
  Dist <- MCDist
  Cell <- MCCell
  Look = {gray}
  Zone = {kitchen}
  PlainId = {zoneKitchen}
  NoLook = NoLook
  NoSession = NoSession
  Absent = Absent
  Radius = 1
  CandidateLimit = 2
  MaxObservations = 1
INVARIANTS
  MapTypeOK
  VisibleInFrame
  OwnSessionComesBack
PROPERTY
  SuccessMeansSaved
