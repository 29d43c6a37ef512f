SPECIFICATION Spec
CONSTANTS
  Goal = {g1, g2}
  Skill = {navigate}
  Unknown = Unknown
  MaxSteps = 2
  InboxDepth = 1
  Maintenance = Maintenance
  MaxQueue = 0
  NoRequest = NoRequest
PROPERTY
  NothingStartsAfterFailure
