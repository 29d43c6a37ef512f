SPECIFICATION Spec
CONSTANTS
  Goal = {g1, g2}
  Skill = {navigate}
  Unknown = Unknown
  MaxSteps = 2
  InboxDepth = 1
  Maintenance = Maintenance
  MaxQueue = 1
  NoRequest = NoRequest
INVARIANTS
  TypeOK
  StepsInOrder
  ResultsAreOwn
  AnswerIsLast
PROPERTIES
  PlannerRecovers
  GoalsAnswered
  ServesGoals
