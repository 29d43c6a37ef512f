SPECIFICATION MissionSpec
CONSTANTS
  kitchen = kitchen
  Kitchen = Kitchen
  lamp = lamp
  Lamp = Lamp
  depot = depot
  east = east
  Point <- MCPoint
  Close <- MCClose
  Name = {kitchen, Kitchen, lamp, Lamp, depot}
  Wanted = {Lamp, depot}
  Key <- MCKey
  ZoneName = {kitchen}
  Area = {east}
  Centre <- MCCentre
  Remembered <- MCRemembered
  Written <- MCWritten
  MaxSteps = 2
  None = None
  Null = Null
  NotAsked = NotAsked
  Failed = Failed
  Grid <- MCGrid
  Interior <- MCInterior
  Walls <- MCWalls
  Within <- MCWithin
  Metres <- MCMetres
  Sees <- MCSees
  MinCells = 2
  Reach = 1
  MinDistance = 1
  ExclusionRadius = 2
  Strategy = {"clusters", "nearest"}
  Start <- MCStart
  NoTarget = NoTarget
  Inside <- MCInside
  MaxEdits = 1
  TopK = 3
  MaxRows = 5
CHECK_DEADLOCK FALSE
INVARIANTS
  MissionTypeOK
  SurvivorsStand
  ExploresInstead
  AsksOnce
PROPERTIES
  RefusedOnlyIfGone
  LeavesNothing
  MissionEnds
