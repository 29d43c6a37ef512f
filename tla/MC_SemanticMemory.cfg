SPECIFICATION Spec
CONSTANTS
  Position <- MCPosition
  Dist <- MCDist
  Cell <- MCCell
  Look = {gray, white}
  Zone = {kitchen}
  PlainId = {}
  Session = {fresh, saved}
  NoLook = NoLook
  NoSession = NoSession
  Absent = Absent
  Radius = 3
  CandidateLimit = 3
  MaxObservations = 2
INVARIANTS
  TypeOK
  NoCloseDuplicates
  AnchoredInCell
PROPERTIES
  AnchorsStay
  ObservationsRemembered
  RemembersPlaces
