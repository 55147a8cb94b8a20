SPECIFICATION FairSpec
CONSTANTS
  IP = {a, b}
  Outside = {b}
  MAC = {n}
  Protected = {}
  Exposed = {n, b}
  None = None
  Loop = loop
  Handler = {h}
  Mode = "aplicar"
  LearningScans = 2
  Input = {"refresh", "trust", "isolate", "reconnect"}
  MaxMoves = 1
INVARIANTS
  GraceCoversResidents
  GraceInv
PROPERTIES
  ExposedIsContained
  TrustTakesEffect
