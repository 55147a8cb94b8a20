SPECIFICATION FairSpec
CONSTANTS
  IP = {a}
  Outside = {}
  MAC = {n}
  Protected = {}
  Exposed = {}
  None = None
  Loop = loop
  Handler = {h}
  Mode = "aplicar"
  LearningScans = 2
  Input = {}
  MaxMoves = 1
PROPERTY UnknownIsDenied
