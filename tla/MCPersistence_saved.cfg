SPECIFICATION Spec
CONSTANTS
  MAC = {a, b}
  Handler = {h1, h2}
  Loop = loop
  Recorder = {r1, r2}
  MaxHistory = 2
  Torn = torn
  Fault = {"write", "append", "half", "crash"}
  MaxChanges = 5
SYMMETRY Symmetry
INVARIANTS
  TypeOK
  SavedAtRest
  MemoryOnDisk
  NewestKept
