\* Two devices, two ports that are both at high risk, two external ports, a
\* handler's scan next to the loop's; two changes or failed questions.
SPECIFICATION MCSpec
CONSTANTS
  a = a
  e1 = e1
  IP = {a, b}
  Port = {p445, p23}
  HighPort = {p445, p23}
  External = {e1, e2}
  minimumSample = 2
  ubiquityThreshold = 66
  MaxMappings = 2
  Absent = Absent
  Loop = loop
  Handler = {h}
  MaxChanges = 2
INVARIANTS
  TypeOK
  OpeningNeverCalms
  
PROPERTIES
  MarksFollowRisk
  NewMappingReported
  ExposedActsFirst
