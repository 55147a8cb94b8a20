SPECIFICATION FairSpec
CONSTANTS
  Agent = {p, q}
  Busy = p
  Device = {d}
  Owner <- OneOwner
  Order = {o}
  None = None
  Fault = {"lost", "down", "local", "online"}
  MaxChanges = 2
INVARIANTS
  ErrorsHideDevices
PROPERTIES
  KeepsContract
  ViewConverges
