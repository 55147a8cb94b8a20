SPECIFICATION Spec
CONSTANTS
  IP = {a, gw, own}
  MAC = {ma, mgw, mown}
  GatewayIP = gw
  GatewayMAC = mgw
  OwnIP = own
  OwnMAC = mown
  None = none
  Session = {s1, s2}
  User = {u1}
  Watcher = watcher
  MaxOrders = 1
  MaxRules = 2
  RestoreRounds = 1
  Fault = {"insert", "crash", "flush", "second", "loss"}
SYMMETRY Alike
INVARIANT ReleasedIsFree
