SPECIFICATION Spec
CONSTANTS
  IP = {a, gw, own}
  MAC = {ma, mgw, mown}
  GatewayIP = gw
  GatewayMAC = mgw
  OwnIP = own
  OwnMAC = mown
  None = none
  Session = {s1, s2}
  User = {u1}
  Watcher = watcher
  MaxOrders = 2
  MaxRules = 2
  RestoreRounds = 1
  Fault = {"insert", "delete", "crash"}
SYMMETRY Alike
INVARIANT IsolatedIsBlocked
INVARIANT NeverContainsProtected
INVARIANT BlockInv
PROPERTY KeepsPromise
