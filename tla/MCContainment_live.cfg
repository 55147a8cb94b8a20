SPECIFICATION FairSpec
CONSTANTS
  IP = {a, gw, own}
  MAC = {ma, mgw, mown}
  GatewayIP = gw
  GatewayMAC = mgw
  OwnIP = own
  OwnMAC = mown
  None = none
  Session = {s1, s2}
  User = {u1}
  Watcher = watcher
  MaxOrders = 1
  MaxRules = 2
  RestoreRounds = 2
  Fault = {"insert"}
PROPERTY TimedIsolationEnds
PROPERTY ArpRestored
PROPERTY StaysPoisoned
