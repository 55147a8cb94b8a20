SPECIFICATION FairSpec
CONSTANTS
  IP = {a, b, x}
  Extra = {x}
  MAC = {m, n}
  NoMAC = NoMAC
  Vendor = {{m, n}}
  Inventory = {n}
  None = None
  Crowd = 2
  Change = {"owner", "port", "trust", "isolate", "reconnect", "flush"}
  Empty = {b}
  MaxChanges = 3
PROPERTIES
  NeverNewAgain
  NewcomerAnnounced
  LostBlockReported
  OpeningReported
  SuspectReported
