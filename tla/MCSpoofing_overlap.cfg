\* Two devices and the router, a handler's scan next to the loop's, two other
\* MACs besides the router's, two changes of the table.
SPECIFICATION FairSpec
CONSTANTS
  IP = {a, b}
  Router = r
  MAC = {x, y, gw}
  RouterMAC = gw
  OurMAC = me
  None = None
  Loop = loop
  Handler = {h}
  MaxChanges = 2
INVARIANTS
  TypeOK
PROPERTIES
  GatewayVerdict
  DuplicatesFollowed
