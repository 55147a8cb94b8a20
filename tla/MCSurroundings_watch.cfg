\* Two DHCP servers, two twins, four networks to join; three changes or
\* failures of nmcli.
SPECIFICATION FairSpec
CONSTANTS
  Server = {d1, d2}
  Twin = {t1, t2}
  Offered <- MCOffered
  None = None
  MaxChanges = 3
PROPERTIES
  RogueReported
  AlertedOnce
  WifiWatched
