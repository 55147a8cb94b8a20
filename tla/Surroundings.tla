----------------------------- MODULE Surroundings -----------------------------
(***************************************************************************)
(* Two background watchers of what is around the machine: a listener hears *)
(* DHCP servers (dhcp.go), and a loop looks at the Wi-Fi networks in sight *)
(* (wifi.go).  Each flags under its mutex what it is about to report, and  *)
(* records the event after the mutex was released.  An event is reduced to *)
(* whom it is about.                                                       *)
(*                                                                         *)
(* A definition X_Y just above a definition X is X with a mistake in it;   *)
(* the specification does not use it.                                      *)
(***************************************************************************)
EXTENDS Integers

CONSTANTS
  Server,      \* addresses that answer as DHCP servers
  Twin,        \* access points without a password that have our network's name
  Offered,     \* the networks we may join: the protocols each accepts, and whether
               \* its SSID is known
  None,        \* no server, no twin, no network
  MaxChanges   \* bound: how many changes of the air, and failures of nmcli

Protocol == {"WEP", "WPA1", "WPA2", "WPA3", "802.1X"}

ASSUME OfferedAssumption == Offered \subseteq [protocols : SUBSET Protocol, named : BOOLEAN]

ASSUME NoneAssumption == None \notin Server \cup Twin \cup Offered

\* A server is known by its address, a twin by its BSSID.
ASSUME NamesApart == Server \cap Twin = {}

ASSUME BoundAssumption == MaxChanges \in Nat

VARIABLES
  language,              \* the one nmcli answers in
  joined,                \* the network we are on
  air,                   \* the twins in sight
  dhcpLearningPeriod,
  knownDHCPServers,
  heard,                 \* the server the listener is about to report
  wifi,                  \* startWifiCheck's progress
  currentWifiSecurity,   \* its Risk, in ASCII; "none" is the empty string
  alertedEvilTwins,
  announced,             \* history: who was reported
  learned,               \* history: servers heard in the learning period
  changes                \* how many changes and failures there were

world == <<language, joined, air>>
dhcp == <<dhcpLearningPeriod, knownDHCPServers, heard, learned>>
wireless == <<wifi, currentWifiSecurity, alertedEvilTwins>>
vars == <<world, dhcp, wireless, announced, changes>>

\* What nmcli listed, less the twins already compared, and the one to report.
WifiState == [phase : {"idle", "listed", "twins"}, joined : Offered \cup {None},
              left : SUBSET Twin, alert : Twin \cup {None}]
NoCheck == [phase |-> "idle", joined |-> None, left |-> {}, alert |-> None]

Init ==
  /\ language \in {"pt", "other"}
  /\ joined \in Offered \cup {None}
  /\ air = {}
  /\ dhcpLearningPeriod = TRUE
  /\ knownDHCPServers = {}
  /\ heard = None
  /\ wifi = NoCheck
  /\ currentWifiSecurity = "none"
  /\ alertedEvilTwins = {}
  /\ announced = {}
  /\ learned = {}
  /\ changes = 0

Counted == changes < MaxChanges /\ changes' = changes + 1

-----------------------------------------------------------------------------
(* DHCP: one listener; a minute after the start it has learned enough *)

learningEnds ==
  /\ dhcpLearningPeriod
  /\ dhcpLearningPeriod' = FALSE
  /\ UNCHANGED <<world, knownDHCPServers, heard, learned, wireless, announced, changes>>

\* An OFFER or ACK reaches the listener: one hold of dhcpMu.
serverReplies_Unchecked(server) ==
  /\ heard = None
  /\ knownDHCPServers' = knownDHCPServers \cup {server}
  /\ learned' = learned \cup {x \in {server} : dhcpLearningPeriod}
  /\ heard' = IF server \in knownDHCPServers THEN None ELSE server
  /\ UNCHANGED <<world, dhcpLearningPeriod, wireless, announced, changes>>

serverReplies(server) ==
  /\ heard = None
  /\ knownDHCPServers' = knownDHCPServers \cup {server}
  /\ learned' = learned \cup {x \in {server} : dhcpLearningPeriod}
  /\ heard' = IF dhcpLearningPeriod \/ server \in knownDHCPServers THEN None ELSE server
  /\ UNCHANGED <<world, dhcpLearningPeriod, wireless, announced, changes>>

\* recordEvent, after dhcpMu was released.
recordRogue ==
  /\ heard # None
  /\ announced' = announced \cup {heard}
  /\ heard' = None
  /\ UNCHANGED <<world, dhcpLearningPeriod, knownDHCPServers, learned, wireless, changes>>

-----------------------------------------------------------------------------
(* Wi-Fi: what nmcli lists, then checkWifiSecurity and checkEvilTwin on it *)

listWifiNetworks ==
  /\ wifi = NoCheck
  /\ wifi' = [phase |-> "listed", joined |-> joined, left |-> air, alert |-> None]
  /\ UNCHANGED <<world, dhcp, currentWifiSecurity, alertedEvilTwins, announced, changes>>

\* nmcli fails: the round finds no network at all.
nmcliFails ==
  /\ Counted
  /\ wifi = NoCheck
  /\ wifi' = [NoCheck EXCEPT !.phase = "listed"]
  /\ UNCHANGED <<world, dhcp, currentWifiSecurity, alertedEvilTwins, announced>>

\* The strongest protocol a network accepts decides, unless WEP is among them.
rateWifiSecurity(security) ==
  IF security = {} \/ "WEP" \in security THEN "alto"
  ELSE IF security \cap {"WPA2", "WPA3"} # {} THEN "baixo"
  ELSE IF "WPA1" \in security THEN "medio"
  ELSE "none"

\* The network nmcli calls active, in the only word for it that the program knows.
current == IF language = "pt" THEN wifi.joined ELSE None

\* A passwordless copy of it would be a twin.
comparable(network) == network # None /\ network.named /\ network.protocols # {}

checkWifiSecurity_Once ==
  /\ wifi.phase = "listed"
  /\ currentWifiSecurity' =
       IF current = None \/ currentWifiSecurity # "none" THEN currentWifiSecurity
       ELSE rateWifiSecurity(current.protocols)
  /\ wifi' = [wifi EXCEPT !.phase = "twins", !.left = IF comparable(current) THEN @ ELSE {}]
  /\ UNCHANGED <<world, dhcp, alertedEvilTwins, announced, changes>>

\* Without a network of ours the rating of the last one stays, and nothing is compared.
checkWifiSecurity ==
  /\ wifi.phase = "listed"
  /\ currentWifiSecurity' =
       IF current = None THEN currentWifiSecurity ELSE rateWifiSecurity(current.protocols)
  /\ wifi' = [wifi EXCEPT !.phase = "twins", !.left = IF comparable(current) THEN @ ELSE {}]
  /\ UNCHANGED <<world, dhcp, alertedEvilTwins, announced, changes>>

checkEvilTwin_Unflagged(twin) ==
  /\ wifi.phase = "twins" /\ wifi.alert = None /\ twin \in wifi.left
  /\ wifi' = [wifi EXCEPT !.left = @ \ {twin},
                          !.alert = IF twin \in alertedEvilTwins THEN None ELSE twin]
  /\ UNCHANGED <<world, dhcp, currentWifiSecurity, alertedEvilTwins, announced, changes>>

\* One hold of evilTwinMu for a network without a password and with our name.
checkEvilTwin(twin) ==
  /\ wifi.phase = "twins" /\ wifi.alert = None /\ twin \in wifi.left
  /\ wifi' = [wifi EXCEPT !.left = @ \ {twin},
                          !.alert = IF twin \in alertedEvilTwins THEN None ELSE twin]
  /\ alertedEvilTwins' = alertedEvilTwins \cup {twin}
  /\ UNCHANGED <<world, dhcp, currentWifiSecurity, announced, changes>>

\* recordEvent, after evilTwinMu was released.
recordTwin ==
  /\ wifi.alert # None
  /\ announced' = announced \cup {wifi.alert}
  /\ wifi' = [wifi EXCEPT !.alert = None]
  /\ UNCHANGED <<world, dhcp, currentWifiSecurity, alertedEvilTwins, changes>>

endWifiCheck ==
  /\ wifi.phase = "twins" /\ wifi.left = {} /\ wifi.alert = None
  /\ wifi' = NoCheck
  /\ UNCHANGED <<world, dhcp, currentWifiSecurity, alertedEvilTwins, announced, changes>>

-----------------------------------------------------------------------------
(* What changes around the machine *)

joins(network) ==
  /\ Counted
  /\ joined # network
  /\ joined' = network
  /\ UNCHANGED <<language, air, dhcp, wireless, announced>>

\* A twin comes into sight or goes.
airChanges(twin) ==
  /\ Counted
  /\ air' = IF twin \in air THEN air \ {twin} ELSE air \cup {twin}
  /\ UNCHANGED <<language, joined, dhcp, wireless, announced>>

WifiStep ==
  \/ listWifiNetworks
  \/ checkWifiSecurity
  \/ \E twin \in Twin : checkEvilTwin(twin)
  \/ recordTwin
  \/ endWifiCheck

World ==
  \/ \E network \in Offered \cup {None} : joins(network)
  \/ \E twin \in Twin : airChanges(twin)
  \/ nmcliFails

Next ==
  \/ learningEnds \/ recordRogue
  \/ \E server \in Server : serverReplies(server)
  \/ WifiStep
  \/ World

Spec == Init /\ [][Next]_vars

\* The Wi-Fi is checked again and again (the sleep is finite), and an event
\* under way is recorded.  No server need answer, nothing need change.
Fairness == WF_vars(recordRogue) /\ WF_vars(WifiStep)

FairSpec == Spec /\ Fairness

-----------------------------------------------------------------------------
(* Properties *)

\* Every variable stays in its domain; in particular whatever was reported or
\* is about to be was flagged before (dhcp.go:94-104, wifi.go:142-145).
TypeOK ==
  /\ language \in {"pt", "other"}
  /\ joined \in Offered \cup {None} /\ air \subseteq Twin
  /\ dhcpLearningPeriod \in BOOLEAN
  /\ knownDHCPServers \subseteq Server /\ learned \subseteq knownDHCPServers
  /\ heard \in knownDHCPServers \cup {None}
  /\ wifi \in WifiState /\ wifi.alert \in alertedEvilTwins \cup {None}
  /\ currentWifiSecurity \in {"none", "baixo", "medio", "alto"}
  /\ alertedEvilTwins \subseteq Twin
  /\ announced \subseteq knownDHCPServers \cup alertedEvilTwins
  /\ changes \in 0..MaxChanges

\* A server that first answers after the learning period is reported, and one
\* that was learned never is, whatever it does later (dhcp.go:26-32, 94-118).
RogueReported ==
  \A server \in Server :
    /\ [](server \in learned => server \notin announced /\ heard # server)
    /\ server \in knownDHCPServers \ learned ~> server \in announced

\* Nobody is reported twice: neither a server that keeps answering nor a twin
\* that leaves and comes back, or is in sight of two rounds, however late the
\* event of the first is recorded (dhcp.go:100-106, wifi.go:142-148).
AlertedOnce ==
  [][/\ recordRogue => heard \notin announced
     /\ recordTwin => wifi.alert \notin announced]_vars

\* Where nmcli answers in Portuguese, the network we stay on is rated for what it is in
\* the end, although nmcli fails now and then and we were elsewhere before; and a twin
\* that stays in sight while our network has a password and a name is reported.  In any
\* other language no network counts as ours (wifi.go:81-96, 118-153).
WifiWatched ==
  language = "pt" =>
    /\ \A network \in Offered :
         <>[](joined = network)
           => <>[](currentWifiSecurity = rateWifiSecurity(network.protocols))
    /\ \A twin \in Twin :
         <>[](twin \in air /\ comparable(joined)) => <>(twin \in announced)

=============================================================================
