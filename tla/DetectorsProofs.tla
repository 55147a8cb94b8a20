---------------------------- MODULE DetectorsProofs ----------------------------
(***************************************************************************)
(* Theorems about the three watchers of what goes on around the machine,   *)
(* for any number of them and of changes.  The watchers of DHCP servers    *)
(* and of the Wi-Fi (Surroundings): the types, that a server learned in    *)
(* the first minute is never reported, and that nobody is reported twice.  *)
(* The detector of ARP spoofing (Spoofing): the types, that the last event *)
(* about the router tells who is taken for it, and that no MAC is flagged  *)
(* without its event.                                                      *)
(*                                                                         *)
(* The detector of ARP spoofing shares no state with the other two: it is  *)
(* an instance with variables of its own, and theorems about it name what  *)
(* they assume of its addresses.                                           *)
(***************************************************************************)
EXTENDS Surroundings, TLAPS

-----------------------------------------------------------------------------
(* Types *)

\* A round that has not begun has the shape of a round.
LEMMA NoCheckType == NoCheck \in WifiState
  BY DEF NoCheck, WifiState

\* Whatever the protocols of a network, it gets a rating (rateWifiSecurity).
LEMMA RatingType == \A security : rateWifiSecurity(security) \in {"none", "baixo", "medio", "alto"}
  BY DEF rateWifiSecurity

\* The initial state has the types (the variables of dhcp.go and wifi.go).
LEMMA InitType == Init => TypeOK
<1> SUFFICES ASSUME Init PROVE TypeOK
  OBVIOUS
<1>1. changes \in 0..MaxChanges
  BY BoundAssumption DEF Init
<1>2. wifi \in WifiState /\ wifi.alert = None
  BY NoCheckType DEF Init, NoCheck
<1> QED BY <1>1, <1>2 DEF Init, TypeOK

\* The bound on what changes is kept.
LEMMA CountedType == TypeOK /\ Counted => changes' \in 0..MaxChanges
  BY BoundAssumption DEF TypeOK, Counted

\* Every step keeps the types (startRogueDHCPDetection, startWifiCheck).
LEMMA NextType == TypeOK /\ [Next]_vars => TypeOK'
<1> SUFFICES ASSUME TypeOK, [Next]_vars PROVE TypeOK'
  OBVIOUS
<1> USE DEF TypeOK, world, dhcp, wireless
<1>1. CASE learningEnds
  BY <1>1 DEF learningEnds
<1>2. ASSUME NEW server \in Server, serverReplies(server) PROVE TypeOK'
  BY <1>2 DEF serverReplies
<1>3. CASE recordRogue
  BY <1>3 DEF recordRogue
<1>4. CASE listWifiNetworks
  BY <1>4 DEF listWifiNetworks, WifiState
<1>5. CASE checkWifiSecurity
  <2>1. currentWifiSecurity' \in {"none", "baixo", "medio", "alto"}
    BY <1>5, RatingType DEF checkWifiSecurity
  <2>2. wifi' \in WifiState /\ wifi'.alert = wifi.alert
    BY <1>5 DEF checkWifiSecurity, WifiState
  <2> QED BY <1>5, <2>1, <2>2 DEF checkWifiSecurity
<1>6. ASSUME NEW twin \in Twin, checkEvilTwin(twin) PROVE TypeOK'
  <2>1. wifi' \in WifiState /\ wifi'.alert \in alertedEvilTwins' \cup {None}
    BY <1>6 DEF checkEvilTwin, WifiState
  <2> QED BY <1>6, <2>1 DEF checkEvilTwin
<1>7. CASE recordTwin
  BY <1>7 DEF recordTwin, WifiState
<1>8. CASE endWifiCheck
  BY <1>8, NoCheckType DEF endWifiCheck, NoCheck
<1>9. CASE nmcliFails
  <2>1. wifi' \in WifiState /\ wifi'.alert = None
    BY <1>9 DEF nmcliFails, NoCheck, WifiState
  <2> QED BY <1>9, <2>1, CountedType DEF nmcliFails
<1>10. ASSUME NEW network \in Offered \cup {None}, joins(network) PROVE TypeOK'
  BY <1>10, CountedType DEF joins
<1>11. ASSUME NEW twin \in Twin, airChanges(twin) PROVE TypeOK'
  BY <1>11, CountedType DEF airChanges
<1>12. CASE UNCHANGED vars
  BY <1>12 DEF vars
<1> QED
  BY <1>1, <1>2, <1>3, <1>4, <1>5, <1>6, <1>7, <1>8, <1>9, <1>10, <1>11, <1>12
  DEF Next, WifiStep, World

\* In every reachable state every variable of dhcp.go and wifi.go has its type, and
\* whatever was reported was flagged before.
THEOREM TypeCorrect == Spec => []TypeOK
  BY InitType, NextType, PTL DEF Spec

-----------------------------------------------------------------------------
(* Reports *)

\* Whoever is about to be reported was not reported yet.
AlertInv == heard \notin announced /\ wifi.alert \notin announced

\* Nobody is reported at the start (knownDHCPServers, alertedEvilTwins).
LEMMA InitAlert == Init => AlertInv
  BY DEF Init, AlertInv, NoCheck

\* What was reported is a server or a twin, so that nobody is not among them.
LEMMA NobodyReported == TypeOK => None \notin announced
  BY NoneAssumption DEF TypeOK

\* Only a server that was not known and a twin that was not flagged are about to
\* be reported, and the flag outlives the report (dhcp.go, wifi.go).
LEMMA NextAlert == TypeOK /\ AlertInv /\ [Next]_vars => AlertInv'
<1> SUFFICES ASSUME TypeOK, AlertInv, [Next]_vars PROVE AlertInv'
  OBVIOUS
<1> USE NobodyReported DEF AlertInv
<1>1. ASSUME NEW server \in Server, serverReplies(server) PROVE AlertInv'
  <2>1. server \in announced => server \in knownDHCPServers
    BY NamesApart DEF TypeOK
  <2> QED BY <1>1, <2>1 DEF serverReplies, wireless
<1>2. CASE recordRogue
  <2>1. wifi.alert # heard
    BY <1>2, NamesApart, NoneAssumption DEF recordRogue, TypeOK
  <2>2. None # heard
    BY <1>2 DEF recordRogue
  <2> QED BY <1>2, <2>1, <2>2 DEF recordRogue, wireless
<1>3. ASSUME NEW twin \in Twin, checkEvilTwin(twin) PROVE AlertInv'
  <2>1. twin \in announced => twin \in alertedEvilTwins
    BY NamesApart DEF TypeOK
  <2>2. wifi'.alert \in {None} \cup ({twin} \ alertedEvilTwins)
    BY <1>3 DEF checkEvilTwin, TypeOK, WifiState
  <2> QED BY <1>3, <2>1, <2>2 DEF checkEvilTwin, dhcp
<1>4. CASE recordTwin
  <2>1. heard # wifi.alert
    BY <1>4, NamesApart, NoneAssumption DEF recordTwin, TypeOK
  <2>2. wifi'.alert = None /\ None # wifi.alert
    BY <1>4 DEF recordTwin, TypeOK, WifiState
  <2> QED BY <1>4, <2>1, <2>2 DEF recordTwin, dhcp
<1>5. CASE UNCHANGED <<heard, announced, wifi.alert>>
  BY <1>5
<1>6. listWifiNetworks \/ nmcliFails \/ endWifiCheck => wifi'.alert = None /\ UNCHANGED <<heard, announced>>
  BY DEF listWifiNetworks, nmcliFails, endWifiCheck, NoCheck, dhcp
<1>7. checkWifiSecurity => UNCHANGED <<heard, announced, wifi.alert>>
  BY DEF checkWifiSecurity, TypeOK, WifiState, dhcp
<1>8. learningEnds => UNCHANGED <<heard, announced, wifi.alert>>
  BY DEF learningEnds, wireless
<1>9. \A network, twin : joins(network) \/ airChanges(twin) => UNCHANGED <<heard, announced, wifi.alert>>
  BY DEF joins, airChanges, dhcp, wireless
<1>10. UNCHANGED vars => UNCHANGED <<heard, announced, wifi.alert>>
  BY DEF vars, dhcp, wireless
<1> QED
  BY <1>1, <1>2, <1>3, <1>4, <1>5, <1>6, <1>7, <1>8, <1>9, <1>10 DEF Next, WifiStep, World

\* Nobody is reported twice, however late an event is recorded and however often
\* a server answers or a twin comes back.
THEOREM ReportedOnce == Spec => AlertedOnce
<1>1. Init => TypeOK /\ AlertInv
  BY InitType, InitAlert
<1>2. TypeOK /\ AlertInv /\ [Next]_vars => TypeOK' /\ AlertInv'
  BY NextType, NextAlert
<1>3. TypeOK /\ AlertInv /\ [Next]_vars
        => [/\ recordRogue => heard \notin announced
            /\ recordTwin => wifi.alert \notin announced]_vars
  BY DEF AlertInv
<1> QED BY <1>1, <1>2, <1>3, PTL DEF Spec, AlertedOnce

-----------------------------------------------------------------------------
(* Learned servers *)

\* Nobody is under suspicion while it is still learned who belongs to the network, and
\* who was learned never is (dhcp.go, startRogueDHCPDetection).
LearnedInv ==
  /\ learned \subseteq knownDHCPServers
  /\ learned \cap announced = {} /\ heard \notin learned
  /\ dhcpLearningPeriod => heard = None /\ announced \cap Server = {}

\* A reply, whenever it comes, brings no learned server under suspicion.
LEMMA NextLearned == TypeOK /\ LearnedInv /\ [Next]_vars => LearnedInv'
<1> SUFFICES ASSUME TypeOK, LearnedInv, [Next]_vars PROVE LearnedInv'
  OBVIOUS
<1> USE DEF LearnedInv
<1>1. ASSUME NEW server \in Server, serverReplies(server) PROVE LearnedInv'
  <2>1. None \notin knownDHCPServers \cup {server}
    BY NoneAssumption DEF TypeOK
  <2>2. CASE dhcpLearningPeriod
    BY <1>1, <2>1, <2>2 DEF serverReplies
  <2>3. CASE ~ dhcpLearningPeriod
    BY <1>1, <2>1, <2>3 DEF serverReplies
  <2> QED BY <2>2, <2>3
<1>2. CASE recordRogue
  <2>1. None \notin learned
    BY NoneAssumption DEF TypeOK
  <2> QED BY <1>2, <2>1 DEF recordRogue
<1>3. CASE recordTwin
  <2>1. wifi.alert \in Twin /\ learned \subseteq Server
    BY <1>3 DEF recordTwin, TypeOK
  <2>2. announced' = announced \cup {wifi.alert} /\ UNCHANGED dhcp
    BY <1>3 DEF recordTwin
  <2> QED BY <2>1, <2>2, NamesApart DEF dhcp
<1>4. CASE learningEnds
  BY <1>4 DEF learningEnds
<1>5. ASSUME UNCHANGED <<dhcp, announced>> PROVE LearnedInv'
  BY <1>5 DEF dhcp
<1>6. \A twin : checkEvilTwin(twin) => UNCHANGED <<dhcp, announced>>
  BY DEF checkEvilTwin
<1>7. listWifiNetworks \/ checkWifiSecurity \/ endWifiCheck => UNCHANGED <<dhcp, announced>>
  BY DEF listWifiNetworks, checkWifiSecurity, endWifiCheck
<1>8. World => UNCHANGED <<dhcp, announced>>
  BY DEF World, joins, airChanges, nmcliFails
<1>9. UNCHANGED vars => UNCHANGED <<dhcp, announced>>
  BY DEF vars
<1> QED BY <1>1, <1>2, <1>3, <1>4, <1>5, <1>6, <1>7, <1>8, <1>9 DEF Next, WifiStep

\* A server that answered in the learning period is never reported, nor about to be,
\* whatever it and the others do later: the safety half of RogueReported (dhcp.go).
THEOREM LearnedNeverReported ==
  Spec => \A server \in Server :
            [](server \in learned => server \notin announced /\ heard # server)
<1>1. Init => LearnedInv
  BY NoneAssumption DEF Init, LearnedInv
<1>2. TypeOK /\ LearnedInv /\ [Next]_vars => LearnedInv'
  BY NextLearned
<1>3. Spec => []LearnedInv
  BY <1>1, <1>2, TypeCorrect, PTL DEF Spec
<1>4. ASSUME NEW server \in Server
      PROVE  Spec => [](server \in learned => server \notin announced /\ heard # server)
  <2>1. LearnedInv => (server \in learned => server \notin announced /\ heard # server)
    BY DEF LearnedInv
  <2> QED BY <1>3, <2>1, PTL
<1> QED BY <1>4

-----------------------------------------------------------------------------
(* ARP spoofing *)

CONSTANTS IP, Router, MAC, RouterMAC, OurMAC, Loop, Handler   \* as in Spoofing

VARIABLES arp, scan, suspectGatewayMAC, reportedDuplicateMACs, gatewayVerdict, reported,
          entryChanges

Scans == INSTANCE Spoofing WITH announced <- reported, changes <- entryChanges

\* MACs of other devices, the only ones that are counted.
OtherMACs == MAC \ {RouterMAC, OurMAC}

\* A scan that has not begun has the shape of a scan.
LEMMA NoScanType == Scans!NoScan \in Scans!ScanState
  BY DEF Scans!NoScan, Scans!NoTable, Scans!Table, Scans!ScanState

\* The initial state has the types (the variables of spoofing.go).
LEMMA InitScansType ==
  ASSUME Scans!AddressAssumption, Scans!BoundAssumption PROVE Scans!Init => Scans!TypeOK
<1> SUFFICES ASSUME Scans!Init PROVE Scans!TypeOK
  OBVIOUS
<1>1. arp \in Scans!Table /\ entryChanges \in 0..MaxChanges /\ gatewayVerdict \in MAC
  BY DEF Scans!Init, Scans!AddressAssumption, Scans!BoundAssumption
<1>2. scan = [s \in Scans!Scanner |-> Scans!NoScan]
  BY DEF Scans!Init
<1>3. scan \in [Scans!Scanner -> Scans!ScanState]
  BY <1>2, NoScanType
<1>4. \A s \in Scans!Scanner : scan[s].left = {} /\ scan[s].alert = None
  BY <1>2 DEF Scans!NoScan
<1> QED BY <1>1, <1>3, <1>4 DEF Scans!Init, Scans!TypeOK

\* What a step leaves of another scan is that scan, and the types of one scan are
\* enough (each goroutine has its own table).
ScanOK(state) ==
  /\ state \in Scans!ScanState
  /\ state.left \subseteq OtherMACs
  /\ state.alert \in OtherMACs \cup {None}

\* A goroutine's step keeps the types of all scans when it keeps its own.
LEMMA ScanUpdated ==
  ASSUME Scans!TypeOK, NEW s \in Scans!Scanner, NEW state, ScanOK(state),
         scan' = [scan EXCEPT ![s] = state]
  PROVE  /\ scan' \in [Scans!Scanner -> Scans!ScanState]
         /\ \A t \in Scans!Scanner : scan'[t].left \subseteq OtherMACs
                                   /\ scan'[t].alert \in OtherMACs \cup {None}
  BY DEF Scans!TypeOK, ScanOK, OtherMACs

\* Every step of a scan keeps the types (checkGatewaySpoofing, detectDuplicateMAC).
LEMMA NextScansType ==
  ASSUME Scans!AddressAssumption, Scans!BoundAssumption
  PROVE  Scans!TypeOK /\ [Scans!Next]_(Scans!vars) => Scans!TypeOK'
<1> SUFFICES ASSUME Scans!TypeOK, [Scans!Next]_(Scans!vars) PROVE Scans!TypeOK'
  OBVIOUS
<1>1. ASSUME NEW s \in Scans!Scanner, Scans!readARPTable(s) PROVE Scans!TypeOK'
  <2>1. PICK state : /\ state = [scan[s] EXCEPT !.phase = "gateway", !.table = arp]
                     /\ scan' = [scan EXCEPT ![s] = state]
    BY <1>1 DEF Scans!readARPTable
  <2>2. ScanOK(state)
    BY <2>1 DEF ScanOK, OtherMACs, Scans!TypeOK, Scans!ScanState
  <2> QED BY <1>1, <2>1, <2>2, ScanUpdated DEF Scans!readARPTable, Scans!TypeOK, OtherMACs
<1>2. ASSUME NEW s \in Scans!Scanner, Scans!checkGatewaySpoofing(s) PROVE Scans!TypeOK'
  <2>1. PICK state : /\ state = [scan[s] EXCEPT !.phase = "duplicates",
                                               !.left = Scans!CountedMACs(scan[s].table)]
                     /\ scan' = [scan EXCEPT ![s] = state]
    BY <1>2 DEF Scans!checkGatewaySpoofing
  <2>2. Scans!CountedMACs(scan[s].table) \subseteq OtherMACs
    BY DEF Scans!CountedMACs, OtherMACs
  <2>3. ScanOK(state)
    BY <2>1, <2>2 DEF ScanOK, OtherMACs, Scans!TypeOK, Scans!ScanState
  <2>4. scan[s].table[Router] \in MAC \cup {None}
    BY DEF Scans!TypeOK, Scans!ScanState, Scans!Table
  <2>5. /\ suspectGatewayMAC' \in (MAC \ {RouterMAC}) \cup {None}
        /\ gatewayVerdict' \in MAC
    BY <1>2, <2>4 DEF Scans!checkGatewaySpoofing, Scans!suspectAfter, Scans!TypeOK
  <2> QED
    BY <1>2, <2>1, <2>3, <2>5, ScanUpdated
    DEF Scans!checkGatewaySpoofing, Scans!TypeOK, OtherMACs
<1>3. ASSUME NEW s \in Scans!Scanner, NEW mac \in MAC, Scans!detectDuplicateMAC(s, mac)
      PROVE  Scans!TypeOK'
  <2>1. PICK alert \in {mac, None} : scan' = [scan EXCEPT ![s].left = @ \ {mac}, ![s].alert = alert]
    BY <1>3 DEF Scans!detectDuplicateMAC
  <2>2. PICK state : /\ state = [scan[s] EXCEPT !.left = @ \ {mac}, !.alert = alert]
                     /\ scan' = [scan EXCEPT ![s] = state]
    BY <2>1
  <2>3. mac \in OtherMACs
    BY <1>3 DEF Scans!detectDuplicateMAC, Scans!TypeOK, OtherMACs
  <2>4. ScanOK(state)
    BY <2>2, <2>3 DEF ScanOK, OtherMACs, Scans!TypeOK, Scans!ScanState
  <2>5. reportedDuplicateMACs' \subseteq OtherMACs /\ reported' \subseteq OtherMACs
    BY <1>3, <2>3 DEF Scans!detectDuplicateMAC, Scans!TypeOK, OtherMACs
  <2> QED
    BY <1>3, <2>2, <2>4, <2>5, ScanUpdated
    DEF Scans!detectDuplicateMAC, Scans!TypeOK, OtherMACs
<1>4. ASSUME NEW s \in Scans!Scanner, Scans!reportDuplicate(s) PROVE Scans!TypeOK'
  <2>1. PICK state : /\ state = [scan[s] EXCEPT !.alert = None]
                     /\ scan' = [scan EXCEPT ![s] = state]
    BY <1>4 DEF Scans!reportDuplicate
  <2>2. ScanOK(state)
    BY <2>1 DEF ScanOK, OtherMACs, Scans!TypeOK, Scans!ScanState
  <2>3. reported' \subseteq OtherMACs
    BY <1>4 DEF Scans!reportDuplicate, Scans!TypeOK, OtherMACs
  <2> QED
    BY <1>4, <2>1, <2>2, <2>3, ScanUpdated
    DEF Scans!reportDuplicate, Scans!TypeOK, OtherMACs
<1>5. ASSUME NEW s \in Scans!Scanner, Scans!endDetection(s) PROVE Scans!TypeOK'
  <2>1. ScanOK(Scans!NoScan)
    BY NoScanType DEF ScanOK, Scans!NoScan
  <2> QED
    BY <1>5, <2>1, ScanUpdated DEF Scans!endDetection, Scans!TypeOK, OtherMACs
<1>6. ASSUME NEW ip \in IP \cup {Router}, NEW mac \in MAC \cup {None}, Scans!ownerChanges(ip, mac)
      PROVE  Scans!TypeOK'
  <2>1. arp' \in Scans!Table
    BY <1>6 DEF Scans!ownerChanges, Scans!TypeOK, Scans!Table
  <2>2. entryChanges' \in 0..MaxChanges
    BY <1>6 DEF Scans!ownerChanges, Scans!TypeOK, Scans!BoundAssumption
  <2> QED BY <1>6, <2>1, <2>2 DEF Scans!ownerChanges, Scans!TypeOK
<1>7. CASE UNCHANGED Scans!vars
  BY <1>7 DEF Scans!vars, Scans!TypeOK
<1> QED BY <1>1, <1>2, <1>3, <1>4, <1>5, <1>6, <1>7 DEF Scans!Next, Scans!ScanStep

\* In every reachable state every variable of spoofing.go has its type; in particular
\* no flag and no alert is about this machine, the router or an address that nobody
\* answers for.
THEOREM ScansTypeCorrect ==
  ASSUME Scans!AddressAssumption, Scans!BoundAssumption PROVE Scans!Spec => []Scans!TypeOK
<1>1. Scans!Init => Scans!TypeOK
  BY InitScansType
<1>2. Scans!TypeOK /\ [Scans!Next]_(Scans!vars) => Scans!TypeOK'
  BY NextScansType
<1> QED BY <1>1, <1>2, PTL DEF Scans!Spec

-----------------------------------------------------------------------------
(* What was last said about the router *)

\* The last event about the router names whom the detector suspects, or the router
\* itself when it suspects nobody (spoofing.go:35-48).
VerdictHeld ==
  gatewayVerdict = IF suspectGatewayMAC = None THEN RouterMAC ELSE suspectGatewayMAC

\* Only checkGatewaySpoofing touches the suspect and what is said of the router, and
\* it changes both or none (one hold of arpSpoofMu).
LEMMA SuspectStep ==
  ASSUME Scans!AddressAssumption, Scans!TypeOK, VerdictHeld, [Scans!Next]_(Scans!vars)
  PROVE  /\ VerdictHeld'
         /\ gatewayVerdict' = gatewayVerdict => suspectGatewayMAC' = suspectGatewayMAC
<1>1. ASSUME NEW s \in Scans!Scanner, Scans!checkGatewaySpoofing(s)
      PROVE  /\ VerdictHeld'
             /\ gatewayVerdict' = gatewayVerdict => suspectGatewayMAC' = suspectGatewayMAC
  <2>1. scan[s].table[Router] \in MAC \cup {None}
    BY DEF Scans!TypeOK, Scans!ScanState, Scans!Table
  <2>2. suspectGatewayMAC \in (MAC \ {RouterMAC}) \cup {None}
    BY DEF Scans!TypeOK
  <2> QED
    BY <1>1, <2>1, <2>2
    DEF Scans!checkGatewaySpoofing, Scans!suspectAfter, VerdictHeld, Scans!AddressAssumption
<1>2. ASSUME UNCHANGED <<suspectGatewayMAC, gatewayVerdict>>
      PROVE  /\ VerdictHeld'
             /\ gatewayVerdict' = gatewayVerdict => suspectGatewayMAC' = suspectGatewayMAC
  BY <1>2 DEF VerdictHeld
<1>3. \A s : Scans!readARPTable(s) \/ Scans!reportDuplicate(s) \/ Scans!endDetection(s)
              => UNCHANGED <<suspectGatewayMAC, gatewayVerdict>>
  BY DEF Scans!readARPTable, Scans!reportDuplicate, Scans!endDetection
<1>4. \A s, mac : Scans!detectDuplicateMAC(s, mac)
                   => UNCHANGED <<suspectGatewayMAC, gatewayVerdict>>
  BY DEF Scans!detectDuplicateMAC
<1>5. \A ip, mac : Scans!ownerChanges(ip, mac) => UNCHANGED <<suspectGatewayMAC, gatewayVerdict>>
  BY DEF Scans!ownerChanges
<1>6. UNCHANGED Scans!vars => UNCHANGED <<suspectGatewayMAC, gatewayVerdict>>
  BY DEF Scans!vars
<1> QED BY <1>1, <1>2, <1>3, <1>4, <1>5, <1>6 DEF Scans!Next, Scans!ScanStep

\* However the scans of the loop and of the handlers overlap, the last event about the
\* router is about whom the detector suspects at the moment: there is no attack that
\* was flagged and not reported, and no flag taken back without an event.
THEOREM VerdictFollowsSuspect ==
  ASSUME Scans!AddressAssumption, Scans!BoundAssumption PROVE Scans!Spec => []VerdictHeld
<1>1. Scans!Init => VerdictHeld
  BY DEF Scans!Init, VerdictHeld
<1>2. Scans!TypeOK /\ VerdictHeld /\ [Scans!Next]_(Scans!vars) => VerdictHeld'
  BY SuspectStep
<1> QED BY <1>1, <1>2, ScansTypeCorrect, PTL DEF Scans!Spec

\* Every change of suspect is news: the event names another MAC than the last one did.
SuspectsAreNews ==
  [][gatewayVerdict' = gatewayVerdict => suspectGatewayMAC' = suspectGatewayMAC]_(Scans!vars)

\* Two scans that saw the same table raise one alarm about the router and not two, and
\* one event is enough to take it back (checkGatewaySpoofing).
THEOREM NoAlarmTwice ==
  ASSUME Scans!AddressAssumption, Scans!BoundAssumption PROVE Scans!Spec => SuspectsAreNews
<1>1. Scans!TypeOK /\ VerdictHeld /\ [Scans!Next]_(Scans!vars)
        => [gatewayVerdict' = gatewayVerdict => suspectGatewayMAC' = suspectGatewayMAC]_(Scans!vars)
  BY SuspectStep
<1> QED
  BY <1>1, ScansTypeCorrect, VerdictFollowsSuspect, PTL DEF Scans!Spec, SuspectsAreNews

-----------------------------------------------------------------------------
(* Flags and events *)

\* Whoever is flagged was reported since, or is about to be by a goroutine that has
\* released arpDupMu already (spoofing.go:79-94).
FlagsHaveEvents ==
  \A mac \in reportedDuplicateMACs :
    mac \in reported \/ \E s \in Scans!Scanner : scan[s].alert = mac

\* A goroutine that changes only its own scan leaves the alerts of the others.
LEMMA AlertsStay ==
  ASSUME Scans!TypeOK, FlagsHaveEvents,
         \A t \in Scans!Scanner : scan'[t].alert = scan[t].alert,
         UNCHANGED <<reportedDuplicateMACs, reported>>
  PROVE  FlagsHaveEvents'
  BY DEF FlagsHaveEvents, Scans!Scanner

\* A flag comes with an alert, the alert ends in an event, and the event is forgotten
\* only with the flag (detectDuplicateMAC).
LEMMA NextFlags ==
  ASSUME Scans!AddressAssumption
  PROVE  Scans!TypeOK /\ FlagsHaveEvents /\ [Scans!Next]_(Scans!vars) => FlagsHaveEvents'
<1> SUFFICES ASSUME Scans!TypeOK, FlagsHaveEvents, [Scans!Next]_(Scans!vars)
             PROVE  FlagsHaveEvents'
  OBVIOUS
<1>1. ASSUME NEW s \in Scans!Scanner,
             Scans!readARPTable(s) \/ Scans!checkGatewaySpoofing(s) \/ Scans!endDetection(s)
      PROVE  FlagsHaveEvents'
  <2>1. \A t \in Scans!Scanner : scan'[t].alert = scan[t].alert
    BY <1>1 DEF Scans!readARPTable, Scans!checkGatewaySpoofing, Scans!endDetection,
                Scans!NoScan, Scans!TypeOK, Scans!ScanState
  <2>2. UNCHANGED <<reportedDuplicateMACs, reported>>
    BY <1>1 DEF Scans!readARPTable, Scans!checkGatewaySpoofing, Scans!endDetection
  <2> QED BY <2>1, <2>2, AlertsStay
<1>2. ASSUME NEW s \in Scans!Scanner, NEW mac \in MAC, Scans!detectDuplicateMAC(s, mac)
      PROVE  FlagsHaveEvents'
  <2>1. PICK alert \in {mac, None} :
          /\ scan' = [scan EXCEPT ![s].left = @ \ {mac}, ![s].alert = alert]
          /\ \A x \in reportedDuplicateMACs' \ reportedDuplicateMACs : alert = x
    BY <1>2 DEF Scans!detectDuplicateMAC
  <2>2. scan'[s].alert = alert /\ \A t \in Scans!Scanner \ {s} : scan'[t] = scan[t]
    BY <2>1 DEF Scans!TypeOK, Scans!ScanState
  <2>3. scan[s].alert = None /\ None \notin reportedDuplicateMACs \cup {mac}
    BY <1>2 DEF Scans!detectDuplicateMAC, Scans!TypeOK, Scans!AddressAssumption
  <2>4. ASSUME NEW x \in reportedDuplicateMACs', x \in reportedDuplicateMACs
        PROVE  x \in reported' \/ \E t \in Scans!Scanner : scan'[t].alert = x
    <3>1. CASE x \in reported
      BY <1>2, <2>4, <3>1 DEF Scans!detectDuplicateMAC
    <3>2. CASE x \notin reported
      <4>1. PICK t \in Scans!Scanner : scan[t].alert = x
        BY <2>4, <3>2 DEF FlagsHaveEvents
      <4>2. t # s
        BY <2>3, <2>4, <4>1
      <4> QED BY <2>2, <4>1, <4>2
    <3> QED BY <3>1, <3>2
  <2>5. ASSUME NEW x \in reportedDuplicateMACs', x \notin reportedDuplicateMACs
        PROVE  scan'[s].alert = x
    BY <2>1, <2>2, <2>5
  <2> QED BY <2>4, <2>5 DEF FlagsHaveEvents
<1>3. ASSUME NEW s \in Scans!Scanner, Scans!reportDuplicate(s) PROVE FlagsHaveEvents'
  <2>1. \A t \in Scans!Scanner \ {s} : scan'[t] = scan[t]
    BY <1>3 DEF Scans!reportDuplicate, Scans!TypeOK
  <2>2. reported' = reported \cup {scan[s].alert} /\ UNCHANGED reportedDuplicateMACs
    BY <1>3 DEF Scans!reportDuplicate
  <2> QED BY <2>1, <2>2 DEF FlagsHaveEvents
<1>4. CASE UNCHANGED <<scan, reportedDuplicateMACs, reported>>
  BY <1>4 DEF FlagsHaveEvents
<1>5. \A ip, mac : Scans!ownerChanges(ip, mac) => UNCHANGED <<scan, reportedDuplicateMACs, reported>>
  BY DEF Scans!ownerChanges
<1>6. UNCHANGED Scans!vars => UNCHANGED <<scan, reportedDuplicateMACs, reported>>
  BY DEF Scans!vars
<1> QED BY <1>1, <1>2, <1>3, <1>4, <1>5, <1>6 DEF Scans!Next, Scans!ScanStep

\* However the scans overlap, no MAC is flagged as duplicated, and so kept from being
\* reported again, without the event that says so or a goroutine about to record it.
THEOREM FlagsReported ==
  ASSUME Scans!AddressAssumption, Scans!BoundAssumption PROVE Scans!Spec => []FlagsHaveEvents
<1>1. Scans!Init => FlagsHaveEvents
  BY DEF Scans!Init, FlagsHaveEvents
<1>2. Scans!TypeOK /\ FlagsHaveEvents /\ [Scans!Next]_(Scans!vars) => FlagsHaveEvents'
  BY NextFlags
<1> QED BY <1>1, <1>2, ScansTypeCorrect, PTL DEF Scans!Spec

=============================================================================
