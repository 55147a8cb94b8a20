------------------------------ MODULE Monitoring ------------------------------
(***************************************************************************)
(* The comparison of consecutive scans (monitoring.go, detectChanges) and  *)
(* the events it records, over the part of scanNetwork (dashboard.go) that *)
(* it compares.                                                            *)
(*                                                                         *)
(* Only the goroutine of startContinuousMonitoring compares: `previous` is *)
(* its own last scan, whatever the dashboard's handlers scan and publish   *)
(* meanwhile.  What it observes changes while it looks: devices come and   *)
(* go, ports open, people isolate, reconnect and trust, and somebody may   *)
(* flush the firewall between the read of the map and the read of a rule.  *)
(*                                                                         *)
(* Events are output: only those of the last comparison are kept.  A       *)
(* device has one port that matters: open makes its risk high.  A host of  *)
(* REDES_EXTRAS is behind a router: it has no entry in the ARP table, and  *)
(* so no MAC, no vendor, no place in the inventory and no trust.           *)
(*                                                                         *)
(* A definition X_Y just above a definition X is X with a mistake in it;   *)
(* the specification does not use it.                                      *)
(***************************************************************************)
EXTENDS Integers, FiniteSets

CONSTANTS
  IP,          \* the addresses scanned, the router's and our own excepted
  Extra,       \* those of REDES_EXTRAS among them
  MAC,         \* hardware addresses
  NoMAC,       \* the empty one
  Vendor,      \* the vendors lookupByMAC knows, each the set of its addresses
  Inventory,   \* those loadKnownDevices finds at startup
  None,        \* no device
  Crowd,       \* a network this large may lose half its devices (4 in the code)
  Change,      \* which of ChangeKind happen
  Empty,       \* bound: the addresses where nobody answers at first
  MaxChanges   \* bound: how many changes happen

ChangeKind == {"owner", "port", "trust", "isolate", "reconnect", "flush"}

ASSUME DeviceAssumption ==
  /\ Vendor \subseteq SUBSET MAC
  /\ \A v, w \in Vendor : v \cap w # {} => v = w
  /\ Inventory \subseteq MAC
  /\ Extra \subseteq IP /\ Extra \cap MAC = {}
  /\ NoMAC \notin MAC /\ None \notin MAC \cup Extra

ASSUME BoundAssumption ==
  /\ Crowd \in Nat \ {0} /\ MaxChanges \in Nat
  /\ Change \subseteq ChangeKind
  /\ Empty \subseteq IP

VARIABLES
  owner,       \* the device that answers at each address
  open,        \* the devices whose port is open
  trusted,     \* the devices marked as trusted
  isolations,  \* the addresses isolated now
  rules,       \* the addresses both of whose DROP rules exist
  known,       \* knownDevices
  evasionCandidates, \* the vendors whose entry is younger than evasionWindow
  firstScan,   \* has the loop compared nothing yet
  previous,    \* the loop's last scan
  scan,        \* the scan under way
  events,      \* <<type, address>>: what the last comparison recorded, until
               \* the next scan begins
  announced,   \* history: the MACs reported as new in this run
  changes      \* history: how many changes have happened

world == <<owner, open, trusted, isolations, rules>>
memory == <<known, evasionCandidates, firstScan, previous, events, announced>>
vars == <<world, memory, scan, changes>>

-----------------------------------------------------------------------------
(* State shapes *)

\* A device is told by its MAC, a host of REDES_EXTRAS by its address.
Device == MAC \cup Extra

At(ip) == IF ip \in Extra THEN {ip} ELSE MAC

\* What the ARP table has of a device.
macOf(device) == IF device \in MAC THEN device ELSE NoMAC

Owners == {f \in [IP -> Device \cup {None}] : \A ip \in IP : f[ip] \in At(ip) \cup {None}}

Result == [mac : MAC \cup {NoMAC}, trusted : BOOLEAN, open : BOOLEAN,
           isolated : BOOLEAN, block : BOOLEAN]

ASSUME NoneAssumption == None \notin Result

\* What a scan knows of each address; None where no host answered.
Results == [IP -> Result \cup {None}]
Nothing == [ip \in IP |-> None]

Hosts(results) == {ip \in IP : results[ip] # None}

\* queue: hosts to look at; checking: isolated ones whose rules are not read yet.
ScanState == [active : BOOLEAN, found : Results,
              queue : SUBSET IP, checking : SUBSET IP]

NoScan == [active |-> FALSE, found |-> Nothing, queue |-> {}, checking |-> {}]

EventType == {"alerta_saude_rede", "alerta_evasao", "dispositivo_voltou",
              "novo_dispositivo", "mudanca_risco", "alerta_bloqueio",
              "alerta_conflito_ip", "porta_nova", "dispositivo_saiu"}

Init ==
  /\ owner \in Owners /\ \A ip \in Empty : owner[ip] = None
  /\ open = {}
  /\ trusted = {}
  /\ isolations = {} /\ rules = {}
  /\ known = Inventory
  /\ evasionCandidates = {}
  /\ firstScan = TRUE
  /\ previous = Nothing
  /\ scan = NoScan
  /\ events = {}
  /\ announced = {}
  /\ changes = 0

-----------------------------------------------------------------------------
(* scanNetwork *)

activeHosts == {ip \in IP : owner[ip] # None}

\* What is known of a host before it is looked at.
blank(ip) == [mac |-> macOf(owner[ip]), trusted |-> FALSE, open |-> FALSE,
              isolated |-> FALSE, block |-> FALSE]

beginScan ==
  /\ ~ scan.active
  /\ scan' = [active |-> TRUE, queue |-> activeHosts, checking |-> {},
              found |-> [ip \in IP |-> IF ip \in activeHosts THEN blank(ip) ELSE None]]
  /\ events' = {}
  /\ UNCHANGED <<world, known, evasionCandidates, firstScan, previous, announced, changes>>

\* Trust, then the ports of an untrusted host, then the map of isolations.
examine(ip) ==
  LET mac == scan.found[ip].mac
      isTrusted == mac \in trusted
      isolated == ip \in isolations
  IN
  /\ ip \in scan.queue
  /\ scan' = [scan EXCEPT
       !.queue = @ \ {ip},
       !.checking = IF isolated THEN @ \cup {ip} ELSE @,
       !.found = [@ EXCEPT ![ip] =
         [mac |-> mac, trusted |-> isTrusted,
          open |-> ~ isTrusted /\ owner[ip] \in open,
          isolated |-> isolated, block |-> FALSE]]]
  /\ UNCHANGED <<world, memory, changes>>

ipv4BlockActive_FromMap(ip) == ip \in isolations

\* `iptables -C` of both rules: the system is asked, not the map.
ipv4BlockActive(ip) == ip \in rules

checkBlock(ip) ==
  /\ ip \in scan.checking
  /\ scan' = [scan EXCEPT
       !.checking = @ \ {ip},
       !.found = [@ EXCEPT ![ip] =
         [mac |-> scan.found[ip].mac, trusted |-> scan.found[ip].trusted,
          open |-> scan.found[ip].open, isolated |-> TRUE,
          block |-> ipv4BlockActive(ip)]]]
  /\ UNCHANGED <<world, memory, changes>>

-----------------------------------------------------------------------------
(* detectChanges *)

Appeared(old, new) == Hosts(new) \ Hosts(old)
Stayed(old, new) == Hosts(new) \cap Hosts(old)
Left(old, new) == Hosts(old) \ Hosts(new)

markSeen_Stayed(old, new) == {new[ip].mac : ip \in Stayed(old, new)} \ {NoMAC}

\* Everything that answered and has a MAC.
markSeen(old, new) == {new[ip].mac : ip \in Hosts(new)} \ {NoMAC}

alreadyKnown_AfterMarking(mac) == mac \in known \cup markSeen(previous, scan.found)

\* A host without a MAC never is.
alreadyKnown(mac) == mac \in known

\* An event of one type about each of some addresses.
Of(type, ips) == {type} \X ips

healthEvents(old, new) ==
  LET before == Cardinality(Hosts(old))
      after == Cardinality(Hosts(new))
  IN  IF before >= Crowd /\ after <= before \div 2
      THEN Of("alerta_saude_rede", {None}) ELSE {}

suspectVendor_Stranger(mac) ==
  ~ alreadyKnown(mac) /\ \E v \in evasionCandidates : mac \in v

\* One of its vendor's devices left while isolated, not long ago.
suspectVendor(mac) == \E v \in evasionCandidates : mac \in v

arrivalEvents(old, new) ==
  LET appeared == Appeared(old, new)
      back == {ip \in appeared : alreadyKnown(new[ip].mac)}
  IN  Of("alerta_evasao", {ip \in appeared : suspectVendor(new[ip].mac)})
      \cup Of("dispositivo_voltou", back)
      \cup Of("novo_dispositivo", appeared \ back)

opened_Swapped(o, n) == o.open /\ ~ n.open

\* A port that the scan before did not find open.
opened(o, n) == n.open /\ ~ o.open

\* Two different MACs; where there is none nothing is said.
conflict(o, n) == o # n /\ NoMAC \notin {o, n}

changeEvents(old, new) ==
  LET stayed == Stayed(old, new) IN
  Of("mudanca_risco",
     {ip \in stayed : old[ip].open # new[ip].open /\ ~ new[ip].trusted})
  \cup Of("alerta_bloqueio",
          {ip \in stayed : /\ new[ip].isolated /\ old[ip].isolated
                           /\ old[ip].block /\ ~ new[ip].block})
  \cup Of("alerta_conflito_ip", {ip \in stayed : conflict(old[ip].mac, new[ip].mac)})
  \cup Of("porta_nova", {ip \in stayed : opened(old[ip], new[ip])})

\* The vendors of devices that left while isolated: suspects from now on.
fled(old, new) ==
  {v \in Vendor : \E ip \in Left(old, new) : old[ip].isolated /\ old[ip].mac \in v}

\* The scan ends; unless it is the first it is compared, and then remembered.
\* Arrivals are looked at before departures.
detectChanges ==
  LET old == previous
      new == scan.found
      recorded == healthEvents(old, new) \cup arrivalEvents(old, new)
                  \cup changeEvents(old, new)
                  \cup Of("dispositivo_saiu", Left(old, new))
  IN
  /\ scan.active /\ scan.queue = {} /\ scan.checking = {}
  /\ previous' = new
  /\ scan' = NoScan
  /\ firstScan' = FALSE
  /\ events' = IF firstScan THEN {} ELSE recorded
  /\ evasionCandidates' =
       IF firstScan THEN evasionCandidates ELSE evasionCandidates \cup fled(old, new)
  /\ known' = IF firstScan THEN known ELSE known \cup markSeen(old, new)
  /\ announced' = announced \cup
       ({new[ip].mac : ip \in {i \in Hosts(new) : <<"novo_dispositivo", i>> \in events'}}
          \ {NoMAC})
  /\ UNCHANGED <<world, changes>>

\* evasionWindow has passed since the last such departure.
windowPasses(v) ==
  /\ v \in evasionCandidates
  /\ evasionCandidates' = evasionCandidates \ {v}
  /\ UNCHANGED <<world, known, firstScan, previous, events, announced, scan, changes>>

-----------------------------------------------------------------------------
(* What changes meanwhile *)

Happens(kind) ==
  /\ kind \in Change
  /\ changes < MaxChanges
  /\ changes' = changes + 1
  /\ UNCHANGED <<memory, scan>>

\* A device comes, goes, or takes over another's address.
ownerChanges(ip, device) ==
  /\ Happens("owner")
  /\ device \in (At(ip) \cup {None}) \ {owner[ip]}
  /\ owner' = [owner EXCEPT ![ip] = device]
  /\ UNCHANGED <<open, trusted, isolations, rules>>

portChanges(device) ==
  /\ Happens("port")
  /\ open' = IF device \in open THEN open \ {device} ELSE open \cup {device}
  /\ UNCHANGED <<owner, trusted, isolations, rules>>

setTrusted(mac) ==
  /\ Happens("trust")
  /\ trusted' = IF mac \in trusted THEN trusted \ {mac} ELSE trusted \cup {mac}
  /\ UNCHANGED <<owner, open, isolations, rules>>

\* The rules are there before the map says so (module Containment).  Without a MAC
\* there is nobody to poison, and nothing is isolated.
isolateDevice(ip) ==
  /\ Happens("isolate")
  /\ owner[ip] \in MAC /\ ip \notin isolations
  /\ isolations' = isolations \cup {ip}
  /\ rules' = rules \cup {ip}
  /\ UNCHANGED <<owner, open, trusted>>

\* The map forgets the device first, its rules go later.
reconnectDevice(ip) ==
  /\ Happens("reconnect")
  /\ ip \in isolations
  /\ isolations' = isolations \ {ip}
  /\ UNCHANGED <<owner, open, trusted, rules>>

unblockForwarding(ip) ==
  /\ ip \in rules \ isolations
  /\ rules' = rules \ {ip}
  /\ UNCHANGED <<owner, open, trusted, isolations, memory, scan, changes>>

flushRules ==
  /\ Happens("flush")
  /\ rules # {}
  /\ rules' = {}
  /\ UNCHANGED <<owner, open, trusted, isolations>>

-----------------------------------------------------------------------------
look == \E ip \in IP : examine(ip) \/ checkBlock(ip)

Next ==
  \/ beginScan \/ look \/ detectChanges
  \/ \E v \in Vendor : windowPasses(v)
  \/ \E ip \in IP, device \in Device \cup {None} : ownerChanges(ip, device)
  \/ \E device \in Device : portChanges(device)
  \/ \E mac \in MAC : setTrusted(mac)
  \/ \E ip \in IP : isolateDevice(ip) \/ reconnectDevice(ip) \/ unblockForwarding(ip)
  \/ flushRules

Spec == Init /\ [][Next]_vars

\* The loop scans for ever, every scan ends, every reconnection removes its rules.
Fairness ==
  /\ WF_vars(beginScan) /\ WF_vars(look) /\ WF_vars(detectChanges)
  /\ \A ip \in IP : WF_vars(unblockForwarding(ip))

FairSpec == Spec /\ Fairness

-----------------------------------------------------------------------------
(* Correctness *)

TypeOK ==
  /\ owner \in Owners
  /\ open \subseteq Device
  /\ trusted \subseteq MAC
  /\ isolations \subseteq IP /\ rules \subseteq IP
  /\ known \subseteq MAC
  /\ evasionCandidates \subseteq Vendor
  /\ firstScan \in BOOLEAN
  /\ previous \in Results
  /\ scan \in ScanState
  /\ scan.queue \cup scan.checking \subseteq Hosts(scan.found)
  /\ events \subseteq EventType \X (IP \cup {None})
  /\ announced \subseteq MAC
  /\ changes \in 0 .. MaxChanges

\* A device that the inventory held at startup, or that an earlier comparison reported
\* as new, is not reported as new again, however it leaves, comes back or changes
\* address between two scans or in the middle of one.  One comparison that finds a
\* new device at two addresses does report both, and a host without a MAC is new each
\* time (monitoring.go, detectChanges against markSeen; inventory.go, alreadyKnown).
NeverNewAgain ==
  [][detectChanges => \A ip \in Hosts(previous') :
       <<"novo_dispositivo", ip>> \in events'
         => previous'[ip].mac \notin announced \cup Inventory]_vars

\* A device the inventory does not hold, at an address the last scan found
\* empty, is reported as new, unless it goes first (monitoring.go, detectChanges:
\* devices are not marked as known before deciding whether they are new); a host
\* without a MAC too, every time it comes.
NewcomerAnnounced ==
  \A ip \in IP : \A device \in At(ip) :
    /\ ~ firstScan /\ ~ scan.active
    /\ ip \notin Hosts(previous) /\ owner[ip] = device /\ macOf(device) \notin known
    ~> <<"novo_dispositivo", ip>> \in events \/ owner[ip] # device

\* Rules that the last scan saw in place, and that vanish while the device stays
\* isolated, are reported (monitoring.go, detectChanges: alerta_bloqueio).
LostBlockReported ==
  \A ip \in IP \ Extra :
    /\ ~ scan.active /\ ip \in Hosts(previous)
    /\ previous[ip].isolated /\ previous[ip].block
    /\ ip \in isolations \ rules
    ~> \/ <<"alerta_bloqueio", ip>> \in events
       \/ ip \in rules \/ ip \notin isolations \/ owner[ip] = None

\* An untrusted device's port that the last scan found closed, and that is open
\* now, is reported unless it closes (monitoring.go, detectChanges: porta_nova).
OpeningReported ==
  \A ip \in IP :
    /\ ~ scan.active /\ ip \in Hosts(previous) /\ ~ previous[ip].open
    /\ owner[ip] \in open \ trusted
    ~> <<"porta_nova", ip>> \in events \/ owner[ip] \notin open \ trusted

\* Of a vendor that is suspected, every device that turns up within the window
\* is reported, known or not (monitoring.go, evasionCandidates).
SuspectReported ==
  \A ip \in IP \ Extra, v \in Vendor : \A mac \in v :
    /\ ~ scan.active /\ v \in evasionCandidates
    /\ ip \notin Hosts(previous) /\ owner[ip] = mac
    ~> \/ <<"alerta_evasao", ip>> \in events
       \/ owner[ip] # mac \/ v \notin evasionCandidates

-----------------------------------------------------------------------------
\* Why NeverNewAgain holds: whatever was reported as new was also remembered.
AnnouncedAreKnown == announced \cup Inventory \subseteq known

=============================================================================
