------------------------------- MODULE Spoofing -------------------------------
(***************************************************************************)
(* ARP spoofing by third parties (spoofing.go): every scan compares the    *)
(* table it read at its start with what earlier scans reported.            *)
(*                                                                         *)
(* Scans overlap: the loop's and those of the handlers.  A flag is changed *)
(* under its mutex; the alert for a duplicated MAC is recorded after that  *)
(* mutex was released, the one about the router before.  An event is       *)
(* reduced to whom it is about.                                            *)
(*                                                                         *)
(* A definition X_Y just above a definition X is X with a mistake in it;   *)
(* the specification does not use it.                                      *)
(***************************************************************************)
EXTENDS Integers, FiniteSets

CONSTANTS
  IP,          \* addresses of devices
  Router,      \* network.Gateway
  MAC,         \* hardware addresses
  RouterMAC,   \* network.GatewayMAC, learned at startup
  OurMAC,      \* network.MAC
  None,        \* no MAC
  Loop,        \* the goroutine of startContinuousMonitoring
  Handler,     \* goroutines that serve the dashboard
  MaxChanges   \* bound: how many entries of the ARP table change

Scanner == Handler \cup {Loop}

ASSUME AddressAssumption ==
  /\ Router \notin IP
  /\ RouterMAC \in MAC
  /\ None \notin MAC
  /\ IsFiniteSet(IP)

ASSUME BoundAssumption == MaxChanges \in Nat

VARIABLES
  arp,                   \* this machine's ARP table
  scan,                  \* each goroutine's progress through its scan
  suspectGatewayMAC,
  reportedDuplicateMACs,
  gatewayVerdict,        \* history: the MAC that the last event about the router names
  announced,             \* history: MACs reported as duplicated and not cleared since
  changes                \* how many entries changed

vars == <<arp, scan, suspectGatewayMAC, reportedDuplicateMACs, gatewayVerdict, announced,
          changes>>

Table == [IP \cup {Router} -> MAC \cup {None}]
NoTable == [ip \in IP \cup {Router} |-> None]

\* left: MACs still to be counted; alert: the one to be reported.
ScanState == [phase : {"idle", "gateway", "duplicates"}, table : Table,
              left : SUBSET MAC, alert : MAC \cup {None}]
NoScan == [phase |-> "idle", table |-> NoTable, left |-> {}, alert |-> None]

Init ==
  /\ arp \in {table \in Table : table[Router] = RouterMAC}
  /\ scan = [s \in Scanner |-> NoScan]
  /\ suspectGatewayMAC = None
  /\ reportedDuplicateMACs = {}
  /\ gatewayVerdict = RouterMAC
  /\ announced = {}
  /\ changes = 0

-----------------------------------------------------------------------------
(* A scan: checkGatewaySpoofing, then detectDuplicateMAC, on one table *)

readARPTable(s) ==
  /\ scan[s] = NoScan
  /\ scan' = [scan EXCEPT ![s].phase = "gateway", ![s].table = arp]
  /\ UNCHANGED <<arp, suspectGatewayMAC, reportedDuplicateMACs, gatewayVerdict, announced,
                 changes>>

\* The addresses a MAC answers for; the router's is not counted.
ipsByMAC(table, mac) == {ip \in IP : table[ip] = mac}

CountedMACs_Incomplete(table) == {table[ip] : ip \in IP} \ {RouterMAC, OurMAC}

\* The MACs that are counted.
CountedMACs(table) ==
  {mac \in MAC \ {RouterMAC, OurMAC} : ipsByMAC(table, mac) # {}}

suspectAfter_Kept(current) ==
  IF current = RouterMAC THEN suspectGatewayMAC ELSE current

suspectAfter(current) == IF current = RouterMAC THEN None ELSE current

\* One hold of arpSpoofMu: an event on every change of suspect, there and back.
checkGatewaySpoofing(s) ==
  LET current == scan[s].table[Router] IN
  /\ scan[s].phase = "gateway"
  /\ scan' = [scan EXCEPT ![s].phase = "duplicates", ![s].left = CountedMACs(scan[s].table)]
  /\ \/ /\ current = None \/ suspectAfter(current) = suspectGatewayMAC
        /\ UNCHANGED <<suspectGatewayMAC, gatewayVerdict>>
     \/ /\ current # None /\ suspectAfter(current) # suspectGatewayMAC
        /\ suspectGatewayMAC' = suspectAfter(current)
        /\ gatewayVerdict' = current
  /\ UNCHANGED <<arp, reportedDuplicateMACs, announced, changes>>

\* One hold of arpDupMu for a MAC, in any order of the MACs.
detectDuplicateMAC_Once(s, mac) ==
  LET duplicated == Cardinality(ipsByMAC(scan[s].table, mac)) >= 2
      new == duplicated /\ mac \notin reportedDuplicateMACs IN
  /\ scan[s].phase = "duplicates" /\ scan[s].alert = None /\ mac \in scan[s].left
  /\ scan' = [scan EXCEPT ![s].left = @ \ {mac}, ![s].alert = IF new THEN mac ELSE None]
  /\ reportedDuplicateMACs' = IF new THEN reportedDuplicateMACs \cup {mac}
                              ELSE reportedDuplicateMACs
  /\ announced' = announced
  /\ UNCHANGED <<arp, suspectGatewayMAC, gatewayVerdict, changes>>

detectDuplicateMAC(s, mac) ==
  LET duplicated == Cardinality(ipsByMAC(scan[s].table, mac)) >= 2
      new == duplicated /\ mac \notin reportedDuplicateMACs
      cleared == IF duplicated THEN {} ELSE {mac} \cap reportedDuplicateMACs IN
  /\ scan[s].phase = "duplicates" /\ scan[s].alert = None /\ mac \in scan[s].left
  /\ scan' = [scan EXCEPT ![s].left = @ \ {mac}, ![s].alert = IF new THEN mac ELSE None]
  /\ reportedDuplicateMACs' = IF new THEN reportedDuplicateMACs \cup {mac}
                              ELSE reportedDuplicateMACs \ cleared
  /\ announced' = announced \ cleared
  /\ UNCHANGED <<arp, suspectGatewayMAC, gatewayVerdict, changes>>

\* recordEvent, after arpDupMu was released.
reportDuplicate(s) ==
  /\ scan[s].alert # None
  /\ announced' = announced \cup {scan[s].alert}
  /\ scan' = [scan EXCEPT ![s].alert = None]
  /\ UNCHANGED <<arp, suspectGatewayMAC, reportedDuplicateMACs, gatewayVerdict, changes>>

endDetection(s) ==
  /\ scan[s].phase = "duplicates" /\ scan[s].left = {} /\ scan[s].alert = None
  /\ scan' = [scan EXCEPT ![s] = NoScan]
  /\ UNCHANGED <<arp, suspectGatewayMAC, reportedDuplicateMACs, gatewayVerdict, announced,
                 changes>>

-----------------------------------------------------------------------------
\* An address gets another owner, poisoned or not, or leaves the table.
ownerChanges(ip, mac) ==
  /\ changes < MaxChanges /\ changes' = changes + 1
  /\ arp[ip] # mac
  /\ arp' = [arp EXCEPT ![ip] = mac]
  /\ UNCHANGED <<scan, suspectGatewayMAC, reportedDuplicateMACs, gatewayVerdict, announced>>

ScanStep(s) ==
  \/ checkGatewaySpoofing(s)
  \/ \E mac \in MAC : detectDuplicateMAC(s, mac)
  \/ reportDuplicate(s)
  \/ endDetection(s)

Next ==
  \/ \E s \in Scanner : readARPTable(s) \/ ScanStep(s)
  \/ \E ip \in IP \cup {Router}, mac \in MAC \cup {None} : ownerChanges(ip, mac)

Spec == Init /\ [][Next]_vars

\* The loop scans again and again (its sleep is finite) and a scan that began
\* ends.  Nobody need open the dashboard, and nothing need change.
Fairness ==
  /\ WF_vars(readARPTable(Loop))
  /\ \A s \in Scanner : WF_vars(ScanStep(s))

FairSpec == Spec /\ Fairness

-----------------------------------------------------------------------------
(* Properties *)

\* Every variable stays in its domain.  In particular only the MACs of other
\* devices are counted, so that no flag and no alert is ever about this
\* machine, the router, or an address nobody answers for (spoofing.go:71-77).
TypeOK ==
  /\ arp \in Table
  /\ scan \in [Scanner -> ScanState]
  /\ \A s \in Scanner :
       /\ scan[s].left \subseteq MAC \ {RouterMAC, OurMAC}
       /\ scan[s].alert \in (MAC \ {RouterMAC, OurMAC}) \cup {None}
  /\ suspectGatewayMAC \in (MAC \ {RouterMAC}) \cup {None}
  /\ reportedDuplicateMACs \subseteq MAC \ {RouterMAC, OurMAC}
  /\ gatewayVerdict \in MAC
  /\ announced \subseteq MAC \ {RouterMAC, OurMAC}
  /\ changes \in 0..MaxChanges

\* Whichever MAC answers for the router for good, the attack and its end both
\* included, is the one that the last event about the router names: however
\* the scans overlapped, an attacker that stays is reported, and one that gave
\* up is reported as resolved (spoofing.go:35-48).
GatewayVerdict ==
  \A mac \in MAC : <>[](arp[Router] = mac) => <>[](gatewayVerdict = mac)

\* The number of addresses that a MAC answers for decides in the end: with two
\* or more for good it has been reported and will not be again, with exactly
\* one it is no longer flagged, so that its next attack is reported
\* (spoofing.go:79-94).
DuplicatesFollowed ==
  \A mac \in MAC \ {RouterMAC, OurMAC} :
    /\ <>[](Cardinality(ipsByMAC(arp, mac)) >= 2)
         => <>[](mac \in reportedDuplicateMACs \cap announced)
    /\ <>[](Cardinality(ipsByMAC(arp, mac)) = 1)
         => <>[](mac \notin reportedDuplicateMACs)

=============================================================================
