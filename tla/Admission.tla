------------------------------- MODULE Admission -------------------------------
(***************************************************************************)
(* Network admission control: the monitoring loop and the dashboard's      *)
(* handlers scan the subnet and publish results in one cache               *)
(* (monitoring.go, dashboard.go); the policy goroutine judges the cached   *)
(* results and isolates on its own (nac.go), against the inventory of      *)
(* known devices (inventory.go) and the list of trusted ones (trust.go).   *)
(*                                                                         *)
(* Every Scanner runs scanNetwork: it reads the ARP table once, and then   *)
(* examines its hosts side by side, each in two steps, for the trust list  *)
(* is read seconds before the isolations are.  Nothing orders the scans of *)
(* two goroutines, nor a scan and the policy: the code has three clocks.   *)
(*                                                                         *)
(* An isolation is one step here, the set of isolated addresses is all     *)
(* that is left of it; module Containment has the steps it is made of.     *)
(* What detectChanges writes to the history is output that no step below   *)
(* reads back, and so is the JSON each list is saved to; a run starts from *)
(* any inventory and any trust list a file may hold.  Of the three levels  *)
(* of risk the policy asks for one: "baixo" stands for what is not "alto". *)
(*                                                                         *)
(* A definition X_Y just above a definition X is X with a mistake in it;   *)
(* the specification does not use it.                                      *)
(***************************************************************************)
EXTENDS Integers, FiniteSets

CONSTANTS
  IP,            \* the addresses a scan can find, this machine's and the
                 \* router's excepted
  Outside,       \* those of them in a network of REDES_EXTRAS
  MAC,           \* hardware addresses
  Protected,     \* the router's and this machine's
  Exposed,       \* the devices, and the hosts of Outside, with a high risk service
  None,          \* no address, no device
  Loop,          \* the goroutine of startContinuousMonitoring
  Handler,       \* goroutines that serve the dashboard
  Mode,          \* policyMode
  LearningScans, \* how many scans of the loop the learning window outlasts
  Input,         \* which of InputKind happen
  MaxMoves       \* bound: how often the owner of one address changes

policyModes == {"off", "simular", "aplicar"}

\* What people ask of the dashboard.
InputKind == {"refresh", "trust", "isolate", "reconnect"}

ASSUME AddressAssumption ==
  /\ Outside \subseteq IP
  /\ Protected \subseteq MAC /\ Exposed \subseteq MAC \cup Outside
  /\ None \notin IP \cup MAC

ASSUME ScannerAssumption == Loop \notin Handler

ASSUME PolicyAssumption ==
  /\ Mode \in policyModes
  /\ LearningScans \in Nat /\ MaxMoves \in Nat
  /\ Input \subseteq InputKind

Scanner == Handler \cup {Loop}

VARIABLES
  arp,         \* this machine's ARP table
  known,       \* knownDevices: the hardware addresses of the inventory
  trusted,     \* the hardware addresses marked as trusted
  isolations,  \* the addresses isolated now
  cache,       \* lastResults
  scan,        \* each scanner's progress through refreshCache
  laps,        \* scans the loop has finished, counted up to LearningScans + 1
  learning,    \* has the learning window not passed yet
  policy,      \* the progress of applyPolicy
  moves        \* history: how often the owner of each address has changed

network == <<arp, moves>>
lists == <<known, trusted>>
vars == <<network, lists, isolations, cache, scan, laps, learning, policy>>

-----------------------------------------------------------------------------
(* State shapes *)

Result == [mac : MAC \cup {None}, trusted : BOOLEAN,
           risk : {"baixo", "alto"}, isolated : BOOLEAN]

ASSUME NoneAssumption == None \notin Result

\* What a scan knows of each address; None where no host answered.
Results == [IP -> Result \cup {None}]
Nothing == [ip \in IP |-> None]

Hosts(results) == {ip \in IP : results[ip] # None}

\* queue: hosts not looked at yet; checking: hosts whose isolation is not read.
ScanState == [phase : {"idle", "scan", "detect"}, found : Results,
              queue : SUBSET IP, checking : SUBSET IP]

NoScan == [phase |-> "idle", found |-> Nothing, queue |-> {}, checking |-> {}]

\* todo: the results not judged yet; target: the device just denied, and why.
PolicyState == [todo : Results, target : IP \cup {None},
                reason : {"none", "unknown", "risk"}]

NoVerdict == [todo |-> Nothing, target |-> None, reason |-> "none"]

Init ==
  /\ arp \in [IP -> MAC \cup {None}]
  /\ \A ip \in Outside : arp[ip] = None
  /\ moves = [ip \in IP |-> 0]
  /\ known \in SUBSET MAC
  /\ trusted \in SUBSET MAC
  /\ isolations = {}
  /\ cache = Nothing
  /\ scan = [s \in Scanner |-> NoScan]
  /\ laps = 0
  /\ learning = TRUE
  /\ policy = NoVerdict

-----------------------------------------------------------------------------
(* refreshCache: scanNetwork, then lastResults is replaced *)

\* The hosts in the ARP table, and those of other networks, which have no entry.
activeHosts == {ip \in IP : arp[ip] # None} \cup Outside

beginScan(s) ==
  scan' = [scan EXCEPT ![s] =
    [phase |-> "scan", queue |-> activeHosts, checking |-> {},
     found |-> [ip \in IP |->
       IF ip \in activeHosts
       THEN [mac |-> arp[ip], trusted |-> FALSE, risk |-> "baixo", isolated |-> FALSE]
       ELSE None]]]

isTrusted_AsWritten(mac) == FALSE
isTrusted(mac) == mac # None /\ mac \in trusted

\* Trust is read, and only a device without it has its ports scanned.
identify(s, ip) ==
  LET mac == scan[s].found[ip].mac
      exposed == ~ isTrusted(mac) /\ {mac, ip} \cap Exposed # {}
  IN
  /\ ip \in scan[s].queue
  /\ scan' = [scan EXCEPT ![s] =
       [phase |-> "scan",
        queue |-> scan[s].queue \ {ip}, checking |-> scan[s].checking \cup {ip},
        found |-> [scan[s].found EXCEPT ![ip] =
          [mac |-> mac, trusted |-> isTrusted(mac), isolated |-> FALSE,
           risk |-> IF exposed THEN "alto" ELSE "baixo"]]]]
  /\ UNCHANGED <<network, lists, isolations, cache, laps, learning, policy>>

\* Later, the map of isolations.
inspect(s, ip) ==
  /\ ip \in scan[s].checking
  /\ LET r == scan[s].found[ip] IN
       scan' = [scan EXCEPT ![s] =
         [phase |-> "scan",
          queue |-> scan[s].queue, checking |-> scan[s].checking \ {ip},
          found |-> [scan[s].found EXCEPT ![ip] =
            [mac |-> r.mac, trusted |-> r.trusted, risk |-> r.risk,
             isolated |-> ip \in isolations]]]]
  /\ UNCHANGED <<network, lists, isolations, cache, laps, learning, policy>>

\* The results replace those of whatever scan ended last, older or newer.
publish(s) ==
  /\ scan[s].phase = "scan"
  /\ scan[s].queue = {} /\ scan[s].checking = {}
  /\ cache' = scan[s].found
  /\ scan' = [scan EXCEPT ![s] =
                IF s = Loop THEN [scan[s] EXCEPT !.phase = "detect"] ELSE NoScan]
  /\ UNCHANGED <<network, lists, isolations, laps, learning, policy>>

-----------------------------------------------------------------------------
(* startContinuousMonitoring *)

loopScans ==
  /\ scan[Loop].phase = "idle"
  /\ beginScan(Loop)
  /\ UNCHANGED <<network, lists, isolations, cache, laps, learning, policy>>

\* The addresses detectChanges enters in the inventory, whatever it found of them.
markSeen(results) == {results[ip].mac : ip \in Hosts(results)} \ {None}

detectChanges_StillFirst ==
  /\ scan[Loop].phase = "detect"
  /\ laps' = IF laps <= LearningScans THEN laps + 1 ELSE laps
  /\ scan' = [scan EXCEPT ![Loop] = NoScan]
  /\ UNCHANGED <<network, lists, isolations, cache, learning, policy>>

\* The first scan has none before it and is not compared, so not remembered
\* either; every later one is, after the policy could first read it.
detectChanges ==
  /\ scan[Loop].phase = "detect"
  /\ known' = IF laps = 0 THEN known ELSE known \cup markSeen(scan[Loop].found)
  /\ laps' = IF laps <= LearningScans THEN laps + 1 ELSE laps
  /\ scan' = [scan EXCEPT ![Loop] = NoScan]
  /\ UNCHANGED <<network, trusted, isolations, cache, learning, policy>>

learningEnds_Early ==
  /\ learning
  /\ laps + 1 >= LearningScans
  /\ learning' = FALSE
  /\ UNCHANGED <<network, lists, isolations, cache, scan, laps, policy>>

\* The window is time, and the scans it outlasts are the loop's.
learningEnds ==
  /\ learning
  /\ laps >= LearningScans
  /\ learning' = FALSE
  /\ UNCHANGED <<network, lists, isolations, cache, scan, laps, policy>>

-----------------------------------------------------------------------------
(* The dashboard's handlers: each changes its list, then scans *)

refreshHandler(h) ==
  /\ "refresh" \in Input
  /\ scan[h].phase = "idle"
  /\ beginScan(h)
  /\ UNCHANGED <<network, lists, isolations, cache, laps, learning, policy>>

\* The device is the one the ARP table names now.
trustHandler(h, ip, value) ==
  /\ "trust" \in Input
  /\ scan[h].phase = "idle"
  /\ arp[ip] # None
  /\ trusted' = IF value THEN trusted \cup {arp[ip]} ELSE trusted \ {arp[ip]}
  /\ beginScan(h)
  /\ UNCHANGED <<network, known, isolations, cache, laps, learning, policy>>

\* isolateByIP: the ARP table is read again, isolateDevice checks the rest.
isolable(ip) ==
  arp[ip] # None /\ arp[ip] \notin Protected /\ ip \notin isolations

isolateHandler(h, ip) ==
  /\ "isolate" \in Input
  /\ scan[h].phase = "idle"
  /\ isolable(ip)
  /\ isolations' = isolations \cup {ip}
  /\ beginScan(h)
  /\ UNCHANGED <<network, lists, cache, laps, learning, policy>>

reconnectHandler(h, ip) ==
  /\ "reconnect" \in Input
  /\ scan[h].phase = "idle"
  /\ ip \in isolations
  /\ isolations' = isolations \ {ip}
  /\ beginScan(h)
  /\ UNCHANGED <<network, lists, cache, laps, learning, policy>>

\* The watcher ends an isolation whose deadline, if it has one, has passed.
deadlinePasses(ip) ==
  /\ ip \in isolations
  /\ isolations' = isolations \ {ip}
  /\ UNCHANGED <<network, lists, cache, scan, laps, learning, policy>>

-----------------------------------------------------------------------------
(* applyPolicy *)

\* Each tick judges what the cache held at its start; there is none while the
\* policy is off, and none judges while learning.
applyPolicy ==
  /\ Mode # "off" /\ ~ learning
  /\ policy = NoVerdict
  /\ Hosts(cache) # {}
  /\ policy' = [NoVerdict EXCEPT !.todo = cache]
  /\ UNCHANGED <<network, lists, isolations, cache, scan, laps, learning>>

evaluateAdmission_KnownPasses(ip, r) ==
  IF r.trusted \/ ip \in Outside \/ r.mac \in known \cup {None} THEN "none" ELSE "unknown"

\* Why a cached result is denied, if it is; the inventory is read as it is now.
evaluateAdmission(ip, r) ==
  IF r.trusted \/ ip \in Outside \/ r.mac = None THEN "none"
  ELSE IF r.mac \notin known THEN "unknown"
  ELSE IF r.risk = "alto" THEN "risk" ELSE "none"

\* Isolated and protected devices are passed over, in simulation all are.
judge(ip) ==
  /\ policy.target = None
  /\ ip \in Hosts(policy.todo)
  /\ LET r == policy.todo[ip]
         spared == r.isolated \/ r.mac \in Protected
         reason == IF spared THEN "none" ELSE evaluateAdmission(ip, r)
         denied == Mode = "aplicar" /\ reason # "none"
     IN  policy' = [todo   |-> [policy.todo EXCEPT ![ip] = None],
                    target |-> IF denied THEN ip ELSE None,
                    reason |-> IF denied THEN reason ELSE "none"]
  /\ UNCHANGED <<network, lists, isolations, cache, scan, laps, learning>>

\* The denied device is isolated for policyDuration, or the order fails.
enforce ==
  /\ policy.target # None
  /\ isolations' = IF isolable(policy.target)
                   THEN isolations \cup {policy.target} ELSE isolations
  /\ policy' = [NoVerdict EXCEPT !.todo = policy.todo]
  /\ UNCHANGED <<network, lists, cache, scan, laps, learning>>

-----------------------------------------------------------------------------
\* A device comes, goes, or takes over another's address.
ownerChanges(ip, mac) ==
  /\ moves[ip] < MaxMoves
  /\ ip \notin Outside
  /\ arp[ip] # mac
  /\ arp' = [arp EXCEPT ![ip] = mac]
  /\ moves' = [moves EXCEPT ![ip] = @ + 1]
  /\ UNCHANGED <<lists, isolations, cache, scan, laps, learning, policy>>

examine(s) == publish(s) \/ \E ip \in IP : identify(s, ip) \/ inspect(s, ip)

decide == enforce \/ \E ip \in IP : judge(ip)

Request(h) ==
  \/ refreshHandler(h)
  \/ \E ip \in IP : \/ \E value \in BOOLEAN : trustHandler(h, ip, value)
                    \/ isolateHandler(h, ip)
                    \/ reconnectHandler(h, ip)

Next ==
  \/ loopScans \/ detectChanges \/ learningEnds
  \/ \E s \in Scanner : examine(s)
  \/ \E h \in Handler : Request(h)
  \/ \E ip \in IP : deadlinePasses(ip)
  \/ applyPolicy \/ decide
  \/ \E ip \in IP, mac \in MAC \cup {None} : ownerChanges(ip, mac)

Spec == Init /\ [][Next]_vars

\* The loop and the policy tick for ever, scans end, time passes.  Nobody has
\* to open the dashboard and no device has to move.
Fairness ==
  /\ WF_vars(loopScans) /\ WF_vars(detectChanges) /\ WF_vars(learningEnds)
  /\ \A s \in Scanner : WF_vars(examine(s))
  /\ WF_vars(applyPolicy) /\ WF_vars(decide)

FairSpec == Spec /\ Fairness

-----------------------------------------------------------------------------
(* Correctness *)

TypeOK ==
  /\ arp \in [IP -> MAC \cup {None}]
  /\ moves \in [IP -> 0 .. MaxMoves]
  /\ known \subseteq MAC
  /\ trusted \subseteq MAC
  /\ isolations \subseteq IP
  /\ cache \in Results
  /\ scan \in [Scanner -> ScanState]
  /\ laps \in 0 .. LearningScans + 1
  /\ learning \in BOOLEAN
  /\ policy \in PolicyState

\* The learning window lets the inventory fill from what is already there: a
\* device that has kept its address since startup is never about to be isolated
\* for being unknown, whichever scan filled the cache the policy judged (nac.go,
\* the comment on learningWindow, against the first scan that detectChanges
\* does not remember).
GraceCoversResidents ==
  policy.reason = "unknown" => moves[policy.target] > 0

\* While the policy is enforced, an exposed and untrusted device that stays is
\* isolated, and again after each deadline, whatever other devices the cache
\* lists before it (nac.go, applyPolicy).
ExposedIsContained ==
  Mode = "aplicar" => \A ip \in IP \ Outside, mac \in Exposed \ Protected :
    <>[](arp[ip] = mac /\ mac \notin trusted) => []<>(ip \in isolations)

\* Trust takes effect in the end, although overlapping scans overwrite each
\* other's results: of a trusted device that stays, the cache names the owner
\* and the trust from some time on, and the policy never denies it again
\* (trust.go, isTrusted, through refreshCache to applyPolicy).
TrustTakesEffect ==
  \A ip \in IP \ Outside, mac \in MAC :
    <>[](arp[ip] = mac /\ mac \in trusted)
      => <>[](/\ cache[ip] # None /\ cache[ip].mac = mac /\ cache[ip].trusted
              /\ policy.target # ip)

\* "A known device gets in, an unknown one does not": with the policy enforced
\* and the learning over, an unknown device that stays is isolated, unless it
\* is given trust (nac.go, the comment at the top, README.md:117-118).
UnknownIsDenied ==
  Mode = "aplicar" => \A ip \in IP \ Outside, mac \in MAC \ Protected :
    arp[ip] = mac /\ mac \notin known \cup trusted /\ ~ learning
      ~> ip \in isolations \/ arp[ip] # mac \/ mac \in trusted

-----------------------------------------------------------------------------
(* Why GraceCoversResidents holds.  The loop's first scan is not remembered, *)
(* so one scan is not enough; with two, a device that never moved was in the *)
(* second, and every result there is of its address names it.                *)

Resident(ip) == moves[ip] = 0 /\ arp[ip] # None

\* A scan examines the hosts it found, and the policy has no target it did not
\* deny.
ExaminesHosts ==
  /\ \A s \in Scanner :
       /\ scan[s].queue \cup scan[s].checking \subseteq Hosts(scan[s].found)
       /\ scan[s].phase # "scan" => scan[s].queue \cup scan[s].checking = {}
  /\ policy.reason # "none" => policy.target \in IP

\* Whatever a scan, the cache or the policy holds of an address that has not
\* changed hands is about its owner.
NamesOwner(results) ==
  \A ip \in Hosts(results) : moves[ip] = 0 => results[ip].mac = arp[ip]

ResultsNameOwners ==
  /\ NamesOwner(cache)
  /\ NamesOwner(policy.todo)
  /\ \A s \in Scanner : NamesOwner(scan[s].found)

\* The loop's scan holds every resident, and the second puts them all in the
\* inventory.
LoopRemembersResidents ==
  \A ip \in IP : Resident(ip) =>
    /\ scan[Loop].phase # "idle" => ip \in Hosts(scan[Loop].found)
    /\ laps >= 2 => arp[ip] \in known

\* The policy judges only once the window has outlasted its scans.
PolicyAwaitsScans ==
  /\ ~ learning => laps >= LearningScans
  /\ policy # NoVerdict => ~ learning

\* The inductive invariant behind GraceCoversResidents (startContinuousMonitoring
\* and markSeen against learningWindow).
GraceInv ==
  /\ TypeOK
  /\ ExaminesHosts
  /\ ResultsNameOwners
  /\ LoopRemembersResidents
  /\ PolicyAwaitsScans
  /\ GraceCoversResidents

=============================================================================
