--------------------------- MODULE MonitoringProofs ---------------------------
(***************************************************************************)
(* What the comparison of scans promises for any number of devices,        *)
(* addresses, vendors and changes: its state keeps its shape, no device    *)
(* that the inventory held or that an earlier comparison reported as new   *)
(* is reported as new again, a trusted one raises no alert about its       *)
(* ports, and a block that nobody broke is not reported as broken.         *)
(***************************************************************************)
EXTENDS Monitoring, TLAPS

\* What a scan found of a host is a Result.
LEMMA HostResult ==
  ASSUME NEW results \in Results, NEW ip \in Hosts(results)
  PROVE  ip \in IP /\ results[ip] \in Result /\ results[ip].mac \in MAC \cup {NoMAC}
BY DEF Results, Hosts, Result

\* Only hosts that answered enter the inventory, under their hardware address.
LEMMA MarkSeenType ==
  ASSUME NEW old \in Results, NEW new \in Results
  PROVE  markSeen(old, new) \subseteq MAC
BY HostResult DEF markSeen

\* Whatever a comparison records is an event about an address, or about none.
LEMMA EventsType ==
  ASSUME NEW old \in Results, NEW new \in Results
  PROVE  healthEvents(old, new) \cup arrivalEvents(old, new)
           \cup changeEvents(old, new) \cup Of("dispositivo_saiu", Left(old, new))
         \subseteq EventType \X (IP \cup {None})
<1> DEFINE Event == EventType \X (IP \cup {None})
<1>1. \A type \in EventType : \A ips \in SUBSET (IP \cup {None}) : Of(type, ips) \subseteq Event
  BY DEF Of
<1>2. healthEvents(old, new) \subseteq Event
  <2>1. "alerta_saude_rede" \in EventType
    BY DEF EventType
  <2>2. Of("alerta_saude_rede", {None}) \subseteq Event
    BY <1>1, <2>1
  <2>3. QED BY <2>2 DEF healthEvents
<1>3. Hosts(old) \subseteq IP /\ Hosts(new) \subseteq IP
  BY DEF Hosts
<1>4. arrivalEvents(old, new) \subseteq Event
  <2> DEFINE appeared == Appeared(old, new)
             back == {ip \in appeared : alreadyKnown(new[ip].mac)}
             suspect == {ip \in appeared : suspectVendor(new[ip].mac)}
  <2>1. /\ suspect \in SUBSET (IP \cup {None})
        /\ back \in SUBSET (IP \cup {None})
        /\ appeared \ back \in SUBSET (IP \cup {None})
    BY <1>3 DEF Appeared
  <2>2. /\ "alerta_evasao" \in EventType /\ "dispositivo_voltou" \in EventType
        /\ "novo_dispositivo" \in EventType
    BY DEF EventType
  <2>3. arrivalEvents(old, new) =
          Of("alerta_evasao", suspect) \cup Of("dispositivo_voltou", back)
            \cup Of("novo_dispositivo", appeared \ back)
    BY Zenon DEF arrivalEvents
  <2> HIDE DEF appeared, back, suspect
  <2>4. QED BY <1>1, <2>1, <2>2, <2>3
<1>5. changeEvents(old, new) \subseteq Event
  <2> DEFINE risk == {ip \in Stayed(old, new) :
                        old[ip].open # new[ip].open /\ ~ new[ip].trusted}
             block == {ip \in Stayed(old, new) :
                         /\ new[ip].isolated /\ old[ip].isolated
                         /\ old[ip].block /\ ~ new[ip].block}
             changed == {ip \in Stayed(old, new) : conflict(old[ip].mac, new[ip].mac)}
             port == {ip \in Stayed(old, new) : opened(old[ip], new[ip])}
  <2>1. /\ risk \in SUBSET (IP \cup {None}) /\ block \in SUBSET (IP \cup {None})
        /\ changed \in SUBSET (IP \cup {None}) /\ port \in SUBSET (IP \cup {None})
    BY <1>3 DEF Stayed
  <2>2. /\ "mudanca_risco" \in EventType /\ "alerta_bloqueio" \in EventType
        /\ "alerta_conflito_ip" \in EventType /\ "porta_nova" \in EventType
    BY DEF EventType
  <2>3. changeEvents(old, new) =
          Of("mudanca_risco", risk) \cup Of("alerta_bloqueio", block)
            \cup Of("alerta_conflito_ip", changed) \cup Of("porta_nova", port)
    BY Zenon DEF changeEvents
  <2> HIDE DEF risk, block, changed, port
  <2>4. QED BY <1>1, <2>1, <2>2, <2>3
<1>6. Of("dispositivo_saiu", Left(old, new)) \subseteq Event
  <2>1. "dispositivo_saiu" \in EventType /\ Left(old, new) \in SUBSET (IP \cup {None})
    BY <1>3 DEF EventType, Left
  <2>2. QED BY <1>1, <2>1
<1>7. QED BY <1>2, <1>4, <1>5, <1>6

-----------------------------------------------------------------------------
(* Type correctness, one lemma per action that builds a scan or reads it. *)

\* An empty scan is a scan.
LEMMA NoScanType == Nothing \in Results /\ NoScan \in ScanState
BY DEF Nothing, Results, NoScan, ScanState

\* A scan that begins holds a Result for each host it will look at.
LEMMA BeginScanType ==
  ASSUME TypeOK, beginScan
  PROVE  /\ scan' \in ScanState
         /\ scan'.queue \cup scan'.checking \subseteq Hosts(scan'.found)
<1> DEFINE found == [ip \in IP |-> IF ip \in activeHosts THEN blank(ip) ELSE None]
<1>1. scan' = [active |-> TRUE, queue |-> activeHosts, checking |-> {}, found |-> found]
  BY DEF beginScan
<1>2. activeHosts \subseteq IP
  BY DEF activeHosts
<1>3. \A ip \in activeHosts : blank(ip) \in Result
  BY DEF blank, macOf, Result
<1>4. found \in Results
  BY <1>2, <1>3 DEF Results
<1>5. activeHosts \subseteq Hosts(found)
  BY <1>2, <1>3, NoneAssumption DEF Hosts
<1> HIDE DEF found
<1>6. QED BY <1>1, <1>2, <1>4, <1>5 DEF ScanState

\* Looking at one host leaves a Result for every host still to look at.
LEMMA LookType ==
  ASSUME TypeOK, NEW ip \in IP, examine(ip) \/ checkBlock(ip)
  PROVE  /\ scan' \in ScanState
         /\ scan'.queue \cup scan'.checking \subseteq Hosts(scan'.found)
<1>1. scan \in ScanState /\ scan.queue \cup scan.checking \subseteq Hosts(scan.found)
  BY DEF TypeOK
<1>2. CASE examine(ip)
  <2> DEFINE r == [mac |-> scan.found[ip].mac,
                   trusted |-> scan.found[ip].mac \in trusted,
                   open |-> ~ (scan.found[ip].mac \in trusted) /\ owner[ip] \in open,
                   isolated |-> ip \in isolations, block |-> FALSE]
             found == [scan.found EXCEPT ![ip] = r]
             checking == IF ip \in isolations THEN scan.checking \cup {ip}
                                              ELSE scan.checking
  <2>1. /\ ip \in scan.queue
        /\ scan' = [scan EXCEPT !.queue = scan.queue \ {ip}, !.checking = checking,
                                !.found = found]
    BY <1>2 DEF examine
  <2>2. scan.found \in Results /\ scan.found[ip].mac \in MAC \cup {NoMAC}
    BY <1>1, <2>1, HostResult DEF ScanState
  <2>3. r \in Result
    BY <2>2 DEF Result
  <2>4. found \in Results /\ Hosts(scan.found) \subseteq Hosts(found)
    BY <2>2, <2>3, NoneAssumption DEF Results, Hosts
  <2>5. checking \in SUBSET IP /\ checking \subseteq scan.checking \cup {ip}
    BY <1>1 DEF ScanState
  <2> HIDE DEF r, found, checking
  <2>6. scan' \in ScanState
    BY <1>1, <2>1, <2>4, <2>5 DEF ScanState
  <2>7. /\ scan'.queue = scan.queue \ {ip} /\ scan'.checking = checking
        /\ scan'.found = found
    BY <1>1, <2>1 DEF ScanState
  <2>8. QED BY <1>1, <2>1, <2>4, <2>5, <2>6, <2>7
<1>3. CASE checkBlock(ip)
  <2> DEFINE r == [mac |-> scan.found[ip].mac, trusted |-> scan.found[ip].trusted,
                   open |-> scan.found[ip].open, isolated |-> TRUE,
                   block |-> ipv4BlockActive(ip)]
             found == [scan.found EXCEPT ![ip] = r]
  <2>1. /\ ip \in scan.checking
        /\ scan' = [scan EXCEPT !.checking = scan.checking \ {ip}, !.found = found]
    BY <1>3 DEF checkBlock
  <2>2. scan.found \in Results /\ scan.found[ip] \in Result
    BY <1>1, <2>1, HostResult DEF ScanState
  <2>3. r \in Result
    BY <2>2 DEF Result, ipv4BlockActive
  <2>4. found \in Results /\ Hosts(scan.found) \subseteq Hosts(found)
    BY <2>2, <2>3, NoneAssumption DEF Results, Hosts
  <2> HIDE DEF r, found
  <2>5. scan' \in ScanState
    BY <1>1, <2>1, <2>4 DEF ScanState
  <2>6. /\ scan'.queue = scan.queue /\ scan'.checking = scan.checking \ {ip}
        /\ scan'.found = found
    BY <1>1, <2>1 DEF ScanState
  <2>7. QED BY <1>1, <2>4, <2>5, <2>6
<1>4. QED BY <1>2, <1>3

\* The comparison keeps the shape of what it updates.
LEMMA DetectType ==
  ASSUME TypeOK, detectChanges
  PROVE  /\ previous' \in Results
         /\ events' \subseteq EventType \X (IP \cup {None})
         /\ evasionCandidates' \subseteq Vendor
         /\ known' \subseteq MAC
         /\ announced' \subseteq MAC
         /\ firstScan' \in BOOLEAN
<1>1. previous \in Results /\ scan.found \in Results
  BY DEF TypeOK, ScanState
<1>2. previous' \in Results /\ firstScan' \in BOOLEAN
  BY <1>1 DEF detectChanges
<1>3. events' \subseteq EventType \X (IP \cup {None})
  BY <1>1, EventsType DEF detectChanges
<1>4. evasionCandidates' \subseteq Vendor
  <2>1. fled(previous, scan.found) \subseteq Vendor
    BY DEF fled
  <2>2. evasionCandidates' \subseteq evasionCandidates \cup fled(previous, scan.found)
    BY <1>1 DEF detectChanges
  <2>3. QED BY <2>1, <2>2 DEF TypeOK
<1>5. known' \subseteq MAC
  BY <1>1, MarkSeenType DEF detectChanges, TypeOK
<1>6. announced' \subseteq MAC
  <2>1. \A ip \in Hosts(scan.found) : scan.found[ip].mac \in MAC \cup {NoMAC}
    BY <1>1, HostResult
  <2>2. announced' \subseteq
          announced \cup ({scan.found[ip].mac : ip \in Hosts(scan.found)} \ {NoMAC})
    BY DEF detectChanges
  <2>3. QED BY <2>1, <2>2 DEF TypeOK
<1>7. QED BY <1>2, <1>3, <1>4, <1>5, <1>6

\* The program starts in a well formed state.
LEMMA InitType == Init => TypeOK
BY NoScanType, DeviceAssumption, BoundAssumption
   DEF Init, TypeOK, NoScan

\* Every step leads to a well formed state.
LEMMA NextType == TypeOK /\ [Next]_vars => TypeOK'
<1> SUFFICES ASSUME TypeOK, [Next]_vars PROVE TypeOK'
  OBVIOUS
<1> USE DEF world, memory
<1>1. CASE beginScan
  BY <1>1, BeginScanType DEF beginScan, TypeOK
<1>2. CASE look
  <2>1. PICK ip \in IP : examine(ip) \/ checkBlock(ip)
    BY <1>2 DEF look
  <2>2. UNCHANGED <<world, memory, changes>>
    BY <2>1 DEF examine, checkBlock
  <2>3. /\ scan' \in ScanState
        /\ scan'.queue \cup scan'.checking \subseteq Hosts(scan'.found)
    BY <2>1, LookType
  <2>4. QED BY <2>2, <2>3 DEF TypeOK
<1>3. CASE detectChanges
  <2>1. scan' = NoScan /\ UNCHANGED <<world, changes>>
    BY <1>3 DEF detectChanges
  <2>2. /\ scan' \in ScanState
        /\ scan'.queue \cup scan'.checking \subseteq Hosts(scan'.found)
    BY <2>1, NoScanType DEF NoScan
  <2>3. QED BY <1>3, <2>1, <2>2, DetectType DEF TypeOK
<1>4. CASE \E v \in Vendor : windowPasses(v)
  BY <1>4 DEF windowPasses, TypeOK
<1>5. CASE \E ip \in IP, device \in Device \cup {None} : ownerChanges(ip, device)
  <2>1. owner' \in Owners
    BY <1>5 DEF ownerChanges, TypeOK, Owners
  <2>2. QED BY <1>5, <2>1, BoundAssumption DEF ownerChanges, Happens, TypeOK
<1>6. CASE \/ \E device \in Device : portChanges(device)
           \/ \E mac \in MAC : setTrusted(mac)
  BY <1>6, BoundAssumption DEF portChanges, setTrusted, Happens, TypeOK
<1>7. CASE \E ip \in IP : isolateDevice(ip) \/ reconnectDevice(ip) \/ unblockForwarding(ip)
  BY <1>7, BoundAssumption
     DEF isolateDevice, reconnectDevice, unblockForwarding, Happens, TypeOK
<1>8. CASE flushRules
  BY <1>8, BoundAssumption DEF flushRules, Happens, TypeOK
<1>9. CASE UNCHANGED vars
  BY <1>9 DEF vars, TypeOK
<1>10. QED
  BY <1>1, <1>2, <1>3, <1>4, <1>5, <1>6, <1>7, <1>8, <1>9 DEF Next

\* The state of the comparison keeps its shape (monitoring.go, detectChanges).
THEOREM TypeCorrect == Spec => []TypeOK
BY InitType, NextType, PTL DEF Spec

-----------------------------------------------------------------------------
(* Who was held or reported is not new again. *)

\* A host reported as new is not in the inventory, and it is a host of the scan.
LEMMA NewIsUnknown ==
  ASSUME TypeOK, detectChanges,
         NEW ip, <<"novo_dispositivo", ip>> \in events'
  PROVE  /\ ~ firstScan
         /\ ip \in Hosts(scan.found)
         /\ scan.found[ip].mac \notin known
<1> DEFINE old == previous
           new == scan.found
           appeared == Appeared(old, new)
           back == {i \in appeared : alreadyKnown(new[i].mac)}
           suspect == {i \in appeared : suspectVendor(new[i].mac)}
<1>1. ~ firstScan
  BY DEF detectChanges
<1>2. <<"novo_dispositivo", ip>> \in healthEvents(old, new)
        \cup arrivalEvents(old, new) \cup changeEvents(old, new)
        \cup Of("dispositivo_saiu", Left(old, new))
  BY <1>1 DEF detectChanges
<1>3. /\ <<"novo_dispositivo", ip>> \notin healthEvents(old, new)
      /\ <<"novo_dispositivo", ip>> \notin changeEvents(old, new)
      /\ <<"novo_dispositivo", ip>> \notin Of("dispositivo_saiu", Left(old, new))
  BY DEF healthEvents, changeEvents, Of
<1>4. <<"novo_dispositivo", ip>> \in Of("alerta_evasao", suspect)
        \cup Of("dispositivo_voltou", back) \cup Of("novo_dispositivo", appeared \ back)
  BY <1>2, <1>3, Zenon DEF arrivalEvents
<1>5. ip \in appeared \ back
  <2> HIDE DEF appeared, back, suspect
  <2>1. QED BY <1>4 DEF Of
<1>6. QED BY <1>1, <1>5 DEF Appeared, alreadyKnown

\* Whatever the inventory held, and whatever was reported as new, is remembered.
LEMMA AnnouncedInductive ==
  /\ Init => AnnouncedAreKnown
  /\ TypeOK /\ AnnouncedAreKnown /\ [Next]_vars => AnnouncedAreKnown'
<1>1. Init => AnnouncedAreKnown
  BY DEF Init, AnnouncedAreKnown
<1>2. ASSUME TypeOK, AnnouncedAreKnown, [Next]_vars PROVE AnnouncedAreKnown'
  <2>1. CASE detectChanges
    <3>1. \A ip : <<"novo_dispositivo", ip>> \in events' =>
             ~ firstScan /\ ip \in Hosts(scan.found)
      BY <1>2, <2>1, NewIsUnknown
    <3>2. announced' = announced \cup
            ({scan.found[ip].mac :
                ip \in {i \in Hosts(scan.found) : <<"novo_dispositivo", i>> \in events'}}
               \ {NoMAC})
      BY <2>1 DEF detectChanges
    <3>3. known' = IF firstScan THEN known ELSE known \cup markSeen(previous, scan.found)
      BY <2>1 DEF detectChanges
    <3>4. QED BY <1>2, <3>1, <3>2, <3>3 DEF AnnouncedAreKnown, markSeen
  <2>2. CASE ~ detectChanges
    <3>1. UNCHANGED <<known, announced>>
      BY <1>2, <2>2
         DEF Next, vars, world, memory, look, beginScan, examine, checkBlock, windowPasses,
             ownerChanges, portChanges, setTrusted, isolateDevice, reconnectDevice,
             unblockForwarding, flushRules, Happens
    <3>2. QED BY <1>2, <3>1 DEF AnnouncedAreKnown
  <2>3. QED BY <2>1, <2>2
<1>3. QED BY <1>1, <1>2

\* With any number of devices, addresses and changes between two scans, no comparison
\* reports as new a device that the inventory held at startup or that an earlier one
\* reported as new; it may report a new device at each of its addresses, and one without
\* a MAC each time (monitoring.go, detectChanges and markSeen).
THEOREM KnownNeverNewAgain == Spec => NeverNewAgain
<1> DEFINE Fresh == detectChanges => \A ip \in Hosts(previous') :
             <<"novo_dispositivo", ip>> \in events'
               => previous'[ip].mac \notin announced \cup Inventory
<1>1. TypeOK /\ AnnouncedAreKnown /\ [Next]_vars => [Fresh]_vars
  <2> SUFFICES ASSUME TypeOK, AnnouncedAreKnown, detectChanges,
                      NEW ip \in Hosts(previous'), <<"novo_dispositivo", ip>> \in events'
               PROVE  previous'[ip].mac \notin announced \cup Inventory
    OBVIOUS
  <2>1. previous' = scan.found
    BY DEF detectChanges
  <2>2. scan.found[ip].mac \notin known
    BY NewIsUnknown
  <2>3. QED BY <2>1, <2>2 DEF AnnouncedAreKnown
<1>2. Spec => []AnnouncedAreKnown
  BY TypeCorrect, AnnouncedInductive, PTL DEF Spec
<1>3. QED
  BY <1>1, <1>2, TypeCorrect, PTL DEF Spec, NeverNewAgain

-----------------------------------------------------------------------------
(* No alert about a block that nobody broke.  A scan reads the map of          *)
(* isolations and, later, the rules; a reconnection in between removes them    *)
(* rightfully and the comparison cannot tell, so the theorem is about runs     *)
(* with neither a reconnection nor a flush.                                    *)

BlocksAreKept == "reconnect" \notin Change /\ "flush" \notin Change

NoFalseAlarm == \A ip \in IP : <<"alerta_bloqueio", ip>> \notin events

\* The rules of an isolated device stay, so whatever a scan has finished looking at
\* and found isolated it also found blocked.
FoundBlocked ==
  /\ scan.checking \subseteq isolations /\ isolations \subseteq rules
  /\ \A ip \in Hosts(scan.found) \ scan.checking :
       scan.found[ip].isolated => scan.found[ip].block

\* An alert is about a host that the scan just compared found isolated, not blocked.
LEMMA AlarmIsFound ==
  ASSUME detectChanges, NEW ip, <<"alerta_bloqueio", ip>> \in events'
  PROVE  /\ ip \in Hosts(scan.found)
         /\ scan.found[ip].isolated /\ ~ scan.found[ip].block
<1> DEFINE old == previous
           new == scan.found
           risk == {i \in Stayed(old, new) :
                      old[i].open # new[i].open /\ ~ new[i].trusted}
           block == {i \in Stayed(old, new) :
                       /\ new[i].isolated /\ old[i].isolated
                       /\ old[i].block /\ ~ new[i].block}
           changed == {i \in Stayed(old, new) : conflict(old[i].mac, new[i].mac)}
           port == {i \in Stayed(old, new) : opened(old[i], new[i])}
<1>1. <<"alerta_bloqueio", ip>> \in healthEvents(old, new) \cup arrivalEvents(old, new)
        \cup changeEvents(old, new) \cup Of("dispositivo_saiu", Left(old, new))
  BY DEF detectChanges
<1>2. /\ <<"alerta_bloqueio", ip>> \notin healthEvents(old, new)
      /\ <<"alerta_bloqueio", ip>> \notin arrivalEvents(old, new)
      /\ <<"alerta_bloqueio", ip>> \notin Of("dispositivo_saiu", Left(old, new))
  BY DEF healthEvents, arrivalEvents, Of
<1>3. <<"alerta_bloqueio", ip>> \in Of("mudanca_risco", risk) \cup Of("alerta_bloqueio", block)
        \cup Of("alerta_conflito_ip", changed) \cup Of("porta_nova", port)
  BY <1>1, <1>2, Zenon DEF changeEvents
<1>4. ip \in block
  <2> HIDE DEF risk, block, changed, port
  <2>1. QED BY <1>3 DEF Of
<1>5. QED BY <1>4 DEF Stayed

\* What looking at one host changes of a scan.
LEMMA LookFound ==
  ASSUME TypeOK, FoundBlocked, NEW ip \in IP, examine(ip) \/ checkBlock(ip)
  PROVE  FoundBlocked'
<1>1. /\ scan \in ScanState /\ UNCHANGED <<isolations, rules>>
      /\ scan.queue \cup scan.checking \subseteq Hosts(scan.found)
  BY DEF TypeOK, examine, checkBlock, world
<1>2. CASE examine(ip)
  <2> DEFINE r == [mac |-> scan.found[ip].mac,
                   trusted |-> scan.found[ip].mac \in trusted,
                   open |-> ~ (scan.found[ip].mac \in trusted) /\ owner[ip] \in open,
                   isolated |-> ip \in isolations, block |-> FALSE]
             found == [scan.found EXCEPT ![ip] = r]
             checking == IF ip \in isolations THEN scan.checking \cup {ip}
                                              ELSE scan.checking
  <2>1. /\ ip \in Hosts(scan.found)
        /\ scan' = [scan EXCEPT !.queue = scan.queue \ {ip}, !.checking = checking,
                                !.found = found]
    BY <1>1, <1>2 DEF examine
  <2>2. r.isolated => ip \in checking
    OBVIOUS
  <2>3. checking \subseteq isolations /\ scan.checking \subseteq checking
    BY DEF FoundBlocked
  <2>4. /\ found[ip] = r /\ \A i \in IP \ {ip} : found[i] = scan.found[i]
        /\ Hosts(found) \subseteq Hosts(scan.found)
    BY <1>1, <2>1 DEF ScanState, Results, Hosts
  <2> HIDE DEF r, found, checking
  <2>5. scan'.checking = checking /\ scan'.found = found
    BY <1>1, <2>1 DEF ScanState
  <2>6. \A i \in Hosts(found) \ checking : found[i].isolated => found[i].block
    <3> SUFFICES ASSUME NEW i \in Hosts(found) \ checking, found[i].isolated
                 PROVE  found[i].block
      OBVIOUS
    <3>1. i # ip
      BY <2>2, <2>4
    <3>2. QED BY <2>3, <2>4, <3>1 DEF FoundBlocked, Hosts
  <2>7. QED BY <1>1, <2>3, <2>5, <2>6 DEF FoundBlocked
<1>3. CASE checkBlock(ip)
  <2> DEFINE r == [mac |-> scan.found[ip].mac, trusted |-> scan.found[ip].trusted,
                   open |-> scan.found[ip].open, isolated |-> TRUE,
                   block |-> ipv4BlockActive(ip)]
             found == [scan.found EXCEPT ![ip] = r]
  <2>1. /\ ip \in Hosts(scan.found) /\ ip \in scan.checking
        /\ scan' = [scan EXCEPT !.checking = scan.checking \ {ip}, !.found = found]
    BY <1>1, <1>3 DEF checkBlock
  <2>2. r.block
    BY <2>1 DEF FoundBlocked, ipv4BlockActive
  <2>3. /\ found[ip] = r /\ \A i \in IP \ {ip} : found[i] = scan.found[i]
        /\ Hosts(found) \subseteq Hosts(scan.found)
    BY <1>1, <2>1 DEF ScanState, Results, Hosts
  <2> HIDE DEF r, found
  <2>4. scan'.checking = scan.checking \ {ip} /\ scan'.found = found
    BY <1>1, <2>1 DEF ScanState
  <2>5. \A i \in Hosts(found) \ scan'.checking : found[i].isolated => found[i].block
    BY <2>2, <2>3, <2>4 DEF FoundBlocked, Hosts
  <2>6. QED BY <1>1, <2>4, <2>5 DEF FoundBlocked
<1>4. QED BY <1>2, <1>3

\* Neither a scan nor a change of the network breaks a block.
LEMMA AlarmInductive ==
  ASSUME BlocksAreKept
  PROVE  /\ Init => FoundBlocked /\ NoFalseAlarm
         /\ TypeOK /\ FoundBlocked /\ NoFalseAlarm /\ [Next]_vars
              => FoundBlocked' /\ NoFalseAlarm'
<1>1. Init => FoundBlocked /\ NoFalseAlarm
  BY DEF Init, FoundBlocked, NoFalseAlarm, NoScan, Nothing, Hosts
<1>2. ASSUME TypeOK, FoundBlocked, NoFalseAlarm, [Next]_vars
      PROVE  FoundBlocked' /\ NoFalseAlarm'
  <2> USE <1>2
  <2>1. CASE beginScan
    <3> DEFINE found == [ip \in IP |-> IF ip \in activeHosts THEN blank(ip) ELSE None]
    <3>1. /\ scan' = [active |-> TRUE, queue |-> activeHosts, checking |-> {}, found |-> found]
          /\ events' = {} /\ UNCHANGED <<isolations, rules>>
      BY <2>1 DEF beginScan, world
    <3>2. \A ip \in Hosts(found) : found[ip] = blank(ip) /\ ~ blank(ip).isolated
      BY DEF Hosts, blank
    <3> HIDE DEF found
    <3>3. scan'.checking = {} /\ scan'.found = found
      BY <3>1
    <3>4. FoundBlocked'
      BY <3>1, <3>2, <3>3 DEF FoundBlocked
    <3>5. QED BY <3>1, <3>4 DEF NoFalseAlarm
  <2>2. CASE look
    <3>1. PICK ip \in IP : examine(ip) \/ checkBlock(ip)
      BY <2>2 DEF look
    <3>2. UNCHANGED events
      BY <3>1 DEF examine, checkBlock, memory
    <3>3. QED BY <3>1, <3>2, LookFound DEF NoFalseAlarm
  <2>3. CASE detectChanges
    <3>1. scan.checking = {} /\ scan' = NoScan /\ UNCHANGED <<isolations, rules>>
      BY <2>3 DEF detectChanges, world
    <3>2. FoundBlocked'
      BY <3>1 DEF FoundBlocked, NoScan, Nothing, Hosts
    <3>3. NoFalseAlarm'
      <4> SUFFICES ASSUME NEW ip \in IP, <<"alerta_bloqueio", ip>> \in events'
                   PROVE  FALSE
        BY DEF NoFalseAlarm
      <4>1. QED BY <2>3, <3>1, AlarmIsFound DEF FoundBlocked
    <3>4. QED BY <3>2, <3>3
  <2>4. ASSUME NEW ip \in IP, isolateDevice(ip) PROVE FoundBlocked' /\ NoFalseAlarm'
    BY <2>4 DEF isolateDevice, Happens, memory, FoundBlocked, NoFalseAlarm, Hosts
  <2>5. ASSUME NEW ip \in IP, unblockForwarding(ip) PROVE FoundBlocked' /\ NoFalseAlarm'
    BY <2>5 DEF unblockForwarding, memory, FoundBlocked, NoFalseAlarm, Hosts
  <2>6. CASE UNCHANGED <<isolations, rules, scan, events>>
    BY <2>6 DEF FoundBlocked, NoFalseAlarm, Hosts
  <2>7. CASE UNCHANGED vars \/ \E v \in Vendor : windowPasses(v)
    BY <2>6, <2>7 DEF vars, world, memory, windowPasses
  <2>8. CASE \/ \E ip \in IP, device \in Device \cup {None} : ownerChanges(ip, device)
             \/ \E device \in Device : portChanges(device)
             \/ \E mac \in MAC : setTrusted(mac)
    BY <2>6, <2>8 DEF ownerChanges, portChanges, setTrusted, Happens, memory
  <2>9. ~ flushRules /\ \A ip \in IP : ~ reconnectDevice(ip)
    BY BlocksAreKept DEF BlocksAreKept, flushRules, reconnectDevice, Happens
  <2>10. QED BY <2>1, <2>2, <2>3, <2>4, <2>5, <2>7, <2>8, <2>9 DEF Next
<1>3. QED BY <1>1, <1>2

\* As long as nobody reconnects a device or flushes the firewall, no comparison reports
\* a broken block, however isolations and the two reads of a scan interleave: the
\* rules of an isolated device are never found missing (monitoring.go, alerta_bloqueio
\* against dashboard.go, scanNetwork).
THEOREM AlarmsAreTrue == ASSUME BlocksAreKept PROVE Spec => []NoFalseAlarm
BY TypeCorrect, AlarmInductive, PTL DEF Spec

-----------------------------------------------------------------------------
(* No alert about the ports of a device that is trusted. *)

\* A trusted device's ports are not looked at, so that none is found open.
TrustedFoundClosed ==
  \A ip \in Hosts(scan.found) : scan.found[ip].trusted => ~ scan.found[ip].open

\* Nothing is said about the risk or the ports of a device that the scan just compared
\* found trusted; the second rests on what the scan looked at, not on a test of its own.
TrustedStayQuiet ==
  \A ip \in Hosts(previous) : previous[ip].trusted =>
    events \cap {<<"mudanca_risco", ip>>, <<"porta_nova", ip>>} = {}

\* An event about a device's ports is about one the scan did not find trusted.
LEMMA PortEventsUntrusted ==
  ASSUME detectChanges, TrustedFoundClosed,
         NEW type \in {"mudanca_risco", "porta_nova"}, NEW ip, <<type, ip>> \in events'
  PROVE  ~ scan.found[ip].trusted
<1> DEFINE old == previous
           new == scan.found
           risk == {i \in Stayed(old, new) :
                      old[i].open # new[i].open /\ ~ new[i].trusted}
           block == {i \in Stayed(old, new) :
                       /\ new[i].isolated /\ old[i].isolated
                       /\ old[i].block /\ ~ new[i].block}
           changed == {i \in Stayed(old, new) : conflict(old[i].mac, new[i].mac)}
           port == {i \in Stayed(old, new) : opened(old[i], new[i])}
<1>1. <<type, ip>> \in healthEvents(old, new) \cup arrivalEvents(old, new)
        \cup changeEvents(old, new) \cup Of("dispositivo_saiu", Left(old, new))
  BY DEF detectChanges
<1>2. /\ <<type, ip>> \notin healthEvents(old, new)
      /\ <<type, ip>> \notin arrivalEvents(old, new)
      /\ <<type, ip>> \notin Of("dispositivo_saiu", Left(old, new))
  BY DEF healthEvents, arrivalEvents, Of
<1>3. <<type, ip>> \in Of("mudanca_risco", risk) \cup Of("alerta_bloqueio", block)
        \cup Of("alerta_conflito_ip", changed) \cup Of("porta_nova", port)
  BY <1>1, <1>2, Zenon DEF changeEvents
<1>4. ip \in risk \cup port
  <2> HIDE DEF risk, block, changed, port
  <2>1. QED BY <1>3 DEF Of
<1>5. ip \in risk => ~ scan.found[ip].trusted
  OBVIOUS
<1>6. ip \in port => ip \in Hosts(scan.found) /\ scan.found[ip].open
  BY DEF opened, Stayed
<1>7. QED BY <1>4, <1>5, <1>6 DEF TrustedFoundClosed

\* Looking at a host finds a trusted one closed, and asking for its rules keeps what
\* was found of its ports.
LEMMA LookClosed ==
  ASSUME TypeOK, TrustedFoundClosed, NEW ip \in IP, examine(ip) \/ checkBlock(ip)
  PROVE  TrustedFoundClosed'
<1>1. scan \in ScanState /\ ip \in Hosts(scan.found)
  BY DEF TypeOK, examine, checkBlock
<1>2. PICK r : /\ r.trusted => ~ r.open
               /\ scan'.found = [scan.found EXCEPT ![ip] = r]
  <2>1. CASE examine(ip)
    <3> DEFINE r == [mac |-> scan.found[ip].mac,
                     trusted |-> scan.found[ip].mac \in trusted,
                     open |-> ~ (scan.found[ip].mac \in trusted) /\ owner[ip] \in open,
                     isolated |-> ip \in isolations, block |-> FALSE]
    <3>1. r.trusted => ~ r.open
      OBVIOUS
    <3>2. scan'.found = [scan.found EXCEPT ![ip] = r]
      BY <1>1, <2>1 DEF examine, ScanState
    <3> HIDE DEF r
    <3>3. QED BY <3>1, <3>2
  <2>2. CASE checkBlock(ip)
    <3> DEFINE r == [mac |-> scan.found[ip].mac, trusted |-> scan.found[ip].trusted,
                     open |-> scan.found[ip].open, isolated |-> TRUE,
                     block |-> ipv4BlockActive(ip)]
    <3>1. r.trusted => ~ r.open
      BY <1>1 DEF TrustedFoundClosed
    <3>2. scan'.found = [scan.found EXCEPT ![ip] = r]
      BY <1>1, <2>2 DEF checkBlock, ScanState
    <3> HIDE DEF r
    <3>3. QED BY <3>1, <3>2
  <2>3. QED BY <2>1, <2>2
<1>3. /\ scan'.found[ip] = r /\ \A i \in IP \ {ip} : scan'.found[i] = scan.found[i]
  BY <1>1, <1>2 DEF ScanState, Results
<1>4. QED BY <1>1, <1>2, <1>3 DEF TrustedFoundClosed, Hosts

\* Neither a scan nor a comparison, nor trust given or taken back between the two, makes
\* a trusted device's ports heard of.
LEMMA QuietInductive ==
  /\ Init => TrustedFoundClosed /\ TrustedStayQuiet
  /\ TypeOK /\ TrustedFoundClosed /\ TrustedStayQuiet /\ [Next]_vars
       => TrustedFoundClosed' /\ TrustedStayQuiet'
<1>1. Init => TrustedFoundClosed /\ TrustedStayQuiet
  BY DEF Init, TrustedFoundClosed, TrustedStayQuiet, NoScan, Nothing, Hosts
<1>2. ASSUME TypeOK, TrustedFoundClosed, TrustedStayQuiet, [Next]_vars
      PROVE  TrustedFoundClosed' /\ TrustedStayQuiet'
  <2> USE <1>2
  <2>1. CASE beginScan
    <3>1. scan'.found = [ip \in IP |->
            IF ip \in activeHosts THEN blank(ip) ELSE None]
      BY <2>1 DEF beginScan
    <3>2. \A ip \in Hosts(scan'.found) : ~ scan'.found[ip].open
      BY <3>1 DEF Hosts, blank
    <3>3. events' = {}
      BY <2>1 DEF beginScan
    <3>4. QED BY <3>2, <3>3 DEF TrustedFoundClosed, TrustedStayQuiet
  <2>2. CASE look
    <3>1. PICK ip \in IP : examine(ip) \/ checkBlock(ip)
      BY <2>2 DEF look
    <3>2. UNCHANGED <<events, previous>>
      BY <3>1 DEF examine, checkBlock, memory
    <3>3. QED BY <3>1, <3>2, LookClosed DEF TrustedStayQuiet
  <2>3. CASE detectChanges
    <3>1. previous' = scan.found /\ scan' = NoScan
      BY <2>3 DEF detectChanges
    <3>2. TrustedFoundClosed'
      BY <3>1 DEF TrustedFoundClosed, NoScan, Nothing, Hosts
    <3>3. QED BY <2>3, <3>1, <3>2, PortEventsUntrusted DEF TrustedStayQuiet
  <2>4. CASE UNCHANGED <<scan, events, previous>>
    BY <2>4 DEF TrustedFoundClosed, TrustedStayQuiet
  <2>5. CASE UNCHANGED vars \/ \E v \in Vendor : windowPasses(v)
    BY <2>4, <2>5 DEF vars, memory, windowPasses
  <2>6. CASE \/ \E ip \in IP, device \in Device \cup {None} : ownerChanges(ip, device)
             \/ \E device \in Device : portChanges(device)
             \/ \E mac \in MAC : setTrusted(mac)
             \/ flushRules
    BY <2>4, <2>6 DEF ownerChanges, portChanges, setTrusted, flushRules, Happens, memory
  <2>7. CASE \E ip \in IP : isolateDevice(ip) \/ reconnectDevice(ip) \/ unblockForwarding(ip)
    BY <2>4, <2>7 DEF isolateDevice, reconnectDevice, unblockForwarding, Happens, memory
  <2>8. QED BY <2>1, <2>2, <2>3, <2>5, <2>6, <2>7 DEF Next
<1>3. QED BY <1>1, <1>2

\* Of a device that a scan found trusted its comparison says nothing about risk or ports,
\* whatever it had open before it was trusted and whenever trust changes (monitoring.go,
\* porta_nova and mudanca_risco, against dashboard.go:124-133).
THEOREM TrustedQuiet == Spec => []TrustedStayQuiet
BY TypeCorrect, QuietInductive, PTL DEF Spec

=============================================================================
