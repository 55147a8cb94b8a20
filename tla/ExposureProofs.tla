---------------------------- MODULE ExposureProofs ----------------------------
(***************************************************************************)
(* Theorems about risk marks, mappings and priorities, for any number of   *)
(* devices, ports, scans and changes: the types, that a device never comes *)
(* out calmer for opening one more port, and that no mapping is shown      *)
(* without its event and none reported that was shown before.              *)
(***************************************************************************)
EXTENDS Exposure, FiniteSetTheorems, SequenceTheorems, TLAPS

-----------------------------------------------------------------------------
(* Types *)

\* Results without any device are results.
LEMMA NobodyType == Nobody \in Results
  BY DEF Nobody, Results

\* A scan that has not begun has the shape of a scan.
LEMMA NoScanType == NoScan \in ScanState
  BY NobodyType DEF NoScan, ScanState

\* What a scan finds are results, without the ports of trusted devices.
LEMMA FoundType ==
  ASSUME NEW devices \in Results
  PROVE  /\ scanNetwork(devices) \in Results
         /\ \A ip \in Present(scanNetwork(devices)) :
              scanNetwork(devices)[ip].trusted => scanNetwork(devices)[ip].ports = {}
<1>1. [ports |-> {}, trusted |-> TRUE] \in Device
  BY DEF Device
<1> QED BY <1>1, AbsentAssumption DEF scanNetwork, Results, Device, Present

\* The lists a router may hold are sequences of mappings.
LEMMA RoutersType == Routers \subseteq Seq(Mapping)
  BY DEF Routers

\* A list without one of its entries is a list (deleteMapping).
LEMMA ShortenedType ==
  ASSUME NEW list \in Seq(Mapping), NEW index \in DOMAIN list
  PROVE  SubSeq(list, 1, index - 1) \o SubSeq(list, index + 1, Len(list)) \in Seq(Mapping)
<1>1. index \in 1..Len(list)
  OBVIOUS
<1>2. SubSeq(list, 1, index - 1) \in Seq(Mapping)
  BY <1>1, \A i \in 1..(index - 1) : list[i] \in Mapping
<1>3. SubSeq(list, index + 1, Len(list)) \in Seq(Mapping)
  BY <1>1, \A i \in (index + 1)..Len(list) : list[i] \in Mapping
<1> QED BY <1>2, <1>3

\* The mappings of a list, and their keys (checkUPnPExposure, startUPnPCheck).
LEMMA KeysType ==
  ASSUME NEW list \in Seq(Mapping)
  PROVE  MappingsIn(list) \subseteq Mapping /\ KeysOf(MappingsIn(list)) \subseteq External
<1>1. \A i \in DOMAIN list : list[i] \in Mapping
  OBVIOUS
<1>2. MappingsIn(list) \subseteq Mapping
  BY <1>1 DEF MappingsIn
<1>3. \A m \in Mapping : m.external \in External
  BY DEF Mapping
<1> QED BY <1>2, <1>3 DEF KeysOf

\* TypeOK says of the results what it would have to say of those that a scan has
\* yet to publish, to be inductive.
ScansOK ==
  \A s \in Scanner : \A ip \in Present(scan[s].results) :
    scan[s].results[ip].trusted => scan[s].results[ip].ports = {}

\* The initial state has the types (the variables of upnp.go, metrics.go and
\* monitoring.go).
LEMMA InitType == Init => TypeOK /\ ScansOK
<1> SUFFICES ASSUME Init PROVE TypeOK /\ ScansOK
  OBVIOUS
<1>1. changes \in 0..MaxChanges
  BY BoundAssumption DEF Init
<1>2. router \in Seq(Mapping)
  BY RoutersType DEF Init
<1>3. poll \in Seq(Mapping) /\ Len(poll) <= MaxMappings
  BY ContextAssumption DEF Init
<1>4. scan \in [Scanner -> ScanState]
  BY NoScanType DEF Init
<1>5. ScansOK
  BY DEF Init, ScansOK, NoScan, Nobody, Present
<1>6. lastResults \in Results /\ Present(lastResults) = {}
  BY NobodyType DEF Init, Nobody, Present
<1> QED BY <1>1, <1>2, <1>3, <1>4, <1>5, <1>6 DEF Init, TypeOK

\* The bound on what changes is kept.
LEMMA CountedType == TypeOK /\ Counted => changes' \in 0..MaxChanges
  BY BoundAssumption DEF TypeOK, Counted

\* A round that ends leaves no list under way, and only keys (startUPnPCheck).
LEMMA RoundType ==
  ASSUME TypeOK, NEW mappings \in {{}, MappingsIn(poll)}, endRound(mappings)
  PROVE  /\ round' = "discovering"
         /\ poll' \in Seq(Mapping) /\ Len(poll') <= MaxMappings
         /\ upnpMappings' \subseteq Mapping
         /\ previous' \subseteq External /\ announced' \subseteq External
         /\ initial' \subseteq External /\ first' \in BOOLEAN
<1>1. mappings \subseteq Mapping /\ KeysOf(mappings) \subseteq External
  BY KeysType DEF TypeOK, KeysOf
<1>2. poll' \in Seq(Mapping) /\ Len(poll') <= MaxMappings
  BY ContextAssumption DEF endRound
<1> QED BY <1>1, <1>2 DEF TypeOK, endRound

\* Every step keeps the types (refreshCache, startUPnPCheck).
LEMMA NextType == TypeOK /\ ScansOK /\ [Next]_vars => TypeOK' /\ ScansOK'
<1> SUFFICES ASSUME TypeOK, ScansOK, [Next]_vars PROVE TypeOK' /\ ScansOK'
  OBVIOUS
<1> USE DEF world, scanning, polling
<1>1. ASSUME NEW s \in Scanner, scanEnds(s) PROVE TypeOK' /\ ScansOK'
  <2> DEFINE found == [phase |-> "found", results |-> scanNetwork(device)]
  <2>1. found \in ScanState
    BY FoundType DEF TypeOK, ScanState
  <2>2. scan' = [scan EXCEPT ![s] = found]
    BY <1>1 DEF scanEnds
  <2>3. scan' \in [Scanner -> ScanState]
    BY <2>1, <2>2 DEF TypeOK
  <2>4. ScansOK'
    BY <2>2, FoundType DEF TypeOK, ScansOK, Present
  <2> QED BY <1>1, <2>3, <2>4 DEF scanEnds, TypeOK
<1>2. ASSUME NEW s \in Scanner, noteRiskLevel(s) PROVE TypeOK' /\ ScansOK'
  <2>1. scan' \in [Scanner -> ScanState]
    BY <1>2 DEF noteRiskLevel, TypeOK, ScanState
  <2>2. \A t \in Scanner : scan'[t].results = scan[t].results
    BY <1>2 DEF noteRiskLevel, TypeOK, ScanState
  <2>3. ScansOK'
    BY <2>2 DEF ScansOK, Present
  <2>4. highRiskSince' \subseteq IP
    BY <1>2 DEF noteRiskLevel, AtHighRisk, Present
  <2> QED BY <1>2, <2>1, <2>3, <2>4 DEF noteRiskLevel, TypeOK
<1>3. ASSUME NEW s \in Scanner, publish(s) PROVE TypeOK' /\ ScansOK'
  <2>1. scan' \in [Scanner -> ScanState]
    BY <1>3, NoScanType DEF publish, TypeOK
  <2>2. lastResults' = scan[s].results /\ lastResults' \in Results
    BY <1>3 DEF publish, TypeOK, ScanState
  <2>3. \A ip \in Present(lastResults') : lastResults'[ip].trusted => lastResults'[ip].ports = {}
    BY <2>2 DEF ScansOK
  <2>4. Present(NoScan.results) = {}
    BY DEF NoScan, Nobody, Present
  <2>5. \A t \in Scanner : scan'[t] = scan[t] \/ scan'[t] = NoScan
    BY <1>3 DEF publish, TypeOK
  <2>6. ScansOK'
    BY <2>4, <2>5 DEF ScansOK
  <2> QED BY <1>3, <2>1, <2>2, <2>3, <2>6 DEF publish, TypeOK
<1>4. CASE queryUPnPMapping
  <2>1. poll' \in Seq(Mapping) /\ Len(poll') <= MaxMappings
    <3>1. Len(poll) \in Nat /\ Len(poll) + 1 \in 1..Len(router)
      BY <1>4 DEF queryUPnPMapping, TypeOK
    <3>2. router[Len(poll) + 1] \in Mapping
      BY <3>1 DEF TypeOK
    <3> QED BY <1>4, <3>1, <3>2, ContextAssumption DEF queryUPnPMapping, TypeOK
  <2> QED BY <1>4, <2>1 DEF queryUPnPMapping, TypeOK, ScansOK
<1>5. CASE walkEnds
  BY <1>5, RoundType DEF walkEnds, TypeOK, ScansOK
<1>6. CASE queryFails \/ discoveryFails
  <2>1. changes' \in 0..MaxChanges
    BY <1>6, CountedType DEF queryFails, discoveryFails, TypeOK
  <2>2. PICK mappings \in {{}, MappingsIn(poll)} : endRound(mappings)
    BY <1>6 DEF queryFails, discoveryFails
  <2> QED BY <1>6, <2>1, <2>2, RoundType DEF queryFails, discoveryFails, TypeOK, ScansOK
<1>7. ASSUME NEW ip \in IP, NEW new \in Device \cup {Absent}, deviceChanges(ip, new)
      PROVE  TypeOK' /\ ScansOK'
  <2>1. device' \in Results
    BY <1>7 DEF deviceChanges, TypeOK, Results
  <2> QED BY <1>7, <2>1, CountedType DEF deviceChanges, TypeOK, ScansOK
<1>8. ASSUME NEW mapping \in Mapping, addMapping(mapping) PROVE TypeOK' /\ ScansOK'
  <2>1. router' \in Seq(Mapping)
    BY <1>8 DEF addMapping, TypeOK
  <2> QED BY <1>8, <2>1, CountedType DEF addMapping, TypeOK, ScansOK
<1>9. ASSUME NEW index \in DOMAIN router, deleteMapping(index) PROVE TypeOK' /\ ScansOK'
  <2>1. router' \in Seq(Mapping)
    BY <1>9, ShortenedType DEF deleteMapping, TypeOK
  <2> QED BY <1>9, <2>1, CountedType DEF deleteMapping, TypeOK, ScansOK
<1>10. CASE UNCHANGED vars
  BY <1>10 DEF vars, TypeOK, ScansOK
<1>11. CASE discoverUPnPControlURL
  BY <1>11 DEF discoverUPnPControlURL, TypeOK, ScansOK
<1>12. CASE descriptionStalls
  BY <1>12, CountedType DEF descriptionStalls, TypeOK, ScansOK
<1> QED
  BY <1>1, <1>2, <1>3, <1>4, <1>5, <1>6, <1>7, <1>8, <1>9, <1>10, <1>11, <1>12
  DEF Next, ScanStep, PollStep, World

\* In every reachable state the variables of upnp.go, metrics.go and monitoring.go
\* have their types, a walk stays within its limit, and no trusted device has
\* ports in the results.
THEOREM TypeCorrect == Spec => []TypeOK
<1>1. Init => TypeOK /\ ScansOK
  BY InitType
<1>2. TypeOK /\ ScansOK /\ [Next]_vars => TypeOK' /\ ScansOK'
  BY NextType
<1> QED BY <1>1, <1>2, PTL DEF Spec

-----------------------------------------------------------------------------
(* Priorities *)

\* Opening a port adds it to one device and changes nothing else.
LEMMA OpenedDevice ==
  ASSUME NEW results \in Results, NEW ip \in Present(results), NEW port \in Port
  PROVE  /\ Present(Opened(results, ip, port)) = Present(results)
         /\ \A x \in IP : x # ip => Opened(results, ip, port)[x] = results[x]
         /\ Opened(results, ip, port)[ip].ports = results[ip].ports \cup {port}
         /\ Opened(results, ip, port)[ip].trusted = results[ip].trusted
<1>1. ip \in IP /\ results[ip] \in Device
  BY DEF Present, Results
<1> DEFINE new == [results[ip] EXCEPT !.ports = @ \cup {port}]
<1>2. /\ new \in Device /\ new.ports = results[ip].ports \cup {port}
      /\ new.trusted = results[ip].trusted
  BY <1>1 DEF Device
<1>3. Opened(results, ip, port) = [results EXCEPT ![ip] = new]
  BY DEF Opened
<1> HIDE DEF new
<1>4. /\ \A x \in IP : x # ip => Opened(results, ip, port)[x] = results[x]
      /\ Opened(results, ip, port)[ip] = new
  BY <1>1, <1>3 DEF Results
<1>5. new # Absent /\ results[ip] # Absent
  BY <1>1, <1>2, AbsentAssumption
<1>6. Present(Opened(results, ip, port)) = Present(results)
  BY <1>4, <1>5 DEF Present
<1> QED BY <1>2, <1>4, <1>6

\* Opening a port changes the share of no other port (buildRiskContext).
LEMMA OtherSharesStay ==
  ASSUME NEW results \in Results, NEW ip \in Present(results), NEW port \in Port,
         NEW other, other # port
  PROVE  other \in baselinePorts(results) <=> other \in baselinePorts(Opened(results, ip, port))
<1>1. Present(Opened(results, ip, port)) = Present(results)
  BY OpenedDevice
<1>2. \A x \in IP : other \in Opened(results, ip, port)[x].ports <=> other \in results[x].ports
  BY OpenedDevice
<1>3. {x \in Present(Opened(results, ip, port)) : other \in Opened(results, ip, port)[x].ports}
        = {x \in Present(results) : other \in results[x].ports}
  BY <1>1, <1>2 DEF Present
<1> QED BY <1>1, <1>3 DEF baselinePorts, prevalent

\* An unusual port stays unusual when another is opened, and one that is open
\* already changes nothing (priorityOf).
LEMMA UnusualStays ==
  ASSUME NEW results \in Results, NEW ip \in Present(results), NEW port \in Port,
         unusual(ip, results) # {}
  PROVE  unusual(ip, Opened(results, ip, port)) # {}
<1>1. PICK other \in results[ip].ports \cap HighPort : other \notin baselinePorts(results)
  BY DEF unusual
<1>2. CASE other # port
  BY <1>1, <1>2, OpenedDevice, OtherSharesStay DEF unusual
<1>3. CASE other = port
  <2>1. \A x \in IP : x # ip => Opened(results, ip, port)[x] = results[x]
    BY OpenedDevice
  <2>2. Opened(results, ip, port)[ip].ports = results[ip].ports
    <3>1. Opened(results, ip, port)[ip].ports = results[ip].ports \cup {port}
      BY OpenedDevice
    <3>2. port \in results[ip].ports
      BY <1>1, <1>3
    <3>3. results[ip].ports \cup {port} = results[ip].ports
      BY <3>2
    <3> QED BY <3>1, <3>3
  <2>3. {x \in Present(Opened(results, ip, port)) : other \in Opened(results, ip, port)[x].ports}
          = {x \in Present(results) : other \in results[x].ports}
    BY <2>1, <2>2, OpenedDevice DEF Present
  <2>4. other \notin baselinePorts(Opened(results, ip, port))
    BY <1>1, <2>3, OpenedDevice DEF baselinePorts, prevalent
  <2> QED BY <1>1, <2>2, <2>4 DEF unusual
<1> QED BY <1>2, <1>3

\* A device that opens a port is ranked no lower (priorityOf).
LEMMA PriorityStays ==
  ASSUME NEW results \in Results, NEW ip \in Present(results), NEW port \in Port, NEW mappings
  PROVE  priorityOf(ip, results, mappings) <= priorityOf(ip, Opened(results, ip, port), mappings)
<1> DEFINE before == priorityOf(ip, results, mappings)
           after == priorityOf(ip, Opened(results, ip, port), mappings)
<1>1. /\ Opened(results, ip, port)[ip].ports = results[ip].ports \cup {port}
      /\ Opened(results, ip, port)[ip].trusted = results[ip].trusted
  BY OpenedDevice
<1>2. unusual(ip, results) # {} => unusual(ip, Opened(results, ip, port)) # {}
  BY UnusualStays
<1>3. before \in 0..2 /\ after \in 0..2
  BY DEF priorityOf, prioRoutine, prioReview, prioAct
<1>4. before = prioAct => after = prioAct
  BY <1>1 DEF priorityOf, prioRoutine, prioReview, prioAct
<1>5. before = prioReview => after # prioRoutine
  BY <1>1, <1>2 DEF priorityOf, prioRoutine, prioReview, prioAct
<1>6. before <= after
  BY <1>3, <1>4, <1>5 DEF prioRoutine, prioReview, prioAct
<1> QED BY <1>6

\* In every reachable state no device of the results would come out calmer for
\* one more open port, whatever the network's normal is.
THEOREM OpeningCounts == Spec => []OpeningNeverCalms
<1>1. TypeOK => OpeningNeverCalms
  BY PriorityStays DEF TypeOK, OpeningNeverCalms, Present
<1> QED BY <1>1, TypeCorrect, PTL

-----------------------------------------------------------------------------
(* What the internet reaches, and what was said of it *)

\* The router's answers of a walk are no more than the walk asked for.
LEMMA WalkBounded ==
  ASSUME NEW list \in Seq(Mapping)
  PROVE  Cardinality(MappingsIn(list)) <= Len(list)
<1>1. /\ list \in [1..Len(list) -> MappingsIn(list)]
      /\ \A m \in MappingsIn(list) : \E i \in 1..Len(list) : list[i] = m
  BY DEF MappingsIn
<1>2. list \in Surjection(1..Len(list), MappingsIn(list))
  BY <1>1 DEF Surjection
<1>3. Len(list) \in Nat
  OBVIOUS
<1> QED BY <1>2, <1>3, FS_SurjCardinalityBound DEF ExistsSurjection

\* The list the dashboard shows, the keys that the next round compares with, and what
\* has been said of them (startUPnPCheck).
ExposureInv ==
  /\ Cardinality(upnpMappings) <= MaxMappings
  /\ previous = KeysOf(upnpMappings)
  /\ previous \subseteq announced \cup initial
  /\ first => upnpMappings = {} /\ announced = {}

\* Before the first round nothing is shown and nothing was said.
LEMMA InitExposure == Init => ExposureInv
  BY FS_EmptySet, ContextAssumption DEF Init, ExposureInv, KeysOf

\* A round, however it ends, shows what it has read, compares keys with those of what
\* was shown until then, and says whatever is new among them (startUPnPCheck).
LEMMA RoundTells ==
  ASSUME TypeOK, ExposureInv, NEW mappings \in {{}, MappingsIn(poll)}, endRound(mappings)
  PROVE  /\ ExposureInv'
         /\ \A key \in announced' \ announced :
              ~ first /\ key \in KeysOf(upnpMappings') \ KeysOf(upnpMappings)
<1>1. Cardinality(upnpMappings') <= MaxMappings
  <2>1. Cardinality(MappingsIn(poll)) <= Len(poll) /\ Len(poll) <= MaxMappings
    BY WalkBounded DEF TypeOK
  <2>2. Len(poll) \in Nat /\ MaxMappings \in Nat
    BY ContextAssumption DEF TypeOK
  <2>3. Cardinality(MappingsIn(poll)) \in Nat
    <3>1. poll \in Surjection(1..Len(poll), MappingsIn(poll))
      BY DEF TypeOK, MappingsIn, Surjection
    <3>2. IsFiniteSet(MappingsIn(poll))
      BY <2>2, <3>1, FS_Interval, FS_Surjection
    <3> QED BY <3>2, FS_CardinalityType
  <2>4. Cardinality(mappings) <= MaxMappings
    <3>1. CASE mappings = MappingsIn(poll)
      BY <2>1, <2>2, <2>3, <3>1
    <3>2. CASE mappings = {}
      <4>1. Cardinality(mappings) = 0
        BY <3>2, FS_EmptySet
      <4> QED BY <4>1, <2>2
    <3> QED BY <3>1, <3>2
  <2> QED BY <2>4 DEF endRound
<1>2. previous' = KeysOf(upnpMappings') /\ ~ first'
  BY DEF endRound
<1>3. previous' \subseteq announced' \cup initial'
  BY DEF endRound, ExposureInv
<1>4. \A key \in announced' \ announced :
        ~ first /\ key \in KeysOf(upnpMappings') \ KeysOf(upnpMappings)
  BY DEF endRound, ExposureInv
<1> QED BY <1>1, <1>2, <1>3, <1>4 DEF ExposureInv

\* No other step touches what is shown or what was said (refreshCache, and the router).
LEMMA OthersSilent ==
  [Next]_vars => \/ \E mappings \in {{}, MappingsIn(poll)} : endRound(mappings)
                 \/ UNCHANGED <<upnpMappings, previous, first, announced, initial>>
<1>1. \A s : scanEnds(s) \/ ScanStep(s) => UNCHANGED polling
  BY DEF scanEnds, ScanStep, noteRiskLevel, publish
<1>2. \A ip, new : deviceChanges(ip, new) => UNCHANGED polling
  BY DEF deviceChanges
<1>3. \A mapping : addMapping(mapping) => UNCHANGED polling
  BY DEF addMapping
<1>4. \A index : deleteMapping(index) => UNCHANGED polling
  BY DEF deleteMapping
<1>5. UNCHANGED polling => UNCHANGED <<upnpMappings, previous, first, announced, initial>>
  BY DEF polling
<1>6. walkEnds \/ queryFails \/ discoveryFails
        => \E mappings \in {{}, MappingsIn(poll)} : endRound(mappings)
  BY DEF walkEnds, queryFails, discoveryFails
<1>7. discoverUPnPControlURL \/ descriptionStalls \/ queryUPnPMapping
        => UNCHANGED <<upnpMappings, previous, first, announced, initial>>
  BY DEF discoverUPnPControlURL, descriptionStalls, queryUPnPMapping
<1>8. UNCHANGED vars => UNCHANGED polling
  BY DEF vars
<1> QED
  BY <1>1, <1>2, <1>3, <1>4, <1>5, <1>6, <1>7, <1>8 DEF Next, PollStep, World

\* Every step keeps the invariant of the rounds.
LEMMA NextExposure == TypeOK /\ ExposureInv /\ [Next]_vars => ExposureInv'
<1> SUFFICES ASSUME TypeOK, ExposureInv, [Next]_vars PROVE ExposureInv'
  OBVIOUS
<1>1. CASE \E mappings \in {{}, MappingsIn(poll)} : endRound(mappings)
  BY <1>1, RoundTells
<1>2. CASE UNCHANGED <<upnpMappings, previous, first, announced, initial>>
  BY <1>2 DEF ExposureInv
<1> QED BY <1>1, <1>2, OthersSilent

\* In every reachable state.
LEMMA ExposureAlways == Spec => []ExposureInv
  BY InitExposure, NextExposure, TypeCorrect, PTL DEF Spec

\* For any router, any number of mappings, failed questions and devices: nothing is
\* exposed in the list without having been told of (startUPnPCheck).
THEOREM ExposuresAlwaysTold == Spec => []ExposuresTold
<1>1. ExposureInv => ExposuresTold
  BY DEF ExposureInv, ExposuresTold
<1> QED BY <1>1, ExposureAlways, PTL

\* Only a port that was not shown is reported for the first time, and it is shown from
\* then on (startUPnPCheck: previous against what readUPnPCache returns).
OnlyNewTold ==
  [][\A key \in announced' \ announced :
       ~ first /\ key \in KeysOf(upnpMappings') \ KeysOf(upnpMappings)]_vars

\* A port that stays in the list is never reported as new, nor anything in the round
\* that the program begins with.
THEOREM NewsIsNew == Spec => OnlyNewTold
<1>1. TypeOK /\ ExposureInv /\ [Next]_vars
        => [\A key \in announced' \ announced :
              ~ first /\ key \in KeysOf(upnpMappings') \ KeysOf(upnpMappings)]_vars
  BY RoundTells, OthersSilent
<1> QED BY <1>1, ExposureAlways, TypeCorrect, PTL DEF Spec, OnlyNewTold

=============================================================================
