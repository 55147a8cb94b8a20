---------------------------- MODULE AdmissionProofs ----------------------------
(***************************************************************************)
(* What holds of Admission for any number of addresses, devices and        *)
(* dashboard requests, proved with TLAPS.                                  *)
(***************************************************************************)
EXTENDS Admission, TLAPS

-----------------------------------------------------------------------------
(* Type correctness *)

\* An idle scanner and an idle policy are records of their types.
LEMMA RecordType ==
  /\ Nothing \in Results
  /\ NoScan \in ScanState
  /\ NoVerdict \in PolicyState
<1>1. Nothing \in Results
  BY DEF Nothing, Results
<1>2. NoScan \in ScanState
  BY <1>1 DEF NoScan, ScanState
<1>3. NoVerdict \in PolicyState
  BY <1>1 DEF NoVerdict, PolicyState
<1>. QED BY <1>1, <1>2, <1>3

\* The state at startup has the right shape, whatever the files hold.
LEMMA InitType == Init => TypeOK
<1>. SUFFICES ASSUME Init PROVE TypeOK
  OBVIOUS
<1>1. scan \in [Scanner -> ScanState] /\ cache \in Results /\ policy \in PolicyState
  BY RecordType DEF Init
<1>2. moves \in [IP -> 0 .. MaxMoves]
  BY PolicyAssumption DEF Init
<1>3. laps \in 0 .. LearningScans + 1
  BY PolicyAssumption DEF Init
<1>4. arp \in [IP -> MAC \cup {None}] /\ known \subseteq MAC /\ trusted \subseteq MAC
  BY DEF Init
<1>5. isolations \subseteq IP /\ learning \in BOOLEAN
  BY DEF Init
<1>. QED BY <1>1, <1>2, <1>3, <1>4, <1>5 DEF TypeOK

\* One scanner's record is replaced by another.
LEMMA ScanType ==
  ASSUME scan \in [Scanner -> ScanState], NEW s \in Scanner, NEW c \in ScanState,
         scan' = [scan EXCEPT ![s] = c]
  PROVE  scan' \in [Scanner -> ScanState]
OBVIOUS

\* A scan begins with a record of each active host, which names its owner.
LEMMA Begun ==
  ASSUME TypeOK, NEW s \in Scanner, beginScan(s)
  PROVE  /\ scan' \in [Scanner -> ScanState]
         /\ \A q \in Scanner \ {s} : scan'[q] = scan[q]
         /\ scan'[s].phase = "scan"
         /\ scan'[s].queue \cup scan'[s].checking = activeHosts
         /\ Hosts(scan'[s].found) = activeHosts
         /\ \A ip \in activeHosts : scan'[s].found[ip].mac = arp[ip]
<1>. DEFINE found == [ip \in IP |->
              IF ip \in activeHosts
              THEN [mac |-> arp[ip], trusted |-> FALSE, risk |-> "baixo", isolated |-> FALSE]
              ELSE None]
            begun == [phase |-> "scan", queue |-> activeHosts, checking |-> {},
                      found |-> found]
<1>1. activeHosts \subseteq IP
  BY AddressAssumption DEF activeHosts
<1>2. \A ip \in activeHosts : found[ip] \in Result /\ found[ip].mac = arp[ip]
  BY <1>1 DEF TypeOK, Result
<1>3. found \in Results
  BY <1>2 DEF Results
<1>4. Hosts(found) = activeHosts
  BY <1>1, <1>2, NoneAssumption DEF Hosts
<1>5. begun \in ScanState
  BY <1>1, <1>3 DEF ScanState
<1>6. scan' = [scan EXCEPT ![s] = begun]
  BY DEF beginScan
<1>7. scan \in [Scanner -> ScanState]
  BY DEF TypeOK
<1>8. scan'[s] = begun /\ \A q \in Scanner \ {s} : scan'[q] = scan[q]
  BY <1>6, <1>7
<1>9. /\ begun.phase = "scan" /\ begun.found = found
      /\ begun.queue \cup begun.checking = activeHosts
  OBVIOUS
<1>. HIDE DEF begun, found
<1>10. scan' \in [Scanner -> ScanState]
  BY <1>5, <1>6, <1>7, ScanType
<1>. QED BY <1>2, <1>4, <1>8, <1>9, <1>10

\* What the two halves of an examination have in common.
LEMMA Replaced ==
  ASSUME scan \in [Scanner -> ScanState], NEW s \in Scanner,
         NEW ip \in Hosts(scan[s].found),
         NEW r \in Result, r.mac = scan[s].found[ip].mac,
         NEW queue \in SUBSET IP, NEW checking \in SUBSET IP,
         scan' = [scan EXCEPT ![s] =
           [phase |-> "scan", queue |-> queue, checking |-> checking,
            found |-> [scan[s].found EXCEPT ![ip] = r]]]
  PROVE  /\ scan' \in [Scanner -> ScanState]
         /\ \A q \in Scanner \ {s} : scan'[q] = scan[q]
         /\ scan'[s].phase = "scan"
         /\ scan'[s].queue = queue /\ scan'[s].checking = checking
         /\ Hosts(scan'[s].found) = Hosts(scan[s].found)
         /\ \A h \in Hosts(scan[s].found) : scan'[s].found[h].mac = scan[s].found[h].mac
<1>. DEFINE found == [scan[s].found EXCEPT ![ip] = r]
            c == [phase |-> "scan", queue |-> queue, checking |-> checking, found |-> found]
<1>1. scan[s].found \in Results /\ ip \in IP
  BY DEF Hosts, ScanState
<1>2. found \in Results /\ Hosts(found) = Hosts(scan[s].found)
  BY <1>1, NoneAssumption DEF Results, Hosts
<1>3. \A h \in Hosts(scan[s].found) : found[h].mac = scan[s].found[h].mac
  BY <1>1 DEF Hosts, Results
<1>4. c \in ScanState
  BY <1>2 DEF ScanState
<1>5. /\ scan'[s] = c /\ \A q \in Scanner \ {s} : scan'[q] = scan[q]
      /\ c.phase = "scan" /\ c.queue = queue /\ c.checking = checking /\ c.found = found
  OBVIOUS
<1>. HIDE DEF c, found
<1>6. scan' \in [Scanner -> ScanState]
  BY <1>4, ScanType DEF c, found
<1>. QED BY <1>2, <1>3, <1>5, <1>6

\* Examining a host changes its record, in that scan, and not what it is about.
LEMMA Examined ==
  ASSUME TypeOK, ExaminesHosts, NEW s \in Scanner, NEW ip \in IP,
         identify(s, ip) \/ inspect(s, ip)
  PROVE  /\ scan' \in [Scanner -> ScanState]
         /\ \A q \in Scanner \ {s} : scan'[q] = scan[q]
         /\ scan[s].phase = "scan" /\ scan'[s].phase = "scan"
         /\ scan'[s].queue \cup scan'[s].checking
              \subseteq scan[s].queue \cup scan[s].checking
         /\ Hosts(scan'[s].found) = Hosts(scan[s].found)
         /\ \A h \in Hosts(scan[s].found) : scan'[s].found[h].mac = scan[s].found[h].mac
<1>1. scan[s] \in ScanState /\ scan \in [Scanner -> ScanState]
  BY DEF TypeOK
<1>2. ip \in scan[s].queue \cup scan[s].checking
  BY DEF identify, inspect
<1>3. scan[s].phase = "scan" /\ ip \in Hosts(scan[s].found)
  BY <1>2 DEF ExaminesHosts
<1>4. scan[s].found[ip] \in Result
  BY <1>1, <1>3 DEF Hosts, ScanState, Results
<1>5. CASE identify(s, ip)
  <2>. DEFINE mac == scan[s].found[ip].mac
              exposed == ~ isTrusted(mac) /\ {mac, ip} \cap Exposed # {}
              r == [mac |-> mac, trusted |-> isTrusted(mac), isolated |-> FALSE,
                    risk |-> IF exposed THEN "alto" ELSE "baixo"]
              queue == scan[s].queue \ {ip}
              checking == scan[s].checking \cup {ip}
  <2>1. r \in Result /\ r.mac = scan[s].found[ip].mac
    BY <1>4 DEF Result, isTrusted
  <2>2. /\ queue \in SUBSET IP /\ checking \in SUBSET IP
        /\ queue \cup checking \subseteq scan[s].queue \cup scan[s].checking
    BY <1>1, <1>2 DEF ScanState
  <2>3. scan' = [scan EXCEPT ![s] =
          [phase |-> "scan", queue |-> queue, checking |-> checking,
           found |-> [scan[s].found EXCEPT ![ip] = r]]]
    BY <1>5 DEF identify
  <2>. HIDE DEF r, queue, checking
  <2>4. /\ scan' \in [Scanner -> ScanState]
        /\ \A q \in Scanner \ {s} : scan'[q] = scan[q]
        /\ scan'[s].phase = "scan"
        /\ scan'[s].queue = queue /\ scan'[s].checking = checking
        /\ Hosts(scan'[s].found) = Hosts(scan[s].found)
        /\ \A h \in Hosts(scan[s].found) : scan'[s].found[h].mac = scan[s].found[h].mac
    BY <1>1, <1>3, <2>1, <2>2, <2>3, Replaced
  <2>. QED BY <1>3, <2>2, <2>4
<1>6. CASE inspect(s, ip)
  <2>. DEFINE old == scan[s].found[ip]
              r == [mac |-> old.mac, trusted |-> old.trusted, risk |-> old.risk,
                    isolated |-> ip \in isolations]
              queue == scan[s].queue
              checking == scan[s].checking \ {ip}
  <2>1. r \in Result /\ r.mac = scan[s].found[ip].mac
    BY <1>4 DEF Result
  <2>2. /\ queue \in SUBSET IP /\ checking \in SUBSET IP
        /\ queue \cup checking \subseteq scan[s].queue \cup scan[s].checking
    BY <1>1 DEF ScanState
  <2>3. scan' = [scan EXCEPT ![s] =
          [phase |-> "scan", queue |-> queue, checking |-> checking,
           found |-> [scan[s].found EXCEPT ![ip] = r]]]
    BY <1>6 DEF inspect
  <2>. HIDE DEF r, queue, checking
  <2>4. /\ scan' \in [Scanner -> ScanState]
        /\ \A q \in Scanner \ {s} : scan'[q] = scan[q]
        /\ scan'[s].phase = "scan"
        /\ scan'[s].queue = queue /\ scan'[s].checking = checking
        /\ Hosts(scan'[s].found) = Hosts(scan[s].found)
        /\ \A h \in Hosts(scan[s].found) : scan'[s].found[h].mac = scan[s].found[h].mac
    BY <1>1, <1>3, <2>1, <2>2, <2>3, Replaced
  <2>. QED BY <1>3, <2>2, <2>4
<1>. QED BY <1>5, <1>6

\* A handler's request changes the trust list or the isolations, and begins a scan.
LEMMA Requested ==
  ASSUME TypeOK, NEW h \in Handler, Request(h)
  PROVE  /\ beginScan(h) /\ scan[h].phase = "idle"
         /\ trusted' \subseteq MAC /\ isolations' \subseteq IP
         /\ UNCHANGED <<arp, moves, known, cache, laps, learning, policy>>
<1>1. CASE refreshHandler(h)
  BY <1>1 DEF refreshHandler, TypeOK, network, lists
<1>2. ASSUME NEW ip \in IP, NEW value \in BOOLEAN, trustHandler(h, ip, value)
      PROVE  /\ beginScan(h) /\ scan[h].phase = "idle"
             /\ trusted' \subseteq MAC /\ isolations' \subseteq IP
             /\ UNCHANGED <<arp, moves, known, cache, laps, learning, policy>>
  BY <1>2 DEF trustHandler, TypeOK, network
<1>3. ASSUME NEW ip \in IP, isolateHandler(h, ip) \/ reconnectHandler(h, ip)
      PROVE  /\ beginScan(h) /\ scan[h].phase = "idle"
             /\ trusted' \subseteq MAC /\ isolations' \subseteq IP
             /\ UNCHANGED <<arp, moves, known, cache, laps, learning, policy>>
  BY <1>3 DEF isolateHandler, reconnectHandler, TypeOK, network, lists
<1>. QED BY <1>1, <1>2, <1>3 DEF Request

\* The end of a scan replaces the cache by what that scan found.
LEMMA Published ==
  ASSUME TypeOK, NEW s \in Scanner, publish(s)
  PROVE  /\ scan' \in [Scanner -> ScanState]
         /\ \A q \in Scanner \ {s} : scan'[q] = scan[q]
         /\ cache' = scan[s].found /\ scan[s].found \in Results
         /\ scan[s].phase = "scan"
         /\ scan'[s].queue \cup scan'[s].checking = {}
         /\ s # Loop => scan'[s] = NoScan
         /\ s = Loop => /\ scan'[s].phase = "detect"
                        /\ scan'[s].found = scan[s].found
<1>. DEFINE ended == [scan[s] EXCEPT !.phase = "detect"]
            c == IF s = Loop THEN ended ELSE NoScan
<1>1. scan \in [Scanner -> ScanState] /\ scan[s] \in ScanState
  BY DEF TypeOK
<1>2. /\ ended \in ScanState /\ ended.phase = "detect" /\ ended.found = scan[s].found
      /\ ended.queue = {} /\ ended.checking = {}
  BY <1>1 DEF publish, ScanState
<1>3. NoScan \in ScanState /\ NoScan.queue \cup NoScan.checking = {}
  BY RecordType DEF NoScan
<1>4. scan' = [scan EXCEPT ![s] = c] /\ cache' = scan[s].found /\ scan[s].phase = "scan"
  BY DEF publish
<1>. HIDE DEF ended
<1>5. c \in ScanState
  BY <1>2, <1>3
<1>6. scan'[s] = c /\ \A q \in Scanner \ {s} : scan'[q] = scan[q]
  BY <1>1, <1>4
<1>7. scan' \in [Scanner -> ScanState]
  BY <1>1, <1>4, <1>5, ScanType
<1>8. scan[s].found \in Results
  BY <1>1 DEF ScanState
<1>. QED BY <1>2, <1>3, <1>4, <1>6, <1>7, <1>8

\* What the loop enters in the inventory are hardware addresses.
LEMMA MarkSeenType ==
  ASSUME NEW results \in Results
  PROVE  markSeen(results) \subseteq MAC
BY DEF markSeen, Hosts, Results, Result

\* A verdict takes one result off the list and keeps the policy's shape.
LEMMA Judged ==
  ASSUME TypeOK, NEW ip \in IP, judge(ip)
  PROVE  /\ policy' \in PolicyState
         /\ Hosts(policy'.todo) \subseteq Hosts(policy.todo)
         /\ \A h \in Hosts(policy'.todo) : policy'.todo[h] = policy.todo[h]
         /\ policy'.reason # "none" => policy'.target = ip
         /\ policy'.reason = "unknown" =>
              policy.todo[ip].mac # None /\ policy.todo[ip].mac \notin known
<1>. DEFINE r == policy.todo[ip]
            spared == r.isolated \/ r.mac \in Protected
            reason == IF spared THEN "none" ELSE evaluateAdmission(ip, r)
            denied == Mode = "aplicar" /\ reason # "none"
            todo == [policy.todo EXCEPT ![ip] = None]
<1>1. policy.todo \in Results
  BY DEF TypeOK, PolicyState
<1>2. /\ todo \in Results /\ Hosts(todo) \subseteq Hosts(policy.todo)
      /\ \A h \in Hosts(todo) : todo[h] = policy.todo[h]
  BY <1>1 DEF Results, Hosts
<1>3. reason \in {"none", "unknown", "risk"}
  BY DEF evaluateAdmission
<1>4. reason = "unknown" => r.mac # None /\ r.mac \notin known
  BY DEF evaluateAdmission
<1>5. policy' = [todo |-> todo, target |-> IF denied THEN ip ELSE None,
                 reason |-> IF denied THEN reason ELSE "none"]
  BY DEF judge
<1>. HIDE DEF todo, reason
<1>6. /\ policy'.todo = todo
      /\ policy'.reason \in {"none", reason}
      /\ policy'.reason # "none" => policy'.target = ip
  BY <1>5
<1>7. policy' \in PolicyState
  BY <1>2, <1>3, <1>5 DEF PolicyState
<1>. QED BY <1>2, <1>4, <1>6, <1>7

\* Every step of every goroutine and of the network keeps the shape, as long as
\* a scan examines only the hosts it found.
LEMMA NextType == TypeOK /\ ExaminesHosts /\ [Next]_vars => TypeOK'
<1>. SUFFICES ASSUME TypeOK, ExaminesHosts, [Next]_vars PROVE TypeOK'
  OBVIOUS
<1>. USE PolicyAssumption
<1>1. CASE loopScans
  <2>1. scan' \in [Scanner -> ScanState]
    BY <1>1, Begun DEF loopScans, Scanner
  <2>. QED BY <1>1, <2>1 DEF loopScans, TypeOK, network, lists
<1>2. CASE detectChanges
  <2>1. scan' \in [Scanner -> ScanState]
    BY <1>2, RecordType, ScanType DEF detectChanges, TypeOK, Scanner
  <2>2. markSeen(scan[Loop].found) \subseteq MAC
    BY MarkSeenType DEF TypeOK, ScanState, Scanner
  <2>3. known' \subseteq MAC
    BY <1>2, <2>2 DEF detectChanges, TypeOK
  <2>4. laps' \in 0 .. LearningScans + 1
    BY <1>2 DEF detectChanges, TypeOK
  <2>. QED BY <1>2, <2>1, <2>3, <2>4 DEF detectChanges, TypeOK, network
<1>3. CASE learningEnds
  BY <1>3 DEF learningEnds, TypeOK, network, lists
<1>4. ASSUME NEW s \in Scanner, publish(s) PROVE TypeOK'
  <2>1. scan' \in [Scanner -> ScanState] /\ cache' \in Results
    BY <1>4, Published
  <2>. QED BY <1>4, <2>1 DEF publish, TypeOK, network, lists
<1>5. ASSUME NEW s \in Scanner, NEW ip \in IP, identify(s, ip) \/ inspect(s, ip)
      PROVE  TypeOK'
  <2>1. scan' \in [Scanner -> ScanState]
    BY <1>5, Examined
  <2>. QED BY <1>5, <2>1 DEF identify, inspect, TypeOK, network, lists
<1>6. ASSUME NEW h \in Handler, Request(h) PROVE TypeOK'
  <2>1. scan' \in [Scanner -> ScanState]
    BY <1>6, Requested, Begun DEF Scanner
  <2>. QED BY <1>6, <2>1, Requested DEF TypeOK
<1>7. ASSUME NEW ip \in IP, deadlinePasses(ip) PROVE TypeOK'
  BY <1>7 DEF deadlinePasses, TypeOK, network, lists
<1>8. CASE applyPolicy
  <2>1. policy' \in PolicyState
    BY <1>8 DEF applyPolicy, TypeOK, NoVerdict, PolicyState
  <2>. QED BY <1>8, <2>1 DEF applyPolicy, TypeOK, network, lists
<1>9. ASSUME NEW ip \in IP, judge(ip) PROVE TypeOK'
  <2>1. policy' \in PolicyState
    BY <1>9, Judged
  <2>. QED BY <1>9, <2>1 DEF judge, TypeOK, network, lists
<1>10. CASE enforce
  <2>1. policy' \in PolicyState
    BY <1>10 DEF enforce, TypeOK, NoVerdict, PolicyState
  <2>2. isolations' \subseteq IP
    BY <1>10 DEF enforce, TypeOK, PolicyState
  <2>. QED BY <1>10, <2>1, <2>2 DEF enforce, TypeOK, network, lists
<1>11. ASSUME NEW ip \in IP, NEW mac \in MAC \cup {None}, ownerChanges(ip, mac)
       PROVE  TypeOK'
  BY <1>11 DEF ownerChanges, TypeOK, lists
<1>12. CASE UNCHANGED vars
  BY <1>12 DEF vars, network, lists, TypeOK
<1>. QED BY <1>1, <1>2, <1>3, <1>4, <1>5, <1>6, <1>7, <1>8, <1>9, <1>10, <1>11, <1>12
         DEF Next, examine, decide

\* Nobody scans at startup, and nothing is denied.
LEMMA InitExamines == Init => ExaminesHosts
BY DEF Init, ExaminesHosts, NoScan, NoVerdict, Hosts

\* A scan never examines a host it did not find, nor goes on once it has ended.
LEMMA NextExamines == TypeOK /\ ExaminesHosts /\ [Next]_vars => ExaminesHosts'
<1>. SUFFICES ASSUME TypeOK, ExaminesHosts, [Next]_vars PROVE ExaminesHosts'
  OBVIOUS
<1>1. ASSUME NEW s \in Scanner, beginScan(s), UNCHANGED policy PROVE ExaminesHosts'
  <2>1. \A q \in Scanner \ {s} : scan'[q] = scan[q]
    BY <1>1, Begun
  <2>2. /\ scan'[s].queue \cup scan'[s].checking \subseteq Hosts(scan'[s].found)
        /\ scan'[s].phase = "scan"
    BY <1>1, Begun
  <2>. QED BY <1>1, <2>1, <2>2 DEF ExaminesHosts, Hosts
<1>2. CASE loopScans
  BY <1>1, <1>2 DEF loopScans, Scanner
<1>3. ASSUME NEW h \in Handler, Request(h) PROVE ExaminesHosts'
  BY <1>1, <1>3, Requested DEF Scanner
<1>4. CASE detectChanges
  <2>1. \A q \in Scanner : scan'[q] = IF q = Loop THEN NoScan ELSE scan[q]
    BY <1>4 DEF detectChanges, TypeOK
  <2>. QED BY <1>4, <2>1 DEF detectChanges, ExaminesHosts, Hosts, NoScan
<1>5. ASSUME NEW s \in Scanner, publish(s) PROVE ExaminesHosts'
  <2>1. /\ \A q \in Scanner \ {s} : scan'[q] = scan[q]
        /\ scan'[s].queue \cup scan'[s].checking = {}
    BY <1>5, Published
  <2>2. UNCHANGED policy
    BY <1>5 DEF publish
  <2>. QED BY <2>1, <2>2 DEF ExaminesHosts, Hosts
<1>6. ASSUME NEW s \in Scanner, NEW ip \in IP, identify(s, ip) \/ inspect(s, ip)
      PROVE  ExaminesHosts'
  <2>1. \A q \in Scanner \ {s} : scan'[q] = scan[q]
    BY <1>6, Examined
  <2>2. /\ scan'[s].phase = "scan"
        /\ scan'[s].queue \cup scan'[s].checking \subseteq scan[s].queue \cup scan[s].checking
        /\ Hosts(scan'[s].found) = Hosts(scan[s].found)
    BY <1>6, Examined
  <2>3. UNCHANGED policy
    BY <1>6 DEF identify, inspect
  <2>. QED BY <2>1, <2>2, <2>3 DEF ExaminesHosts, Hosts
<1>7. ASSUME NEW ip \in IP, judge(ip) PROVE ExaminesHosts'
  <2>1. UNCHANGED scan
    BY <1>7 DEF judge
  <2>. QED BY <1>7, <2>1, Judged DEF ExaminesHosts, Hosts
<1>8. CASE applyPolicy \/ enforce
  BY <1>8 DEF applyPolicy, enforce, ExaminesHosts, NoVerdict, Hosts
<1>9. CASE UNCHANGED <<scan, policy>>
  BY <1>9 DEF ExaminesHosts, Hosts
<1>10. CASE learningEnds \/ UNCHANGED vars
  BY <1>9, <1>10 DEF learningEnds, vars
<1>11. ASSUME NEW ip \in IP, NEW mac \in MAC \cup {None},
              deadlinePasses(ip) \/ ownerChanges(ip, mac)
       PROVE  ExaminesHosts'
  BY <1>9, <1>11 DEF deadlinePasses, ownerChanges
<1>. QED BY <1>2, <1>3, <1>4, <1>5, <1>6, <1>7, <1>8, <1>10, <1>11
         DEF Next, examine, decide

\* Whatever scans, requests, the policy and the network do, the state of the
\* admission control keeps its shape, and every host a scan still examines is
\* one it found.
THEOREM TypeCorrect == Spec => [](TypeOK /\ ExaminesHosts)
<1>1. Init => TypeOK /\ ExaminesHosts
  BY InitType, InitExamines
<1>2. TypeOK /\ ExaminesHosts /\ [Next]_vars => (TypeOK /\ ExaminesHosts)'
  BY NextType, NextExamines
<1>. QED BY <1>1, <1>2, PTL DEF Spec

-----------------------------------------------------------------------------
(* The learning window *)

\* Nothing is cached at startup.
LEMMA InitGrace == Init => GraceInv
<1>. SUFFICES ASSUME Init PROVE GraceInv
  OBVIOUS
<1>1. TypeOK /\ ExaminesHosts
  BY InitType, InitExamines
<1>2. Hosts(Nothing) = {}
  BY DEF Hosts, Nothing
<1>3. ResultsNameOwners
  BY <1>2 DEF Init, ResultsNameOwners, NamesOwner, NoScan, NoVerdict
<1>4. LoopRemembersResidents
  BY DEF Init, LoopRemembersResidents, NoScan, Scanner
<1>5. PolicyAwaitsScans /\ GraceCoversResidents
  BY DEF Init, PolicyAwaitsScans, GraceCoversResidents, NoVerdict
<1>. QED BY <1>1, <1>3, <1>4, <1>5 DEF GraceInv

\* A scan, the cache and the policy go on naming the owner of an address that
\* has not changed hands.
LEMMA NextOwners ==
  TypeOK /\ ExaminesHosts /\ ResultsNameOwners /\ [Next]_vars => ResultsNameOwners'
<1>. SUFFICES ASSUME TypeOK, ExaminesHosts, ResultsNameOwners, [Next]_vars
              PROVE  ResultsNameOwners'
  OBVIOUS
<1>1. ASSUME NEW s \in Scanner, beginScan(s), UNCHANGED <<arp, moves, cache, policy>>
      PROVE  ResultsNameOwners'
  <2>1. \A q \in Scanner \ {s} : scan'[q] = scan[q]
    BY <1>1, Begun
  <2>2. \A ip \in Hosts(scan'[s].found) : scan'[s].found[ip].mac = arp[ip]
    BY <1>1, Begun
  <2>. QED BY <1>1, <2>1, <2>2 DEF ResultsNameOwners, NamesOwner, Hosts
<1>2. CASE loopScans
  BY <1>1, <1>2 DEF loopScans, Scanner, network
<1>3. ASSUME NEW h \in Handler, Request(h) PROVE ResultsNameOwners'
  BY <1>1, <1>3, Requested DEF Scanner
<1>4. CASE detectChanges
  <2>1. \A q \in Scanner : scan'[q] = IF q = Loop THEN NoScan ELSE scan[q]
    BY <1>4 DEF detectChanges, TypeOK
  <2>2. NamesOwner(NoScan.found)'
    BY DEF NamesOwner, NoScan, Nothing, Hosts
  <2>. QED BY <1>4, <2>1, <2>2
           DEF detectChanges, ResultsNameOwners, NamesOwner, Hosts, network
<1>5. ASSUME NEW s \in Scanner, publish(s) PROVE ResultsNameOwners'
  <2>1. UNCHANGED <<arp, moves, policy>>
    BY <1>5 DEF publish, network
  <2>2. /\ \A q \in Scanner \ {s} : scan'[q] = scan[q]
        /\ cache' = scan[s].found
    BY <1>5, Published
  <2>3. scan'[s] = NoScan \/ scan'[s].found = scan[s].found
    BY <1>5, Published
  <2>4. NamesOwner(NoScan.found)'
    BY DEF NamesOwner, NoScan, Nothing, Hosts
  <2>. QED BY <2>1, <2>2, <2>3, <2>4 DEF ResultsNameOwners, NamesOwner, Hosts
<1>6. ASSUME NEW s \in Scanner, NEW ip \in IP, identify(s, ip) \/ inspect(s, ip)
      PROVE  ResultsNameOwners'
  <2>1. UNCHANGED <<arp, moves, cache, policy>>
    BY <1>6 DEF identify, inspect, network
  <2>2. \A q \in Scanner \ {s} : scan'[q] = scan[q]
    BY <1>6, Examined
  <2>3. /\ Hosts(scan'[s].found) = Hosts(scan[s].found)
        /\ \A h \in Hosts(scan[s].found) : scan'[s].found[h].mac = scan[s].found[h].mac
    BY <1>6, Examined
  <2>. QED BY <2>1, <2>2, <2>3 DEF ResultsNameOwners, NamesOwner, Hosts
<1>7. ASSUME NEW ip \in IP, judge(ip) PROVE ResultsNameOwners'
  <2>1. UNCHANGED <<arp, moves, cache, scan>>
    BY <1>7 DEF judge, network
  <2>2. /\ Hosts(policy'.todo) \subseteq Hosts(policy.todo)
        /\ \A h \in Hosts(policy'.todo) : policy'.todo[h] = policy.todo[h]
    BY <1>7, Judged
  <2>. QED BY <2>1, <2>2 DEF ResultsNameOwners, NamesOwner, Hosts
<1>8. CASE applyPolicy \/ enforce
  <2>1. UNCHANGED <<arp, moves, cache, scan>> /\ policy'.todo \in {cache, policy.todo}
    BY <1>8 DEF applyPolicy, enforce, network, NoVerdict
  <2>. QED BY <2>1 DEF ResultsNameOwners, NamesOwner, Hosts
<1>9. ASSUME NEW ip \in IP, NEW mac \in MAC \cup {None}, ownerChanges(ip, mac)
      PROVE  ResultsNameOwners'
  <2>1. moves'[ip] # 0 /\ \A q \in IP \ {ip} : arp'[q] = arp[q] /\ moves'[q] = moves[q]
    BY <1>9 DEF ownerChanges, TypeOK
  <2>2. UNCHANGED <<cache, scan, policy>>
    BY <1>9 DEF ownerChanges
  <2>. QED BY <2>1, <2>2 DEF ResultsNameOwners, NamesOwner, Hosts
<1>10. CASE UNCHANGED <<arp, moves, cache, scan, policy>>
  BY <1>10 DEF ResultsNameOwners, NamesOwner, Hosts
<1>11. CASE learningEnds \/ UNCHANGED vars \/ \E ip \in IP : deadlinePasses(ip)
  BY <1>10, <1>11 DEF learningEnds, deadlinePasses, vars, network
<1>. QED BY <1>2, <1>3, <1>4, <1>5, <1>6, <1>7, <1>8, <1>9, <1>11
         DEF Next, examine, decide

\* The loop goes on finding every resident, and from its second scan on all of
\* them are in the inventory.
LEMMA NextRemembers ==
  TypeOK /\ ExaminesHosts /\ ResultsNameOwners /\ LoopRemembersResidents /\ [Next]_vars
    => LoopRemembersResidents'
<1>. SUFFICES ASSUME TypeOK, ExaminesHosts, ResultsNameOwners, LoopRemembersResidents,
                     [Next]_vars
              PROVE  LoopRemembersResidents'
  OBVIOUS
<1>1. CASE loopScans
  <2>1. Hosts(scan'[Loop].found) = activeHosts
    BY <1>1, Begun DEF loopScans, Scanner
  <2>. QED BY <1>1, <2>1
           DEF loopScans, LoopRemembersResidents, Resident, activeHosts, Hosts, network, lists
<1>2. ASSUME NEW s \in Scanner \ {Loop}, scan'[Loop] = scan[Loop],
             UNCHANGED <<arp, moves, known, laps>>
      PROVE  LoopRemembersResidents'
  BY <1>2 DEF LoopRemembersResidents, Resident, Hosts
<1>3. ASSUME NEW h \in Handler, Request(h) PROVE LoopRemembersResidents'
  <2>1. h \in Scanner \ {Loop} /\ Loop \in Scanner \ {h}
    BY ScannerAssumption DEF Scanner
  <2>2. scan'[Loop] = scan[Loop]
    BY <1>3, <2>1, Requested, Begun
  <2>. QED BY <1>2, <1>3, <2>1, <2>2, Requested
<1>4. CASE detectChanges
  <2>. SUFFICES ASSUME NEW ip \in IP, Resident(ip) PROVE
                  /\ scan'[Loop].phase = "idle"
                  /\ laps' >= 2 => arp[ip] \in known'
    BY <1>4 DEF detectChanges, LoopRemembersResidents, Resident, network
  <2>1. scan'[Loop].phase = "idle"
    BY <1>4 DEF detectChanges, TypeOK, NoScan, Scanner
  <2>2. ASSUME laps' >= 2 PROVE arp[ip] \in known'
    <3>1. laps # 0
      BY <1>4, <2>2, PolicyAssumption DEF detectChanges, TypeOK
    <3>2. ip \in Hosts(scan[Loop].found)
      BY <1>4 DEF detectChanges, LoopRemembersResidents
    <3>3. scan[Loop].found[ip].mac = arp[ip] /\ arp[ip] # None
      BY <3>2 DEF ResultsNameOwners, NamesOwner, Resident, Scanner
    <3>4. arp[ip] \in markSeen(scan[Loop].found)
      BY <3>2, <3>3 DEF markSeen
    <3>. QED BY <1>4, <3>1, <3>4 DEF detectChanges
  <2>. QED BY <2>1, <2>2
<1>5. ASSUME NEW s \in Scanner, publish(s) PROVE LoopRemembersResidents'
  <2>1. UNCHANGED <<arp, moves, known, laps>>
    BY <1>5 DEF publish, network, lists
  <2>2. CASE s = Loop
    <3>1. scan[Loop].phase = "scan" /\ scan'[Loop].found = scan[Loop].found
      BY <1>5, <2>2, Published
    <3>. QED BY <2>1, <3>1 DEF LoopRemembersResidents, Resident, Hosts
  <2>3. CASE s # Loop
    <3>1. scan'[Loop] = scan[Loop]
      BY <1>5, <2>3, Published DEF Scanner
    <3>. QED BY <1>2, <2>1, <2>3, <3>1
  <2>. QED BY <2>2, <2>3
<1>6. ASSUME NEW s \in Scanner, NEW ip \in IP, identify(s, ip) \/ inspect(s, ip)
      PROVE  LoopRemembersResidents'
  <2>1. UNCHANGED <<arp, moves, known, laps>>
    BY <1>6 DEF identify, inspect, network, lists
  <2>2. CASE s = Loop
    <3>1. scan[Loop].phase = "scan" /\ Hosts(scan'[Loop].found) = Hosts(scan[Loop].found)
      BY <1>6, <2>2, Examined
    <3>. QED BY <2>1, <3>1 DEF LoopRemembersResidents, Resident, Hosts
  <2>3. CASE s # Loop
    <3>1. scan'[Loop] = scan[Loop]
      BY <1>6, <2>3, Examined DEF Scanner
    <3>. QED BY <1>2, <2>1, <2>3, <3>1
  <2>. QED BY <2>2, <2>3
<1>7. ASSUME NEW ip \in IP, NEW mac \in MAC \cup {None}, ownerChanges(ip, mac)
      PROVE  LoopRemembersResidents'
  <2>1. moves'[ip] # 0 /\ \A q \in IP \ {ip} : arp'[q] = arp[q] /\ moves'[q] = moves[q]
    BY <1>7 DEF ownerChanges, TypeOK
  <2>2. UNCHANGED <<known, laps, scan>>
    BY <1>7 DEF ownerChanges, lists
  <2>. QED BY <2>1, <2>2 DEF LoopRemembersResidents, Resident, Hosts
<1>8. CASE UNCHANGED <<arp, moves, known, laps, scan>>
  BY <1>8 DEF LoopRemembersResidents, Resident, Hosts
<1>9. CASE learningEnds \/ applyPolicy \/ decide \/ UNCHANGED vars
           \/ \E ip \in IP : deadlinePasses(ip)
  BY <1>8, <1>9
     DEF learningEnds, applyPolicy, decide, enforce, judge, deadlinePasses, vars, network, lists
<1>. QED BY <1>1, <1>3, <1>4, <1>5, <1>6, <1>7, <1>9 DEF Next, examine

\* The policy starts on the cache only after the window, and the window ends
\* only after its scans.
LEMMA NextAwaits == TypeOK /\ PolicyAwaitsScans /\ [Next]_vars => PolicyAwaitsScans'
<1>. SUFFICES ASSUME TypeOK, PolicyAwaitsScans, [Next]_vars PROVE PolicyAwaitsScans'
  OBVIOUS
<1>1. CASE detectChanges
  <2>1. laps' >= laps
    BY <1>1, PolicyAssumption DEF detectChanges, TypeOK
  <2>2. laps \in Nat /\ laps' \in Nat
    BY <1>1, PolicyAssumption DEF detectChanges, TypeOK
  <2>. QED BY <1>1, <2>1, <2>2, PolicyAssumption DEF detectChanges, PolicyAwaitsScans
<1>2. CASE learningEnds
  BY <1>2 DEF learningEnds, PolicyAwaitsScans
<1>3. CASE applyPolicy
  BY <1>3 DEF applyPolicy, PolicyAwaitsScans
<1>4. CASE enforce
  <2>1. policy # NoVerdict
    BY <1>4 DEF enforce, NoVerdict
  <2>. QED BY <1>4, <2>1 DEF enforce, PolicyAwaitsScans
<1>5. ASSUME NEW ip \in IP, judge(ip) PROVE PolicyAwaitsScans'
  <2>1. policy # NoVerdict
    BY <1>5 DEF judge, NoVerdict, Hosts, Nothing
  <2>. QED BY <1>5, <2>1 DEF judge, PolicyAwaitsScans
<1>6. CASE UNCHANGED <<laps, learning, policy>>
  BY <1>6 DEF PolicyAwaitsScans
<1>7. ASSUME NEW s \in Scanner, examine(s) PROVE PolicyAwaitsScans'
  BY <1>6, <1>7 DEF examine, publish, identify, inspect
<1>8. ASSUME NEW h \in Handler, Request(h) PROVE PolicyAwaitsScans'
  BY <1>6, <1>8, Requested
<1>9. CASE loopScans \/ UNCHANGED vars
  BY <1>6, <1>9 DEF loopScans, vars
<1>10. ASSUME NEW ip \in IP, NEW mac \in MAC \cup {None},
              deadlinePasses(ip) \/ ownerChanges(ip, mac)
       PROVE  PolicyAwaitsScans'
  BY <1>6, <1>10 DEF deadlinePasses, ownerChanges
<1>. QED BY <1>1, <1>2, <1>3, <1>4, <1>5, <1>7, <1>8, <1>9, <1>10 DEF Next, decide

\* A device denied for being unknown has changed its address since startup.
LEMMA NextCovers ==
  LearningScans >= 2 /\ GraceInv /\ [Next]_vars => GraceCoversResidents'
<1>. SUFFICES ASSUME LearningScans >= 2, GraceInv, [Next]_vars PROVE GraceCoversResidents'
  OBVIOUS
<1>1. TypeOK /\ ExaminesHosts /\ GraceCoversResidents
  BY DEF GraceInv
<1>2. ASSUME NEW ip \in IP, judge(ip), policy'.reason = "unknown"
      PROVE  moves[ip] > 0
  <2>1. SUFFICES ASSUME moves[ip] = 0 PROVE FALSE
    BY <1>1, PolicyAssumption DEF TypeOK
  <2>2. policy.todo[ip].mac # None /\ policy.todo[ip].mac \notin known
    BY <1>1, <1>2, Judged
  <2>3. policy.todo[ip].mac = arp[ip]
    BY <1>2, <2>1 DEF judge, GraceInv, ResultsNameOwners, NamesOwner
  <2>4. policy # NoVerdict
    BY <1>2 DEF judge, NoVerdict, Hosts, Nothing
  <2>5. laps >= LearningScans
    BY <2>4 DEF GraceInv, PolicyAwaitsScans
  <2>6. laps >= 2
    BY <1>1, <2>5, PolicyAssumption DEF TypeOK
  <2>7. arp[ip] \in known
    BY <2>1, <2>2, <2>3, <2>6 DEF GraceInv, LoopRemembersResidents, Resident
  <2>. QED BY <2>2, <2>3, <2>7
<1>3. ASSUME NEW ip \in IP, judge(ip) PROVE GraceCoversResidents'
  <2>1. policy'.reason # "none" => policy'.target = ip
    BY <1>1, <1>3, Judged
  <2>2. UNCHANGED moves
    BY <1>3 DEF judge, network
  <2>. QED BY <1>2, <1>3, <2>1, <2>2 DEF GraceCoversResidents
<1>4. CASE applyPolicy \/ enforce
  BY <1>4 DEF applyPolicy, enforce, GraceCoversResidents, NoVerdict
<1>5. ASSUME NEW ip \in IP, NEW mac \in MAC \cup {None}, ownerChanges(ip, mac)
      PROVE  GraceCoversResidents'
  <2>1. \A q \in IP : moves[q] > 0 => moves'[q] > 0
    BY <1>1, <1>5, PolicyAssumption DEF ownerChanges, TypeOK
  <2>2. UNCHANGED policy
    BY <1>5 DEF ownerChanges
  <2>. QED BY <1>1, <2>1, <2>2 DEF GraceCoversResidents, ExaminesHosts
<1>6. CASE UNCHANGED <<moves, policy>>
  BY <1>1, <1>6 DEF GraceCoversResidents
<1>7. ASSUME NEW s \in Scanner, examine(s) PROVE GraceCoversResidents'
  BY <1>6, <1>7 DEF examine, publish, identify, inspect, network
<1>8. ASSUME NEW h \in Handler, Request(h) PROVE GraceCoversResidents'
  BY <1>1, <1>6, <1>8, Requested
<1>9. CASE loopScans \/ detectChanges \/ learningEnds \/ UNCHANGED vars
           \/ \E ip \in IP : deadlinePasses(ip)
  BY <1>6, <1>9 DEF loopScans, detectChanges, learningEnds, deadlinePasses, vars, network
<1>. QED BY <1>3, <1>4, <1>5, <1>7, <1>8, <1>9 DEF Next, decide

\* If the learning window outlasts two scans of the loop, nothing the scans, the
\* requests and the network do breaks the reasons why it covers the residents.
THEOREM GraceInvariant == ASSUME LearningScans >= 2 PROVE Spec => []GraceInv
<1>1. GraceInv /\ [Next]_vars => GraceInv'
  BY NextType, NextExamines, NextOwners, NextRemembers, NextAwaits, NextCovers DEF GraceInv
<1>. QED BY <1>1, InitGrace, PTL DEF Spec

\* If the learning window outlasts two scans of the loop, no device that has kept
\* its address since startup is ever isolated for being unknown.
THEOREM GraceCovers == ASSUME LearningScans >= 2 PROVE Spec => []GraceCoversResidents
<1>1. GraceInv => GraceCoversResidents
  BY DEF GraceInv
<1>. QED BY <1>1, GraceInvariant, PTL

-----------------------------------------------------------------------------
(* What a denial rests on.  A verdict is about a result that may be several    *)
(* scans old, and the order it gives looks the address up again; for a device  *)
(* that has kept its address all three are about the same device.              *)

\* A host is only reported at high risk if it, or its address, is exposed.
Justified(results) ==
  \A ip \in Hosts(results) :
    results[ip].risk = "alto" => {results[ip].mac, ip} \cap Exposed # {}

ResultsJustified ==
  Justified(cache) /\ Justified(policy.todo) /\ \A s \in Scanner : Justified(scan[s].found)

\* A device about to be isolated is of this network, and if it has kept its address
\* since startup it is exposed, and neither the router nor this machine (nac.go,
\* evaluateAdmission and applyPolicy, on results of dashboard.go's scanNetwork).
DenialJustified ==
  policy.target # None =>
    /\ policy.reason # "none" /\ policy.target \notin Outside
    /\ policy.reason = "risk" /\ moves[policy.target] = 0 =>
         /\ arp[policy.target] \notin Protected
         /\ {arp[policy.target], policy.target} \cap Exposed # {}

\* A result that another replaces under the same address is justified on its own.
LEMMA FoundJustified ==
  ASSUME NEW results \in Results, Justified(results), NEW ip \in IP, NEW r \in Result,
         r.risk = "alto" => {r.mac, ip} \cap Exposed # {}
  PROVE  Justified([results EXCEPT ![ip] = r])
BY DEF Justified, Hosts, Results

\* Every scan, and so the cache and the policy, goes on being justified.
LEMMA NextJustified ==
  TypeOK /\ ExaminesHosts /\ ResultsJustified /\ [Next]_vars => ResultsJustified'
<1>. SUFFICES ASSUME TypeOK, ExaminesHosts, ResultsJustified, [Next]_vars
              PROVE  ResultsJustified'
  OBVIOUS
<1>0. Justified(Nothing) /\ Justified(NoScan.found) /\ Justified(NoVerdict.todo)
  BY DEF Justified, Hosts, Nothing, NoScan, NoVerdict
<1>1. ASSUME NEW s \in Scanner, UNCHANGED <<cache, policy>>, Justified(scan'[s].found),
             \A q \in Scanner \ {s} : scan'[q] = scan[q]
      PROVE  ResultsJustified'
  BY <1>1 DEF ResultsJustified, Justified, Hosts
<1>2. ASSUME NEW s \in Scanner, beginScan(s), UNCHANGED <<cache, policy>>
      PROVE  ResultsJustified'
  <2>. DEFINE found == [ip \in IP |->
                IF ip \in activeHosts
                THEN [mac |-> arp[ip], trusted |-> FALSE, risk |-> "baixo",
                      isolated |-> FALSE]
                ELSE None]
  <2>1. Justified(found)
    BY DEF Justified, Hosts
  <2>2. scan'[s].found = found
    BY <1>2 DEF beginScan, TypeOK
  <2>3. \A q \in Scanner \ {s} : scan'[q] = scan[q]
    BY <1>2, Begun
  <2>. HIDE DEF found
  <2>. QED BY <1>1, <1>2, <2>1, <2>2, <2>3
<1>3. CASE loopScans
  BY <1>2, <1>3 DEF loopScans, Scanner
<1>4. ASSUME NEW h \in Handler, Request(h) PROVE ResultsJustified'
  BY <1>2, <1>4, Requested DEF Scanner
<1>5. CASE detectChanges
  <2>1. /\ \A q \in Scanner \ {Loop} : scan'[q] = scan[q]
        /\ scan'[Loop] = NoScan /\ Loop \in Scanner
        /\ UNCHANGED <<cache, policy>>
    BY <1>5 DEF detectChanges, TypeOK, Scanner
  <2>. QED BY <1>0, <1>1, <2>1
<1>6. ASSUME NEW s \in Scanner, publish(s) PROVE ResultsJustified'
  <2>1. UNCHANGED policy
    BY <1>6 DEF publish
  <2>2. /\ \A q \in Scanner \ {s} : scan'[q] = scan[q]
        /\ cache' = scan[s].found
        /\ scan'[s] = NoScan \/ scan'[s].found = scan[s].found
    BY <1>6, Published
  <2>. QED BY <1>0, <2>1, <2>2 DEF ResultsJustified, Justified, Hosts
<1>7. ASSUME NEW s \in Scanner, NEW ip \in IP, identify(s, ip) \/ inspect(s, ip)
      PROVE  ResultsJustified'
  <2>. DEFINE old == scan[s].found[ip]
              mac == old.mac
              exposed == ~ isTrusted(mac) /\ {mac, ip} \cap Exposed # {}
              named == [mac |-> mac, trusted |-> isTrusted(mac), isolated |-> FALSE,
                        risk |-> IF exposed THEN "alto" ELSE "baixo"]
              seen == [mac |-> mac, trusted |-> old.trusted, risk |-> old.risk,
                       isolated |-> ip \in isolations]
  <2>1. scan[s].found \in Results /\ Justified(scan[s].found)
    BY DEF TypeOK, ScanState, ResultsJustified
  <2>2. ip \in Hosts(scan[s].found) /\ old \in Result
    <3>1. ip \in Hosts(scan[s].found)
      BY <1>7 DEF identify, inspect, ExaminesHosts
    <3>. QED BY <2>1, <3>1 DEF Hosts, Results
  <2>3. old.risk = "alto" => {mac, ip} \cap Exposed # {}
    BY <2>1, <2>2 DEF Justified
  <2>4. CASE identify(s, ip)
    <3>1. named \in Result /\ (named.risk = "alto" => {named.mac, ip} \cap Exposed # {})
      BY <2>2 DEF Result, isTrusted
    <3>2. scan'[s].found = [scan[s].found EXCEPT ![ip] = named]
      BY <2>4 DEF identify, TypeOK
    <3>. HIDE DEF named
    <3>3. Justified(scan'[s].found)
      BY <2>1, <3>1, <3>2, FoundJustified
    <3>. QED BY <1>1, <2>4, <3>3, Examined DEF identify
  <2>5. CASE inspect(s, ip)
    <3>1. seen \in Result /\ (seen.risk = "alto" => {seen.mac, ip} \cap Exposed # {})
      BY <2>2, <2>3 DEF Result
    <3>2. scan'[s].found = [scan[s].found EXCEPT ![ip] = seen]
      BY <2>5 DEF inspect, TypeOK
    <3>. HIDE DEF seen
    <3>3. Justified(scan'[s].found)
      BY <2>1, <3>1, <3>2, FoundJustified
    <3>. QED BY <1>1, <2>5, <3>3, Examined DEF inspect
  <2>. QED BY <1>7, <2>4, <2>5
<1>8. ASSUME NEW ip \in IP, judge(ip) PROVE ResultsJustified'
  <2>1. UNCHANGED <<cache, scan>>
    BY <1>8 DEF judge
  <2>2. /\ Hosts(policy'.todo) \subseteq Hosts(policy.todo)
        /\ \A h \in Hosts(policy'.todo) : policy'.todo[h] = policy.todo[h]
    BY <1>8, Judged
  <2>. QED BY <2>1, <2>2 DEF ResultsJustified, Justified, Hosts
<1>9. CASE applyPolicy \/ enforce
  <2>1. UNCHANGED <<cache, scan>> /\ policy'.todo \in {cache, policy.todo}
    BY <1>9 DEF applyPolicy, enforce, NoVerdict
  <2>. QED BY <2>1 DEF ResultsJustified, Justified, Hosts
<1>10. CASE UNCHANGED <<cache, scan, policy>>
  BY <1>10 DEF ResultsJustified, Justified, Hosts
<1>11. CASE learningEnds \/ UNCHANGED vars
  BY <1>10, <1>11 DEF learningEnds, vars
<1>12. ASSUME NEW ip \in IP, NEW mac \in MAC \cup {None},
              deadlinePasses(ip) \/ ownerChanges(ip, mac)
       PROVE  ResultsJustified'
  BY <1>10, <1>12 DEF deadlinePasses, ownerChanges
<1>. QED BY <1>3, <1>4, <1>5, <1>6, <1>7, <1>8, <1>9, <1>11, <1>12
         DEF Next, examine, decide

\* A denial is given for a reason that the result supports, and goes on holding of
\* whoever has kept the address.
LEMMA NextDenial ==
  TypeOK /\ ExaminesHosts /\ ResultsNameOwners /\ ResultsJustified /\ DenialJustified
      /\ [Next]_vars
    => DenialJustified'
<1>. SUFFICES ASSUME TypeOK, ExaminesHosts, ResultsNameOwners, ResultsJustified,
                     DenialJustified, [Next]_vars
              PROVE  DenialJustified'
  OBVIOUS
<1>1. ASSUME NEW ip \in IP, judge(ip) PROVE DenialJustified'
  <2>. DEFINE r == policy.todo[ip]
              spared == r.isolated \/ r.mac \in Protected
              reason == IF spared THEN "none" ELSE evaluateAdmission(ip, r)
              denied == Mode = "aplicar" /\ reason # "none"
  <2>1. /\ policy'.target = IF denied THEN ip ELSE None
        /\ policy'.reason = IF denied THEN reason ELSE "none"
        /\ UNCHANGED <<arp, moves>> /\ ip \in Hosts(policy.todo)
    BY <1>1 DEF judge, network
  <2>. SUFFICES ASSUME denied
                PROVE  /\ ip \notin Outside
                       /\ reason = "risk" /\ moves[ip] = 0 =>
                            arp[ip] \notin Protected /\ {arp[ip], ip} \cap Exposed # {}
    BY <2>1 DEF DenialJustified
  <2>2. ip \notin Outside /\ r.mac \notin Protected
    BY DEF evaluateAdmission
  <2>3. ASSUME reason = "risk", moves[ip] = 0
        PROVE  arp[ip] \notin Protected /\ {arp[ip], ip} \cap Exposed # {}
    <3>1. r.mac = arp[ip]
      BY <2>1, <2>3 DEF ResultsNameOwners, NamesOwner
    <3>2. r.risk = "alto"
      BY <2>3 DEF evaluateAdmission
    <3>. QED BY <2>1, <2>2, <3>1, <3>2 DEF ResultsJustified, Justified
  <2>. QED BY <2>2, <2>3
<1>2. CASE applyPolicy \/ enforce
  BY <1>2 DEF applyPolicy, enforce, DenialJustified, NoVerdict
<1>3. ASSUME NEW ip \in IP, NEW mac \in MAC \cup {None}, ownerChanges(ip, mac)
      PROVE  DenialJustified'
  <2>1. moves'[ip] # 0 /\ \A q \in IP \ {ip} : arp'[q] = arp[q] /\ moves'[q] = moves[q]
    BY <1>3 DEF ownerChanges, TypeOK
  <2>2. UNCHANGED policy /\ (policy.target # None => policy.target \in IP)
    BY <1>3 DEF ownerChanges, TypeOK, PolicyState
  <2>. QED BY <2>1, <2>2 DEF DenialJustified
<1>4. CASE UNCHANGED <<arp, moves, policy>>
  BY <1>4 DEF DenialJustified
<1>5. ASSUME NEW s \in Scanner, examine(s) PROVE DenialJustified'
  BY <1>4, <1>5 DEF examine, publish, identify, inspect, network
<1>6. ASSUME NEW h \in Handler, Request(h) PROVE DenialJustified'
  BY <1>4, <1>6, Requested
<1>7. CASE loopScans \/ detectChanges \/ learningEnds \/ UNCHANGED vars
           \/ \E ip \in IP : deadlinePasses(ip)
  BY <1>4, <1>7 DEF loopScans, detectChanges, learningEnds, deadlinePasses, vars, network
<1>. QED BY <1>1, <1>2, <1>3, <1>5, <1>6, <1>7 DEF Next, decide

\* However old the result a verdict rests on, a device the policy is about to isolate
\* for its risk, and that has kept its address, is exposed and not protected.
THEOREM DenialsJustified == Spec => []DenialJustified
<1>. DEFINE Inv == ResultsNameOwners /\ ResultsJustified /\ DenialJustified
<1>1. Init => Inv
  <2>. SUFFICES ASSUME Init PROVE Inv
    OBVIOUS
  <2>1. Hosts(Nothing) = {}
    BY DEF Hosts, Nothing
  <2>2. ResultsNameOwners
    BY <2>1 DEF Init, ResultsNameOwners, NamesOwner, NoScan, NoVerdict
  <2>3. ResultsJustified
    BY <2>1 DEF Init, ResultsJustified, Justified, NoScan, NoVerdict
  <2>. QED BY <2>2, <2>3 DEF Init, DenialJustified, NoVerdict
<1>2. TypeOK /\ ExaminesHosts /\ Inv /\ [Next]_vars => Inv'
  BY NextOwners, NextJustified, NextDenial
<1>. HIDE DEF Inv
<1>3. Inv => DenialJustified
  BY DEF Inv
<1>. QED BY <1>1, <1>2, <1>3, TypeCorrect, PTL DEF Spec

\* What people have no part in: as long as nobody asks the dashboard to isolate,
\* whoever is isolated and has kept its address is an exposed device of this network,
\* neither the router nor this machine, and in simulation there is nobody (nac.go,
\* applyPolicy).
IsolatedOnPurpose ==
  \A ip \in isolations :
    /\ Mode = "aplicar" /\ ip \notin Outside
    /\ moves[ip] = 0 => arp[ip] \notin Protected /\ {arp[ip], ip} \cap Exposed # {}

\* The order that follows a verdict isolates the device the verdict was about, or one
\* that has changed its address since startup.
LEMMA NextOnPurpose ==
  "isolate" \notin Input /\ TypeOK /\ DenialJustified /\ GraceCoversResidents
      /\ (policy.target # None => Mode = "aplicar") /\ IsolatedOnPurpose /\ [Next]_vars
    => IsolatedOnPurpose' /\ (policy'.target # None => Mode = "aplicar")
<1>. SUFFICES ASSUME "isolate" \notin Input, TypeOK, DenialJustified, GraceCoversResidents,
                     policy.target # None => Mode = "aplicar", IsolatedOnPurpose,
                     [Next]_vars
              PROVE  IsolatedOnPurpose' /\ (policy'.target # None => Mode = "aplicar")
  OBVIOUS
<1>. DEFINE Goal == IsolatedOnPurpose' /\ (policy'.target # None => Mode = "aplicar")
<1>1. ASSUME isolations' \subseteq isolations, UNCHANGED <<arp, moves>>,
             policy'.target # None => Mode = "aplicar"
      PROVE  Goal
  BY <1>1 DEF IsolatedOnPurpose
<1>2. CASE enforce
  <2>. DEFINE ip == policy.target
  <2>1. /\ ip \in IP /\ Mode = "aplicar" /\ isolations' \subseteq isolations \cup {ip}
        /\ UNCHANGED <<arp, moves>> /\ policy'.target = None
    BY <1>2 DEF enforce, network, NoVerdict, TypeOK, PolicyState
  <2>2. ip \notin Outside
    BY <1>2 DEF enforce, DenialJustified
  <2>3. ASSUME moves[ip] = 0
        PROVE  arp[ip] \notin Protected /\ {arp[ip], ip} \cap Exposed # {}
    <3>1. policy.reason \in {"unknown", "risk"}
      BY <1>2 DEF enforce, DenialJustified, TypeOK, PolicyState
    <3>2. policy.reason # "unknown"
      BY <2>3 DEF GraceCoversResidents
    <3>. QED BY <1>2, <2>3, <3>1, <3>2 DEF enforce, DenialJustified
  <2>. QED BY <2>1, <2>2, <2>3 DEF IsolatedOnPurpose
<1>3. ASSUME NEW ip \in IP, judge(ip) PROVE Goal
  <2>1. UNCHANGED <<isolations, arp, moves>> /\ (policy'.target # None => Mode = "aplicar")
    BY <1>3 DEF judge, network
  <2>. QED BY <1>1, <2>1
<1>4. CASE applyPolicy
  BY <1>1, <1>4 DEF applyPolicy, NoVerdict, network
<1>5. ASSUME NEW h \in Handler, Request(h) PROVE Goal
  <2>1. isolations' \subseteq isolations
    BY <1>5 DEF Request, refreshHandler, trustHandler, isolateHandler, reconnectHandler
  <2>. QED BY <1>1, <1>5, <2>1, Requested
<1>6. ASSUME NEW s \in Scanner, examine(s) PROVE Goal
  BY <1>1, <1>6 DEF examine, publish, identify, inspect, network
<1>7. ASSUME NEW ip \in IP, NEW mac \in MAC \cup {None}, ownerChanges(ip, mac) PROVE Goal
  <2>1. moves'[ip] # 0 /\ \A q \in IP \ {ip} : arp'[q] = arp[q] /\ moves'[q] = moves[q]
    BY <1>7 DEF ownerChanges, TypeOK
  <2>2. UNCHANGED <<isolations, policy>> /\ isolations \subseteq IP
    BY <1>7 DEF ownerChanges, TypeOK
  <2>. QED BY <2>1, <2>2 DEF IsolatedOnPurpose
<1>8. CASE loopScans \/ detectChanges \/ learningEnds \/ UNCHANGED vars
           \/ \E ip \in IP : deadlinePasses(ip)
  BY <1>1, <1>8 DEF loopScans, detectChanges, learningEnds, deadlinePasses, vars, network
<1>. QED BY <1>2, <1>3, <1>4, <1>5, <1>6, <1>7, <1>8 DEF Next, decide

\* If the learning window outlasts two scans of the loop and nobody isolates by hand,
\* the policy isolates only the exposed among those who have kept their address, and
\* in simulation it isolates nobody.
THEOREM PolicyIsolatesExposed ==
  ASSUME LearningScans >= 2, "isolate" \notin Input PROVE Spec => []IsolatedOnPurpose
<1>. DEFINE Inv == IsolatedOnPurpose /\ (policy.target # None => Mode = "aplicar")
<1>1. Init => Inv
  BY DEF Init, IsolatedOnPurpose, NoVerdict
<1>2. TypeOK /\ DenialJustified /\ GraceCoversResidents /\ Inv /\ [Next]_vars => Inv'
  BY NextOnPurpose
<1>3. Inv => IsolatedOnPurpose
  OBVIOUS
<1>. HIDE DEF Inv
<1>. QED BY <1>1, <1>2, <1>3, TypeCorrect, DenialsJustified, GraceCovers, PTL DEF Spec

=============================================================================
