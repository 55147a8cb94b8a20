------------------------------- MODULE Exposure -------------------------------
(***************************************************************************)
(* Which devices to look at first (priority.go), from three things that    *)
(* are gathered apart: the risk each scan finds, with the marks that a     *)
(* device at high risk carries (metrics.go), and the ports that the router *)
(* opened to the internet, asked for one index at a time (upnp.go).        *)
(*                                                                         *)
(* Scans overlap: each marks the risks it found and then publishes its     *)
(* results, under two different mutexes.  The router may change its list   *)
(* between two questions of one walk; whoever answers the discovery names  *)
(* the page to read first, and that download has no time limit.  A device  *)
(* is an address here, the trust put in its MAC included; a scan is one    *)
(* look at all of them.                                                    *)
(*                                                                         *)
(* A definition X_Y just above a definition X is X with a mistake in it;   *)
(* the specification does not use it.                                      *)
(***************************************************************************)
EXTENDS Integers, FiniteSets, Sequences

CONSTANTS
  IP,                \* addresses of devices
  Port,              \* portsToCheck
  HighPort,          \* those whose risk is "alto"
  External,          \* protocol and external port of a mapping
  minimumSample,
  ubiquityThreshold, \* in hundredths
  MaxMappings,       \* 64 in the code: indices asked for in one walk
  Absent,            \* a device that is not there
  Loop,              \* the goroutine of startContinuousMonitoring
  Handler,           \* goroutines that serve the dashboard
  MaxChanges         \* bound: how many changes around us and failed questions

Scanner == Handler \cup {Loop}

ASSUME PortAssumption == HighPort \subseteq Port /\ IsFiniteSet(IP)

ASSUME ContextAssumption ==
  /\ minimumSample \in Nat \ {0}
  /\ ubiquityThreshold \in 1..100
  /\ MaxMappings \in Nat \ {0}

ASSUME BoundAssumption == MaxChanges \in Nat

Device == [ports : SUBSET Port, trusted : BOOLEAN]

ASSUME AbsentAssumption == Absent \notin Device

Results == [IP -> Device \cup {Absent}]
Nobody == [ip \in IP |-> Absent]

Mapping == [external : External, ip : IP]

VARIABLES
  device,          \* the devices as they are
  router,          \* the mappings of the router, by index
  scan,            \* each goroutine's progress through refreshCache
  highRiskSince,   \* the addresses that have a mark
  lastResults,
  round,           \* what checkUPnPExposure is at: looking for the router, reading
                   \* a description that does not come, or walking the indices
  poll,            \* the mappings startUPnPCheck has read in this round
  upnpMappings,
  previous,        \* startUPnPCheck's, the keys of the last round
  first,           \* startUPnPCheck's: no round has ended yet
  announced,       \* history: keys that an upnp_exposicao event named
  initial,         \* history: keys of the first round
  changes          \* how many changes and failures there were

world == <<device, router>>
scanning == <<scan, highRiskSince, lastResults>>
polling == <<round, poll, upnpMappings, previous, first, announced, initial>>
vars == <<world, scanning, polling, changes>>

ScanState == [phase : {"idle", "found", "marked"}, results : Results]
NoScan == [phase |-> "idle", results |-> Nobody]

MappingsIn(list) == {list[i] : i \in DOMAIN list}
KeysOf(mappings) == {m.external : m \in mappings}

\* The lists the router may hold: a key is mapped once.
Routers ==
  {list \in UNION {[1..n -> Mapping] : n \in 0..Cardinality(External)} :
     \A i, j \in DOMAIN list : list[i].external = list[j].external => i = j}

Init ==
  /\ device \in Results
  /\ router \in Routers
  /\ scan = [s \in Scanner |-> NoScan]
  /\ highRiskSince = {}
  /\ lastResults = Nobody
  /\ round = "discovering"
  /\ poll = <<>>
  /\ upnpMappings = {}
  /\ previous = {}
  /\ first = TRUE
  /\ announced = {}
  /\ initial = {}
  /\ changes = 0

Counted == changes < MaxChanges /\ changes' = changes + 1

-----------------------------------------------------------------------------
(* Risk and priority, of the devices that some scan found *)

Present(results) == {ip \in IP : results[ip] # Absent}

scanNetwork_All(devices) == devices

\* A trusted device's ports are not scanned.
scanNetwork(devices) ==
  [ip \in IP |-> IF devices[ip] # Absent /\ devices[ip].trusted
                 THEN [ports |-> {}, trusted |-> TRUE] ELSE devices[ip]]

AtHighRisk(results) == {ip \in Present(results) : results[ip].ports \cap HighPort # {}}

\* The share of devices that have a port open is no less than the threshold.
prevalent(port, results) ==
  100 * Cardinality({ip \in Present(results) : port \in results[ip].ports})
    >= ubiquityThreshold * Cardinality(Present(results))

\* The ports that are the environment's normal.
baselinePorts(results) ==
  {port \in Port : Cardinality(Present(results)) >= minimumSample /\ prevalent(port, results)}

unusual_AnyCommon(ip, results) ==
  IF \E port \in results[ip].ports \cap HighPort :
       port \in baselinePorts(results)
  THEN {} ELSE results[ip].ports \cap HighPort

\* The high-risk ports of a device that are unusual on this network.
unusual(ip, results) ==
  (results[ip].ports \cap HighPort) \ baselinePorts(results)

prioRoutine == 0
prioReview == 1
prioAct == 2

priorityOf(ip, results, mappings) ==
  IF results[ip].trusted \/ results[ip].ports = {} THEN prioRoutine
  ELSE IF \E m \in mappings : m.ip = ip THEN prioAct
  ELSE IF unusual(ip, results) # {} THEN prioReview
  ELSE prioRoutine

-----------------------------------------------------------------------------
(* refreshCache: a scan, the marks, the results *)

scanEnds(s) ==
  /\ scan[s].phase = "idle"
  /\ scan' = [scan EXCEPT ![s] = [phase |-> "found", results |-> scanNetwork(device)]]
  /\ UNCHANGED <<world, highRiskSince, lastResults, polling, changes>>

noteRiskLevel_Present(s) ==
  LET results == scan[s].results
      risky == {ip \in AtHighRisk(results) : ~ results[ip].trusted} IN
  /\ scan[s].phase = "found"
  /\ highRiskSince' = risky \cup (highRiskSince \ Present(results))
  /\ scan' = [scan EXCEPT ![s].phase = "marked"]
  /\ UNCHANGED <<world, lastResults, polling, changes>>

\* A mark is set, kept or cleared by what this scan found.
noteRiskLevel(s) ==
  LET results == scan[s].results IN
  /\ scan[s].phase = "found"
  /\ highRiskSince' = {ip \in AtHighRisk(results) : ~ results[ip].trusted}
  /\ scan' = [scan EXCEPT ![s].phase = "marked"]
  /\ UNCHANGED <<world, lastResults, polling, changes>>

publish(s) ==
  /\ scan[s].phase = "marked"
  /\ lastResults' = scan[s].results
  /\ scan' = [scan EXCEPT ![s] = NoScan]
  /\ UNCHANGED <<world, highRiskSince, polling, changes>>

-----------------------------------------------------------------------------
(* startUPnPCheck: a round of it *)

\* The router answers, and so does the page it names: the walk begins.  Nothing limits
\* how long the download takes; one that stalled may still come.
discoverUPnPControlURL ==
  /\ round \in {"discovering", "stalled"}
  /\ round' = "walking"
  /\ UNCHANGED <<world, scanning, poll, upnpMappings, previous, first, announced, initial,
                 changes>>

\* A host answers the discovery and keeps silent on the page it names.
descriptionStalls ==
  /\ Counted
  /\ round = "discovering"
  /\ round' = "stalled"
  /\ UNCHANGED <<world, scanning, poll, upnpMappings, previous, first, announced, initial>>

\* The answer at the next index, as the router's list is now.
queryUPnPMapping ==
  /\ round = "walking"
  /\ Len(poll) < MaxMappings /\ Len(poll) < Len(router)
  /\ poll' = Append(poll, router[Len(poll) + 1])
  /\ UNCHANGED <<world, scanning, round, upnpMappings, previous, first, announced, initial,
                 changes>>

endRound_Grown(mappings) ==
  LET current == KeysOf(mappings) IN
  /\ round' = "discovering" /\ poll' = <<>>
  /\ upnpMappings' = mappings
  /\ announced' = IF first \/ Cardinality(current) <= Cardinality(previous) THEN announced
                  ELSE announced \cup (current \ previous)
  /\ initial' = IF first THEN current ELSE initial
  /\ first' = FALSE
  /\ previous' = current

endRound_Keep(mappings) ==
  LET current == KeysOf(mappings) IN
  /\ round' = "discovering" /\ poll' = <<>>
  /\ upnpMappings' = upnpMappings \cup mappings
  /\ announced' = IF first THEN announced ELSE announced \cup (current \ previous)
  /\ initial' = IF first THEN current ELSE initial
  /\ first' = FALSE
  /\ previous' = current

\* The cache takes what was read; then an event for every key that the last
\* round did not have, but for the first round.
endRound(mappings) ==
  LET current == KeysOf(mappings) IN
  /\ round' = "discovering" /\ poll' = <<>>
  /\ upnpMappings' = mappings
  /\ announced' = IF first THEN announced ELSE announced \cup (current \ previous)
  /\ initial' = IF first THEN current ELSE initial
  /\ first' = FALSE
  /\ previous' = current

\* The walk ends past the last entry and at the limit.
walkEnds ==
  /\ round = "walking"
  /\ Len(poll) = MaxMappings \/ Len(poll) >= Len(router)
  /\ endRound(MappingsIn(poll))
  /\ UNCHANGED <<world, scanning, changes>>

\* No router answers the discovery, or its description is of no use: the round ends as
\* if the router listed nothing.
discoveryFails ==
  /\ round \in {"discovering", "stalled"}
  /\ IF round = "stalled" THEN UNCHANGED changes ELSE Counted
  /\ endRound({})
  /\ UNCHANGED <<world, scanning>>

\* One question of the walk has no answer: the round ends with what was read, as if it
\* were all there is.
queryFails ==
  /\ Counted
  /\ round = "walking" /\ Len(poll) < MaxMappings
  /\ endRound(MappingsIn(poll))
  /\ UNCHANGED <<world, scanning>>

-----------------------------------------------------------------------------
(* What changes around the machine *)

\* A device comes, goes, opens or closes ports, is trusted or no longer so.
deviceChanges(ip, new) ==
  /\ Counted
  /\ device[ip] # new
  /\ device' = [device EXCEPT ![ip] = new]
  /\ UNCHANGED <<router, scanning, polling>>

\* The router appends a mapping; a key is mapped once.
addMapping(mapping) ==
  /\ Counted
  /\ mapping.external \notin KeysOf(MappingsIn(router))
  /\ router' = Append(router, mapping)
  /\ UNCHANGED <<device, scanning, polling>>

\* The router takes one away: the later ones move up.
deleteMapping(index) ==
  /\ Counted
  /\ router' = SubSeq(router, 1, index - 1) \o SubSeq(router, index + 1, Len(router))
  /\ UNCHANGED <<device, scanning, polling>>

ScanStep(s) == noteRiskLevel(s) \/ publish(s)

PollStep == discoverUPnPControlURL \/ queryUPnPMapping \/ walkEnds

World ==
  \/ \E ip \in IP, new \in Device \cup {Absent} : deviceChanges(ip, new)
  \/ \E mapping \in Mapping : addMapping(mapping)
  \/ \E index \in DOMAIN router : deleteMapping(index)
  \/ descriptionStalls \/ discoveryFails \/ queryFails

Next ==
  \/ \E s \in Scanner : scanEnds(s) \/ ScanStep(s)
  \/ PollStep
  \/ World

Spec == Init /\ [][Next]_vars

\* The loop scans, and a scan that ended is published.  The router is asked again and
\* again: the sleeps are finite, and so are the wait for an answer to the discovery and
\* each question of the walk (upnp.go:70, 147); but not the download of the description
\* (upnp.go:100), and nothing makes one that stalls come to an end.  Nobody need open
\* the dashboard, and nothing need change.
Fairness ==
  /\ WF_vars(scanEnds(Loop))
  /\ \A s \in Scanner : WF_vars(ScanStep(s))
  /\ WF_vars(PollStep /\ round # "stalled")

FairSpec == Spec /\ Fairness

-----------------------------------------------------------------------------
(* Properties *)

\* Every variable stays in its domain; a walk never reads more than
\* MaxMappings entries (upnp.go:199), and no trusted device has ports in the
\* results (dashboard.go:124-133).
TypeOK ==
  /\ device \in Results
  /\ router \in Seq(Mapping)
  /\ scan \in [Scanner -> ScanState]
  /\ round \in {"discovering", "stalled", "walking"}
  /\ poll \in Seq(Mapping) /\ Len(poll) <= MaxMappings
  /\ highRiskSince \subseteq IP
  /\ lastResults \in Results
  /\ \A ip \in Present(lastResults) : lastResults[ip].trusted => lastResults[ip].ports = {}
  /\ upnpMappings \subseteq Mapping
  /\ previous \subseteq External /\ announced \subseteq External /\ initial \subseteq External
  /\ first \in BOOLEAN
  /\ changes \in 0..MaxChanges

\* Results as if one device had one more port open.
Opened(results, ip, port) == [results EXCEPT ![ip].ports = @ \cup {port}]

\* A device that opens one more port never comes out calmer for it, although
\* the port's share on the network grows with it (priority.go:97-127).
OpeningNeverCalms ==
  \A ip \in Present(lastResults), port \in Port :
    priorityOf(ip, lastResults, upnpMappings)
      <= priorityOf(ip, Opened(lastResults, ip, port), upnpMappings)

\* The marks and the results follow the network in the end, however the scans
\* overlapped: a device at high risk for good carries a mark, unless it is
\* trusted, and one that calmed down or left carries none (metrics.go:49-74).
MarksFollowRisk ==
  \A ip \in IP :
    LET risky == device[ip] # Absent /\ ~ device[ip].trusted
                   /\ device[ip].ports \cap HighPort # {} IN
      /\ <>[]risky => <>[](ip \in highRiskSince)
      /\ <>[](~ risky) => <>[](ip \notin highRiskSince)

\* Every port that the dashboard shows as reached from the internet was the first
\* round's or had its event, though rounds fail, mappings move up while they are read
\* and close and open again; and no list is longer than one walk (upnp.go:195-251).
ExposuresTold ==
  /\ KeysOf(upnpMappings) \subseteq announced \cup initial
  /\ Cardinality(upnpMappings) <= MaxMappings

\* Whatever download of a description stalls, it ends.  The code does not see to it.
DownloadsEnd == []<>(round # "stalled")

\* A port that the router opened for good is reported, unless the first round
\* found it, whatever failed, opened and closed in the meantime, as long as no
\* download hangs for ever; one that it lists past the limit is not
\* (upnp.go:220-251).
NewMappingReported ==
  DownloadsEnd =>
    \A key \in External :
      <>[](\E i \in DOMAIN router : i <= MaxMappings /\ router[i].external = key)
        => <>(key \in announced \cup initial)

\* A device with an open port that the internet reaches for good is to be
\* acted on first in the end, and one that is not reached is not, as long as
\* no download hangs for ever (priority.go:90-93, 105-107).
ExposedActsFirst ==
  DownloadsEnd =>
    \A ip \in IP :
      LET open == device[ip] # Absent /\ ~ device[ip].trusted /\ device[ip].ports # {}
          act == /\ lastResults[ip] # Absent
                 /\ priorityOf(ip, lastResults, upnpMappings) = prioAct IN
        /\ <>[](open /\ \E i \in DOMAIN router : i <= MaxMappings /\ router[i].ip = ip)
             => <>[]act
        /\ <>[](~ \E i \in DOMAIN router : router[i].ip = ip) => <>[](~ act)

=============================================================================
