# ImmuneGate in TLA+

This directory is the verification project of ImmuneGate (the program of this
repository): TLA+ modules translated from its Go source, TLC configurations
that model-check them, and TLAPS proofs of the results that matter most.

ImmuneGate is one Go package.  It scans a home network, identifies what is on
it, and can *contain* a device: drop its traffic with Netfilter rules and keep
its ARP cache, and the router's entry for it, poisoned.  A person gives the order
through the dashboard, another ImmuneGate through the agent API, or the
program gives it by itself (network admission control).

Contents: [1 Inventory](#1-inventory), [2 The modules](#2-the-modules),
[3 The runs](#3-the-runs), [4 Fairness](#4-fairness), [5 The proofs](#5-the-proofs),
[6 What the checks found](#6-what-the-checks-found),
[7 Not modelled](#7-not-modelled), [8 The plan](#8-the-plan).

## 1 Inventory

All state is in memory, in package variables guarded by one mutex each; a few
lists are also saved as JSON.  Nothing coordinates two of those mutexes, so
every interaction below is a place where two goroutines can be out of step.

| component | source | state it keeps | operations that change it |
|---|---|---|---|
| Containment engine | `isolation.go`, `guard.go` | `isolations` (address → order, deadline, cancel); outside the program: FORWARD rules, ip6tables rules, two ARP caches per device | `isolateDevice`, `reconnectDevice`, the watcher's tick, the spoofing goroutine, `cleanOrphanRules` |
| Scanning and cache | `dashboard.go`, `monitoring.go`, `network.go`, `ports.go` | `lastResults`; the loop's `previous` scan | `scanNetwork`, `refreshCache`, `detectChanges`, the dashboard's handlers |
| Admission policy | `nac.go` | `verdict`, the mode, the learning window | `applyPolicy` (one pass over the cache per tick) |
| Inventory, trust | `inventory.go`, `trust.go` | `knownDevices`, `trusted`; both saved | `markSeen`, `setTrusted`, loading |
| Distributed mode | `agent.go` | per-agent list of devices, failure state | polling, forwarded orders, the agent API |
| History | `history.go` | the last 200 events; an append-only file | `record`, loading |
| Spoofing detectors | `spoofing.go`, `dhcp.go` | MAC of the gateway, flags per MAC, known DHCP servers | one check per observation |
| Wi-Fi, UPnP checks | `wifi.go`, `upnp.go` | access points seen, port mappings seen | one check per tick |
| Metrics, health, incidents, priorities | `metrics.go`, `noc.go`, `soc.go`, `priority.go` | `highRiskSince`, `hostHealthByIP`, samples (200 per list) | `noteRiskLevel`, `recordProbe`, sampling; the rest are pure functions |
| Identification | `identification.go`, `mdns_ssdp.go` | caches of names | listeners |
| Pages | `page.go`, `networkmap.go` | none | rendering |
| Startup | `main.go` | none | order of initialisation |

How they interact:

* the **loop** (`startContinuousMonitoring`) scans, publishes the result in
  `lastResults`, compares it with the previous one and enters every address in
  the inventory;
* every **handler** that changes something (trust, isolate, reconnect, refresh)
  then scans too and publishes, at the same time as the loop, and the last to
  finish wins;
* the **policy** runs on a third clock: it takes a snapshot of `lastResults`,
  asks the inventory live, and calls `isolateByIP`, which reads the ARP table
  again;
* the **engine** is called by the handlers, the policy and the agent API; its
  **watcher** reconnects what has expired; each isolation leaves a **spoofing
  goroutine** behind;
* a scan reads the trust list, the map of isolations and iptables, seconds
  apart, and each device on a goroutine of its own;
* every scan, the handlers' too, also pings all candidates, compares the ARP table with
  earlier ones and marks devices at high risk, so the flags, the health and the marks are
  written by overlapping scans, each under a mutex of its own;
* three **watchers** (DHCP, Wi-Fi, UPnP) run next to all this and meet the rest in the list
  of events and, for UPnP, in the priority of a device.

What is hard about it:

* *check, let go, act*: `isolateDevice` reads its map under the mutex, runs three
  firewall commands without it and writes the map afterwards; the watcher
  collects addresses under the mutex and reconnects them without it;
* *shared, anonymous resources*: firewall rules are deleted by their text, so a
  reconnection may delete a rule another order has just inserted;
* *partial failure*: every command can fail, and deletions are never checked;
* *crashes*: rules survive the program, the map does not;
* *stale snapshots*: the policy judges what an earlier scan saw;
* *three unsynchronised clocks*: the grace given to devices present at startup
  depends on how many scans fit into the learning window;
* *time*: deadlines that must expire, ARP entries that must be restored though
  replies are lost and though an earlier isolation's last replies are still
  being sent.

What makes each component correct:

* **Engine.** Isolated means blocked; released and left alone means free; the router
  and this machine are never touched; a timed isolation ends and an untimed one
  does not; ARP caches heal after release and stay poisoned before it.
* **Admission.** Devices there at startup are not quarantined as unknown; exposed
  devices are contained again and again; trust wins in the end; unknown devices
  are denied.
* **Scanning.** What changed between two consecutive scans is reported; whoever is in the inventory is not new.
* **Distributed mode.** What the central tells its user of an order is what the agent did;
  the central's list agrees with its errors, and with the agents in the end.
* **Persistence.** What was acknowledged survives a restart; the two copies agree.
* **Detectors.** An attack is reported when it starts, once, and the state of a detector
  follows the network in the end, whatever the order of the scans; the first observations are not attacks.
* **Sweep.** Every candidate is pinged once, no answer is lost, the pool does not block.
* **Priorities.** What the internet reaches comes first; a device is not excused for being worse.

`PROJECT.json` lists every hazard at its line, with the properties that cover
it or the part of the plan that will.

## 2 The modules

| module | what it is |
|---|---|
| `Containment` | the engine: state machine, properties, inductive invariant |
| `Quarantine` | the abstract promise `Containment` implements |
| `MCContainment` + 3 `.cfg` | small instances |
| `ContainmentProofs` | theorems about `Containment` |
| `Admission` | scanning, cache, inventory, trust and policy together |
| `MCAdmission` + 2 `.cfg` | small instances |
| `AdmissionProofs` | theorems about `Admission` |
| `Monitoring` | the comparison of two scans and the events it records |
| `MCMonitoring` + 1 `.cfg` | a small instance |
| `MonitoringProofs` | theorems about `Monitoring` |
| `Agents` | central and agents: polling and forwarded orders |
| `Delegation` | the abstract promise `Agents` implements |
| `MCAgents` + 1 `.cfg` | a small instance |
| `AgentsProofs` | theorems about `Agents` |
| `Persistence` | trust list, inventory and history: memory against disk |
| `MCPersistence` + 1 `.cfg` | a small instance |
| `PersistenceProofs` | theorems about `Persistence` |
| `Sweep` | the pool of pings a scan begins with, and the health of hosts |
| `MCSweep` + 1 `.cfg` | a small instance |
| `SweepProofs` | theorems about `Sweep` |
| `Spoofing` | the router's MAC and duplicated MACs, in overlapping scans |
| `MCSpoofing` + 1 `.cfg` | a small instance |
| `Surroundings` | the watchers of DHCP servers and of the Wi-Fi |
| `MCSurroundings` + 1 `.cfg` | a small instance |
| `DetectorsProofs` | theorems about `Surroundings` and `Spoofing` |
| `Exposure` | risk marks, port mappings and priorities |
| `MCExposure` + 1 `.cfg` | a small instance |
| `ExposureProofs` | theorems about `Exposure` |

Definitions named `X_Y` just above a definition `X` are `X` with a plausible
bug; no specification uses them.  Putting `X_Y` in the place of `X` makes TLC
report the property `PROJECT.json` pairs it with, so each property is known to notice
something.

### Containment

| TLA+ | Go |
|---|---|
| `isolations` | the map `isolations`; it names the session that published the entry |
| `call[s]` | one call of `isolateDevice` and the goroutine it starts: program counter (`phase`), target, deadline, cancellation of its context |
| `release[r]` | one caller of `reconnectDevice`: a handler (`User`) or the `Watcher` |
| `expired` | the watcher's slice of addresses, built under the mutex, used without it |
| `src`, `dst`, `v6` | how many equal rules the FORWARD chains hold |
| `forged` | which of the two ARP caches holds a forged entry for the address |
| `up` | is the process alive |

| action | code |
|---|---|
| `isolateDevice` | guard, protected targets, the map under the mutex |
| `blockSource`, `blockDest`, `undoSource`, `blockMAC` | the three `-I` of `blockForwarding`, and the rollback |
| `publish` | the map written under the mutex |
| `spoofRound`, `stopSpoofing`, `restoreARP` | the goroutine; `select` may choose the ticker though cancelled |
| `reconnectDevice`, `cancel`, `unblockSource/Dest/MAC` | `reconnectDevice`, command by command |
| `deadlinePasses`, `collectExpired`, `reconnectExpired` | the watcher |
| `startProgram`, `cleanOrphanRules` | startup before any goroutine exists |
| `startSecondInstance`, `crash`, `flushRules`, `arpAges` | the world outside |

Every mutex-protected block is one step and every external command is one step.
Time is abstracted to "the deadline has passed".  Equal rules cannot be told
apart, so a chain is a count per address.  History events, the traffic capture and timing
samples are output; the bytes of the packets are `forged`; the forged IPv6
router advertisement is never undone by the code and left out.

`Fault` chooses what may go wrong in a run: a failing insertion or deletion, a lost
ARP reply, `iptables -F` by somebody else, a crash with restart, a second
instance.

### Quarantine

Two sets, `held` and `blocked`, and the order in which they may change: blocked before
shown as isolated, shown as released before unblocked.  `Containment` refines it
with `held` the domain of the map and `blocked` the addresses with both rules
(`KeepsPromise`).

### Admission

| TLA+ | Go |
|---|---|
| `arp` | this machine's ARP table: who answers on an address |
| `known`, `trusted` | `knownDevices`, `trusted` |
| `isolations` | the domain of the map; an isolation is one step here |
| `cache` | `lastResults` |
| `scan[s]` | each goroutine's progress through `refreshCache`; hosts are examined side by side, the trust list and the isolations at different moments |
| `laps`, `learning` | how many scans the loop has finished; has the learning window passed |
| `policy` | one pass of `applyPolicy`: results still to judge, the device just denied |

| action | code |
|---|---|
| `loopScans`, `detectChanges` | `startContinuousMonitoring`; the first scan is not compared and not remembered |
| `identify`, `inspect`, `publish` | `scanNetwork` per host, then `refreshCache` |
| `refreshHandler`, `trustHandler`, `isolateHandler`, `reconnectHandler` | the dashboard |
| `learningEnds` | `currentPolicy` after `learningWindow` |
| `applyPolicy`, `judge`, `enforce` | one tick of the policy: snapshot, verdict per host, `isolateByIP` |
| `deadlinePasses` | the watcher |
| `ownerChanges` | devices join, leave, change address |

The two modules meet in `isolations`: `Admission` uses of the engine only that
an accepted order adds an address and a reconnection or deadline removes it,
atomically.  That the map can be believed is what `Containment` shows
(`IsolatedIsBlocked`, `KeepsPromise`); that a deadline always comes is
`TimedIsolationEnds`, and where that fails (6) an isolation of `Admission` just
lasts.

### Monitoring

| TLA+ | Go |
|---|---|
| `owner`, `open`, `trusted`, `isolations`, `rules` | what a scan observes: who answers at each address, whose port is open, the trust list, the map of isolations, the DROP rules in the kernel |
| `scan` | the loop's `scanNetwork` under way |
| `previous`, `firstScan` | the locals of `startContinuousMonitoring` |
| `macOf`, `NoMAC` | the ARP table's entry for a host; one of `REDES_EXTRAS` has none, and so no vendor, no trust, no place in the inventory and no isolation |
| `known` | `knownDevices`; only this loop adds to it |
| `evasionCandidates` | the entries of that map younger than `evasionWindow` |
| `events` | what the last call of `detectChanges` recorded |
| `announced`, `changes` | history of the run, not in the code |

`beginScan` takes the list of hosts, `examine` and `checkBlock` look at one host
(the map of isolations and the rule are read at two moments),
`detectChanges` is the comparison with everything that follows it.  It is one
step: all it reads and writes belongs to its goroutine, but for the inventory, which
only it extends.  The rest of the actions are the world it watches, in which an isolation
has the interface `Containment` gives it: rules first, then the map;
out of the map first, then the rules.  A port and the risk it causes are one bit;
names, types and the text of the events are left out.

Only the loop's scans are modelled here, as the scans of the handlers are never
compared; what they do to the cache is in `Admission`.

### Agents

| TLA+ | Go |
|---|---|
| `up`, `online` | the agents' processes; the devices in their ARP tables |
| `isolations`, `cache` | per agent, the domain of the map and `lastResults` |
| `scan` | scans under way: the agent's loop, and the one that follows each order |
| `poll` | the locals of `refreshAgents`: who has still to answer, `merged`, `failures` |
| `remoteResults`, `agentErrors` | the same variables of the central |
| `order[o]` | one request: the central's handler (`client`), the agent's handler (`server`), and whether the agent's map was changed (`applied`, history) |
| `shown` | which devices a page of the central has ever listed (history) |

| action | code |
|---|---|
| `loopScans`, `loopPublishes` | the agent's `refreshCache` |
| `refreshAgents`, `fetchAgent`, `fetchFails`, `pollEnds` | one poll: all agents at once, the slowest waited for, the result stored at the end |
| `submit` | the central's handlers, up to the choice of the agent |
| `serve`, `serverScans`, `serverPublishes`, `answer` | `/api/isolar`, `/api/reconectar`: the order, the scan, the status |
| `timeout`, `drop` | the time limit of `apiClient`; the agent carries on, or never sees the request |
| `agentStops`, `agentStarts`, `agentActs`, `deviceMoves` | the world outside, limited by `MaxChanges` |

The agents' engine is its interface again: an isolation is an address in the
map.  An order for a device that the list no longer has, given from an older page, is
treated as local and refused (the ARP table has no entry for the address): the model
keeps that, as `client = "local"`.

### Delegation

Two things per order: what its user was told (`told`) and whether it was carried out since (`done`).  An order is
carried out at most once; success says that it was, a refusal that it was not and will not be; only after a failure
may it still be carried out, or never.  `Agents` refines it (`KeepsContract`) with `told` the progress of the central's handler, an order taken for
local counting as refused, and `done` the change of the agent's map.  The scan that follows an order, the list, the agent's death, the time limit and
dropped requests are stutters, or the one step that gives up.

### Persistence

| TLA+ | Go |
|---|---|
| `memory` | `trusted`, `knownDevices` |
| `file` | `confiaveis.json`, `conhecidos.json`: can it be parsed, to what, and how long is it |
| `save[w]` | a writer's progress from its change to the end of `os.WriteFile`, with the copy it will write |
| `disturbed` | lists whose last save failed or was overlapped by another (history of the run) |
| `historyInMemory`, `historyFile`, `halfLine` | the same slice; the lines of `historico.jsonl`; is the last one unfinished |
| `record[r]` | the event a goroutine has put in memory and not yet appended |
| `failed` | events whose append failed (history of the run) |

| action | code |
|---|---|
| `setTrusted`, `markSeen` | the change in memory, under the mutex, that a save follows |
| `copyList`, `openFile`, `writeFile` | `saveTrusted`, `saveKnownDevices`: the copy under the mutex; then the two halves of `os.WriteFile`, truncate and write, without it |
| `saveFails`, `appendFails` | errors, all ignored by the code |
| `recordEvent`, `appendEvent` | memory under the mutex; then the line, without it |
| `restart` | the process ends at any point; `loadHistory`, `loadTrusted`, `loadKnownDevices` |

Each handler has a file descriptor of its own, so of two overlapping saves the second
write starts at the beginning of what the first one wrote, and leaves its end behind if that
is longer (`Written`).  The loop is the only writer of the inventory.  Dates and addresses in an entry,
and the text of an event, are left out: an event is its number.  `loadHistory` skips the lines it cannot parse and keeps the
others in their order: the k-th event it reads is the line of rank k among those that can be read (`parsed`).

### Sweep

| TLA+ | Go |
|---|---|
| `hostsToScan`, `subnetHosts`, `parseExtraNetworks` | the candidates: an address of two ranges is there twice (`Places`) |
| `sweep[s]` | one call of `findActiveHosts`: the goroutine of each candidate (`task`), what the channel delivered (`hosts`), is it closed |
| `hostHealthByIP` | `answered`, `missed` of each host |
| `up`, `outcomes` | who would answer; what was recorded of each host (history) |

| action | code |
|---|---|
| `startSweep` | `findActiveHosts` starts a goroutine for every candidate |
| `takeSlot` | `slots <- struct{}{}` |
| `hostIsUp` | the ping returns, `recordProbe`; one that did not answer gives its slot back |
| `receive` | the collector takes from `found`, which has no buffer; the sender gives its slot back |
| `closeFound`, `sweepReturns` | `wg.Wait(); close(found)`; the loop over `found` ends |
| `hostChanges` | hosts come up and go down |

Addresses are numbers, and a range is its family, its first address and its size.  The limit is on the prefix, so that it is
2^10 addresses of IPv4 and 2^106 of IPv6.  Times and TTLs are left out.

### Spoofing

| TLA+ | Go |
|---|---|
| `arp` | this machine's ARP table |
| `scan[s]` | one `scanNetwork`: the table it read, the MACs still to be counted, the alert it is about to record |
| `suspectGatewayMAC`, `reportedDuplicateMACs` | the same variables |
| `gatewayVerdict`, `announced` | what the events said last (history) |

| action | code |
|---|---|
| `readARPTable` | the table is read, once per scan |
| `checkGatewaySpoofing` | one hold of `arpSpoofMu`, its event included |
| `detectDuplicateMAC` | one hold of `arpDupMu`, for one MAC; Go's order of a map is any order |
| `reportDuplicate`, `endDetection` | `recordEvent`, after the mutex; the end of the loop |
| `ownerChanges` | the kernel's table changes, because of an attack or not |

### Surroundings

| TLA+ | Go |
|---|---|
| `dhcpLearningPeriod`, `knownDHCPServers` | the same variables |
| `heard` | the server for which `startRogueDHCPDetection` left its mutex and has not yet recorded the event |
| `wifi` | one round of `startWifiCheck`: the list that `nmcli` gave, the twins not yet compared, the alert |
| `currentWifiSecurity` | its `Risk` |
| `alertedEvilTwins` | the same variable |
| `language`, `joined`, `air` | the language `nmcli` answers in; the network we are on: its protocols, and whether its SSID is known; the twins in sight |
| `announced`, `learned` | who was reported, who was heard in the first minute (history) |

`serverReplies` is one packet that passed the filters, `learningEnds` the sleep of a minute; the actions of a round
are its functions, `nmcliFails` a round that finds no network.  A twin is an access point with our name and no
password; other access points are skipped by the code and left out.  `current` is the network that the program takes for ours:
none unless `nmcli` calls it active in Portuguese.

### Exposure

| TLA+ | Go |
|---|---|
| `device`, `router` | the devices and the router's list of mappings, as they are |
| `scan[s]`, `lastResults`, `highRiskSince` | one `refreshCache`; the cache; which addresses have a mark |
| `round` | what `checkUPnPExposure` is at: the discovery, a description that does not come, the walk |
| `poll` | the mappings a walk of `checkUPnPExposure` has read |
| `upnpMappings`, `previous`, `first` | the cache; the locals of `startUPnPCheck` |
| `announced`, `initial` | keys that an event named, keys of the first round (history) |

| action | code |
|---|---|
| `scanEnds`, `noteRiskLevel`, `publish` | `refreshCache`: the scan, the marks, the results, under two mutexes |
| `discoverUPnPControlURL`, `discoveryFails` | the discovery and the download of the description, and how they end without a router |
| `descriptionStalls` | a host that answers the discovery keeps silent on the page it names |
| `queryUPnPMapping` | one question of the walk, answered from the list as it is then |
| `walkEnds`, `queryFails` | the round ends: past the last entry, at the limit, or because a question has no answer |
| `deviceChanges`, `addMapping`, `deleteMapping` | devices, the person who trusts them, the router |

`priorityOf` and `baselinePorts` are operators on results, evaluated whenever a page is drawn.
A port is high risk or not; the share that makes it normal is in hundredths.

## 3 The runs

| run | shows | size |
|---|---|---|
| `races` | `IsolatedIsBlocked`, `NeverContainsProtected`, `BlockInv`, `KeepsPromise` under overlapping orders, failing commands and crashes | 690 000 states |
| `serial` | `ReleasedIsFree` with one order at a time, under five kinds of fault | 840 000 states |
| `live` | `TimedIsolationEnds`, `ArpRestored`, `StaysPoisoned` with one order at a time | liveness, no symmetry |
| `enforce` | `GraceCoversResidents`, `GraceInv`, `ExposedIsContained`, `TrustTakesEffect` with overlapping scans and a device that moves | 740 000 states |
| `changes` | `NeverNewAgain`, `NewcomerAnnounced`, `LostBlockReported`, `OpeningReported`, `SuspectReported` with any three changes at any moment of any scan | 170 000 states |
| `orders` | `KeepsContract` (it implements `Delegation`), `ErrorsHideDevices`, `ViewConverges` with two agents and any two faults or changes | 250 000 states |
| `saved` | `SavedAtRest`, `MemoryOnDisk`, `NewestKept` with two handlers, the loop, two recorders and restarts anywhere | 1 200 000 states up to symmetry |
| `pool` | `NothingLost`, `HealthFollowsHistory`, `SweepEnds` with two overlapping sweeps, fewer slots than candidates and a host that changes | 150 000 states |
| `overlap` | `GatewayVerdict`, `DuplicatesFollowed` with two overlapping scans and any two changes of the ARP table | 120 000 states |
| `watch` | `RogueReported`, `AlertedOnce`, `WifiWatched` with any three changes or failures of `nmcli`, in either language | 68 000 states |
| `first` | `OpeningNeverCalms`, `ExposuresTold`, `MarksFollowRisk`, `NewMappingReported`, `ExposedActsFirst` with overlapping scans and any two changes, failed questions or stalled downloads | 280 000 states |
| `unknown` | violation of admission, see 6 | |

Each module has a type invariant.  The runs check it as a part of `BlockInv` and `GraceInv`, or by itself where it says
more than types (`saved`, `pool`, `first`) or by itself for want of another invariant (`overlap`).  `NothingLost` of `pool` also counts: when no sweep
is under way, each candidate was pinged once in every sweep.

**Bounds of `Containment`.** Three addresses: one that can be contained, the router and
this machine, each with its MAC, and orders may name any address with any
MAC (a router answering on a second address is `a` with MAC `mgw`).  Addresses do not
interact in the engine except through the watcher's list, whose effect on
one address is that it is reconnected late; one containable address therefore
shows every interleaving of its own orders.  Two sessions and two reconnectors
(one user, the watcher) are what each race needs: an order against an order, an
order against a reconnection, two reconnections.  `MaxRules = 2` stops an order from *starting* on two
equal rules, so more can exist when two started together.
`MaxOrders` is 2 where orders overlap and 1 in `serial` and `live`, whose
properties a double order breaks (6).  `RestoreRounds` is 4 in
the code; 1 or 2 are enough to let a round be lost, and for a round to follow
a new isolation's first.  The proofs cover every value of these constants.

`serial` leaves out the fault `"delete"`: an `iptables -D` that fails leaves
its rule behind and nothing retries it before the next start, so
`ReleasedIsFree` cannot be asked of a firewall that refuses deletions.
`live` leaves out lost replies: after four lost rounds nothing but the ageing of
the cache, which the code does not control, would restore it.

**Bounds of `Admission`.** One device `n` that is exposed and may come, go or change
its address once (`MaxMoves = 1`), one more address in a network of
`REDES_EXTRAS`, one handler next to the loop: two scans overlap in every order,
with any request in between.  The initial inventory and trust list are
arbitrary.  `LearningScans = 2` is the smallest window for which the property is true (5).

**Bounds of `Monitoring`.** Two addresses of our network, one of them empty at first (`Empty`), and one of `REDES_EXTRAS`;
two devices of one vendor, one of them in the
inventory, and three changes of any kind: what each property needs to fail is two or three
(isolate and flush; isolate, leave and come back; join, leave and join
again), and after the last change the loop goes on for ever, so the liveness
properties are asked of a world at rest as well as of one that moves.
`Crowd` is 2 for 4, so that two devices can be a crowd.  One device may be at both addresses of one scan.

**Bounds of `Agents`.** Two agents, so that one can fail while the other answers; one of
them has a device and the other none, since devices meet only in the lists, which a poll
replaces as a whole.  One order at a time next to the agent's own loop, which is what
makes two scans overlap.  `MaxChanges = 2`: an agent that stops and starts again, or a lost answer
and a change behind it; after the last change the system goes on for ever.
The proofs cover any number of agents, devices, orders and changes.

**Bounds of `Persistence`.** Two handlers and two devices: two saves overlap in every order, with lists of
different lengths, and the third writer, the loop, has a file of its own.  Two recorders swap the order of
two events; `MaxHistory = 2` for 200 is full after two events, and `MaxChanges = 5` changes and events
let it overflow around a half line or a restart.  Handlers, recorders and devices are interchangeable, and the run has no
liveness property, so its symmetry is sound.  `NewestKept` allows for the events that the other recorder had
put in memory earlier and appended later: `Cardinality(Recorder)` is how far memory and file can be out of step.

**Bounds of `Sweep`.** Two sweeps, so that they overlap; two hosts that are candidates twice (`REDES_EXTRAS` names our own
network again), besides a range that is too large and an IPv6 one without hosts; `maxProbes = 2` for four candidates, so that
goroutines wait for slots; `MinProbes = 3` for 5, which two sweeps reach.  One host is up at first, and one change makes hosts that never,
always, first, or last answer.

**Bounds of `Spoofing`.** Two scans, two devices and the router, three MACs: an attacker that takes the router's address and one that takes a
device's.  With two changes an attack starts and ends, or a MAC is duplicated and single again, while the older scan
still has the earlier table; the initial table is arbitrary but for the router's entry.

**Bounds of `Surroundings`.** Two servers and two twins, of which one may be known while the other is not; four networks, one of each rating
that a failure could confuse and one without a name; three changes: join, leave and come back, or come, go and come back into sight.

**Bounds of `Exposure`.** Two devices and two ports are the smallest network on which a share is neither none nor all, with
`minimumSample = 2` for 8; `MaxMappings = 2` for 64 is the router's whole list of two keys.  Two changes are a mapping that moves or goes while
the list is read and a question that fails, a download that stalls and a mapping behind it, or a device that opens a port and closes it while an older scan publishes.
The run starts with closed devices and one mapping, as every other start is a few changes further on.

Deadlock is checked in every run but `pool`: there the number of sweeps is bounded, and after the last one nothing is left to do.

## 4 Fairness

Only weak fairness, and only for what the Go runtime, the kernel and
the clock do by themselves: a goroutine that can run runs, a command returns, a
ticker ticks, a deadline passes, a scan ends (each probe has a time limit).
Nobody is assumed to open the dashboard or give an order; no crash, fault, move of a device, ageing of a
cache or second instance is assumed to happen.

In `Agents` every question of a poll is answered or fails at the time limit of `apiClient`, and an agent that runs carries out
what reached it; that an order meets its time limit, that an agent comes back up, or a request that nobody waits for is
dropped, is never assumed.

In `Sweep` every goroutine that can run does, but the slots are fair to nobody in particular, and no new sweep need begin;
in `Spoofing` and `Exposure` the loop scans for ever and a scan under way ends; in `Surroundings` the Wi-Fi is looked at
for ever and an event under way is recorded.  No server need answer, no question need succeed.

In `Exposure` the router is asked for ever, but only as long as no download of a description stalls: the wait for the discovery and
each question of the walk have a limit of three seconds (`upnp.go:70`, `147`), and `http.Get(location)` has none
(`upnp.go:100`).  So the condition is on `PollStep` outside `"stalled"`, nothing fair leaves that state, and the two
properties that need the rounds to go on say so: `DownloadsEnd` is their premise, not an assumption of the specification.
Without it both are false (6).

A call's commands are one fairness condition per session (`blockStep`), as
they run one after the other on one goroutine; the same holds for a
reconnection (`unblockStep`), the watcher (`watcherStep`), a scan (`examine`) and a
pass of the policy (`decide`).  `stopSpoofing` has its own
condition next to `spoofRound`: when the ticker and the cancellation are both
ready Go's `select` chooses at random, so the ticker does not win for ever.
Ticker and cancellation are enabled in the same state until the choice is
made, so weak fairness says just that.

## 5 The proofs

All are checked by TLAPS for every value of the constants; each theorem's
comment says which.

**`ContainmentProofs`.**

* `TypeCorrect`: `Spec => []TypeOK`.
* `BlockInvariant`: if `Fault` has neither `"flush"` nor `"second"`
  (`NobodyElse`), `Spec => []BlockInv`.  Any number of overlapping orders,
  failing commands, failing deletions and crashes is allowed.
* `IsolationBlocks`: under the same assumption, `[]IsolatedIsBlocked`.
* `PromiseKept`: under the same assumption, `Spec => KeepsPromise`.
* `ProtectedStayFree`: `[]NeverContainsProtected`, with no assumption on faults.
* `FreeInvariant`: if there is one order at a time and no deletion fails (`Serial`), `Spec => []FreeInv`.
* `ReleaseFrees`: under the same assumption, `[]ReleasedIsFree`.
* `ForgedEntriesHandled`: if no reply is lost and nobody crashes (`Reliable`), a forged ARP entry always has a
  goroutine of its address that forges it still, or has rounds left to restore it.
* `IsolationBlocksMAC`: if insertions succeed, an isolated device has its rule by MAC.
* `ReleaseFreesMAC`: under `Serial` and without crashes, a MAC that no isolation and no reconnection is about has
  no rule left.

*Why an inductive invariant.* `IsolatedIsBlocked` alone is not inductive: a
reconnection deletes a rule of its address by its text, and nothing in the
state says whose rule that was.  What saves the block is a count (`RulesSuffice`):
for each address, the source rules are at least as many as the sessions
that inserted one and have not been taken over, plus the reconnections
that still owe a deletion; likewise for destination rules.  Each step moves one unit between these,
or adds a rule with its owner, or removes a rule with its debtor; a
failing deletion only leaves more rules.  `Take` moves the session's unit to the
reconnector, which needs that the map names a live session of the same address
(`MapNamesLive`), that sessions and reconnections in progress carry an
address (`Addressed`), and that no two reconnections hold one session
(`ReleasesOwn`).  `DeadIsEmpty` covers the crash: startup may delete every
rule because nobody owns one.  The cardinality steps rest on a few lemmas about
adding to and removing from a finite set.

*The other direction.* `ReleasedIsFree` needs the same count from above (`NoRuleTooMany`): every rule is that of a session
or of a reconnection that is still to delete it.  With nobody there, nobody's rules are none.  Both assumptions of `Serial` are needed,
as the code breaks the property without them: two orders that overlap leave rules and a goroutine that nothing can cancel (6),
and nothing repeats a deletion that failed.  Crashes, failing insertions, lost replies, `iptables -F` and a second
instance are allowed: they only take rules away, or leave them to the next start, and `up` is false until then.  What one
order at a time means is `OrdersAlone`: the address an order found free is still free when it publishes, so that
no session falls out of the map.  `ForgersKnown` is the same for goroutines: one that was not told to stop is named by the
map, or a reconnection is about to tell it.

*ARP entries.* `ForgedEntriesHandled` is the safety half of `ArpRestored`: a forged entry is never forgotten; that it heals is then fairness.
Both halves of its assumption are needed: TLC finds entries that stay forged after the last round of replies was lost, and after a crash, since
no goroutine survives one and the next start restores no cache.

*Rules by MAC.* They are counted like those of an address, but for a device (`MACCovered`, `MACWithin`): one rule for each session
that the map names, or that is about to publish, and one for each reconnection that is yet to delete it; a device isolated on two addresses has
two.  From below that is `IsolationBlocksMAC`: deletions may fail, orders overlap and others flush the IPv4 rules, for only insertion
can leave the device without (its failure is logged and the isolation goes on).  From above it is `ReleaseFreesMAC`, which needs
more than `ReleaseFrees` does: a crash leaves the rule of an isolated device, and `cleanOrphanRules` never looks
at `ip6tables` (`isolation.go:150`), so that nothing deletes it.

**`AdmissionProofs`.**

* `TypeCorrect`: `Spec => [](TypeOK /\ ExaminesHosts)`.
* `GraceInvariant`: if `LearningScans >= 2`, `Spec => []GraceInv`.
* `GraceCovers`: if `LearningScans >= 2`, `Spec => []GraceCoversResidents`.
* `DenialsJustified`: `Spec => []DenialJustified`: a pass of the policy is about to isolate only devices of this network and, if it
  denied them for their risk and they kept their address, exposed ones.
* `PolicyIsolatesExposed`: if `LearningScans >= 2` and nobody asks the dashboard to isolate, `Spec => []IsolatedOnPurpose`: whoever is isolated and kept
  its address is exposed, and neither the router nor this machine; in simulation nobody is isolated.

*The argument.* A device is denied as unknown on what a cached result says its MAC is
and on what the inventory says now.  If its address never changed hands, every
result anywhere (cache, scans in progress, the policy's snapshot) names
its owner (`ResultsNameOwners`).  The loop's second scan holds every resident and
puts it in the inventory (`LoopRemembersResidents`), and the policy does not
judge before the window has outlasted that scan (`PolicyAwaitsScans`).

A denial for risk rests on three readings of one address at three moments: the scan's, the verdict's, and the ARP table's again when
the order is given.  `ResultsJustified` says that no result anywhere has a risk that its device or address did not deserve; with
`ResultsNameOwners` that is the device that is isolated.  For one that changed its address nothing is claimed: the
order may then meet whoever has it now.  `PolicyIsolatesExposed` adds to this that residents are not denied as unknown, which is why it has that assumption.

*The assumption is needed.* With `LearningScans = 1` TLC finds
`GraceCoversResidents` violated: `detectChanges` returns before `markSeen` for the
first scan, because there is none to compare it with
(`monitoring.go:164-169`), so after one scan the inventory is still empty and
the first tick denies every device.  A configuration reaches this with
`POLITICA_APRENDIZADO_MINUTOS=0` or with an `INTERVALO_SEGUNDOS` about as long
as the window; the defaults leave room for many scans.

**`MonitoringProofs`.**

* `TypeCorrect`: `Spec => []TypeOK`.
* `KnownNeverNewAgain`: `Spec => NeverNewAgain`: whom the inventory held at startup, or an earlier comparison reported as new, is
  not reported as new again; with no assumption.
* `AlarmsAreTrue`: if nobody reconnects a device or flushes the rules (`BlocksAreKept`), no comparison ever reports a
  broken block (`NoFalseAlarm`).
* `TrustedQuiet`: `Spec => []TrustedStayQuiet`: nothing is said about the risk or the ports of a device that the scan found trusted.

*The argument.* A host reported as new is not in the inventory when the
comparison starts (`NewIsUnknown`: no other kind of event can be taken for this one), and
the same comparison puts it there once it has judged them all, so all that was ever announced is known
(`AnnouncedAreKnown`) and no later comparison announces it again.  Within one comparison nothing prevents it (6).

*Alarms.* A scan reads the map of isolations and, later, the rules.  `FoundBlocked` says that what it has looked at and found isolated it also found blocked,
however isolations fall between its two reads.  The assumption is needed, as TLC finds a false alarm after a
reconnection between them: the scan saw an isolated device and no rule (`dashboard.go:178`).  For trust there is one read and no such
case: a device found trusted has no open port in the same result (`TrustedFoundClosed`), so that the comparison, which tests trust for
the risk but not for the ports, is quiet about both.

**`AgentsProofs`.**

* `TypeCorrect`: `Spec => []TypeOK`.
* `AnswersCorrect`: `Spec => []AnswersAgree`: a success was carried out, a refusal was not.
* `ContractKept`: `Spec => KeepsContract`, the refinement of `Delegation`.
* `ErrorsApart`: `Spec => []ErrorsHideDevices`.

*The argument.* An answer can only be wrong if a request is still under way when its
user reads the outcome, or if the agent's answer does not say what it did.  `OrderInv` has both:
the server's progress says whether the map was changed, an outcome other than
a time-out leaves no request behind, and a scan follows only what was accepted, so
that the end of a scan cannot turn a refusal into a success.  It is also what the refinement needs: an order that nobody gave has changed no map,
and a map is changed only for a user who still waits or was told of a failure (`StepIsAgreed`, step by step).  `PollInv` says that a poll has gathered devices only of
agents that are neither still asked nor failed, which the end of the poll turns into
`ErrorsHideDevices`.

**`PersistenceProofs`.**

* `TypeCorrect`: `Spec => []TypeOK`; `ListsTyped` is its part about the two lists.
* `SavedAlways`: `Spec => []SavedAtRest`, whatever fails.
* `InventorySaved`: while writes succeed (`"write"` not in `Fault`), the inventory on disk is that of the memory
  whenever the loop is not saving it.
* `MemoryKept`: `Spec => []MemoryOnDisk`, whatever fails.
* `NewestAlways`: `Spec => []NewestKept`, whatever fails.
* `EvidenceComplete`: while appends succeed (neither `"append"` nor `"half"` in `Fault`), every event shown is on the
  disk or in the hands of the goroutine that recorded it.

*The argument for the lists.* `SavedAtRest` says nothing of a save under way, so it is not inductive.  `SavedInv` adds, for a list that
is not disturbed, that at most one save of it is under way, that this one's copy is still what the
memory has, and that it will write to an empty file; then its last step makes the file equal to the memory
(`WrittenLoads`).  A save that starts while another is under way, and one that fails, mark the list; one that starts
alone takes the mark off.  The inventory is never marked, because it has one writer
(`UndisturbedStep`).

*The argument for the history.* `MemoryOnDisk` compares events that are missing on the disk with half lines, and an append after a
half line adds to the first and not to the second.  The invariant therefore counts the half line at the end of the file as one that has
cost nothing yet (`HalfLinePays`); the append that is glued to it spends it.

`NewestKept` is about the order of two sequences written at different moments.  `HistoryInv` says: an event is in memory once, and
on the disk once or still to come (`EventsOnce`); what follows a line of the file, or may still follow it, is newer but for fewer
than there are recorders (`AppendsNearlyInOrder`), as only what was pending when a line was appended can come
after it though recorded before; a restart takes that order to the memory (`MemoryNearlyInOrder`); and what is not in
memory was pushed out of a full one in which fewer than that were older (`DroppedAreOld`).
The restart is the hard step, as it filters the file.  Its lines are found by rank (`Nth`), so that their
order follows from how ranks grow with the index, and their number from a bijection; no induction over the file is needed.

**`DetectorsProofs`.**  Of `Surroundings`:

* `TypeCorrect`: `Spec => []TypeOK`.
* `ReportedOnce`: `Spec => AlertedOnce`.
* `LearnedNeverReported`: a server heard in the learning period is never reported, nor about to be; the safety
  half of `RogueReported`.

*The argument.* Whoever is about to be reported was not reported yet (`AlertInv`), because only somebody without a flag gets there
and whoever was reported has one (`TypeOK`).  It needs that a server and a twin have different names (`NamesApart`): in the code an
address and a BSSID.  For `LearnedNeverReported` (`LearnedInv`): while it learns nobody is under suspicion, and who was learned is in
`knownDHCPServers`, from which nothing is ever taken.

Of `Spoofing`, which shares no state with it and is an instance with variables of its own (`Scans`).  An instance does not bring its
assumptions along, so each of its theorems names them: they are those of `Spoofing` itself.

* `ScansTypeCorrect`: `Scans!Spec => []Scans!TypeOK`.
* `VerdictFollowsSuspect`: however scans overlap, the last event about the router names the MAC that is suspected, or the router when none is.
* `NoAlarmTwice`: the suspect never changes without an event that says something else than the last one.
* `FlagsReported`: no MAC is flagged as duplicated without its event, or a goroutine about to record it.

*The argument.* The suspect and the event are one hold of the mutex, so `VerdictHeld` is inductive, and a second scan with an older table can only
change both.  The flag of a duplicated MAC and its event are not: in between the goroutine carries the
alert, and whatever other scans do to the flag meanwhile, no step takes the alert from it but the one that records the event (`FlagsHaveEvents`).

**`ExposureProofs`.**

* `TypeCorrect`: `Spec => []TypeOK`; the results of scans under way must be like those published (`ScansOK`).
* `OpeningCounts`: `Spec => []OpeningNeverCalms`.
* `ExposuresAlwaysTold`: `Spec => []ExposuresTold`: every port that the dashboard shows as reached from the internet was there in the first round or had its
  event, whatever failed; and the list is never longer than one walk.
* `NewsIsNew`: an event about a port comes for the first time when the port was not shown before and is shown now, never in the first round.

*The argument.* Opening a port raises the share of that port only (`OtherSharesStay`), so whichever port made the device unusual still
does (`UnusualStays`): if it is another port its share is the same, and if it is the port itself nothing changed.

The list shown and the keys that the next round compares with are two variables, set by one round, with its failures;
`ExposureInv` says that they agree and that whatever is in them was told or was there first.  That a walk reads no more than the limit is
a bound of a set by a sequence (`WalkBounded`).

**`SweepProofs`.**

* `TypeCorrect`: `Spec => []TypeOK`, the limit of the pool included.
* `PoolInvariant`: `Spec => []PoolInv`.
* `AllDelivered`: `Spec => []NothingLost`.
* `HealthFollows`: `Spec => []HealthFollowsHistory`.
* `SweepsCanGoOn`: `Spec => []NeverBlocked`: a sweep under way can always do something by itself; whoever waits for a slot waits for
  a goroutine that will give one back.
* `SweepsAdvance`: `Spec => OnlyAdvances`: no step of any sweep takes a candidate further from its end, and each step of a
  goroutine takes it nearer.

They hold for any ranges, any number of slots and any number of goroutines that sweep; that these are finitely many is
`SweeperAssumption`.

*The argument.* `SweepsConsistent` relates the goroutines of one sweep to what was delivered: who answered was delivered or is about to be,
so that nobody is left when all are done.  Across sweeps a sum is constant (`PingsAccounted`): the pings recorded of a host
and those owed to it by sweeps under way are one for each of its places in each sweep that began.  A new sweep adds its debt to both sides, and a ping that
returns moves one unit.  The health of a host is that of its history (`HealthInv` in `SweepProofs`): appending to a history adds an answer, an
absence, or, before the first answer, nothing, just as `recordProbe` does.

**Only model-checked:** liveness under fairness, which is out of the prover's reach: the three properties of `live`,
`ExposedIsContained` and `TrustTakesEffect`, `NewcomerAnnounced`, `LostBlockReported`, `OpeningReported` and `SuspectReported`,
`ViewConverges`, `SweepEnds`, `GatewayVerdict` and `DuplicatesFollowed`, `RogueReported` and `WifiWatched`,
`MarksFollowRisk`, `NewMappingReported` and `ExposedActsFirst`; and the refutation of `unknown`.  Every safety property
of the runs is stated by a theorem.  Of several liveness properties the safety half is one, too: what must hold so that fairness is
all that is left (`ForgedEntriesHandled` for `ArpRestored`, `SweepsCanGoOn` and `SweepsAdvance` for `SweepEnds`, `FlagsReported` for `DuplicatesFollowed`,
`VerdictFollowsSuspect` for `GatewayVerdict`, `ExposuresAlwaysTold` for `NewMappingReported`, `LearnedNeverReported` for
`RogueReported`).  The properties that only a theorem states were checked by TLC on the instances of section 3 before they were
proved; their definitions are in the proof modules.

## 6 What the checks found

One is a run that expects a violation of a sentence the repository states.

| run | what happens |
|---|---|
| `unknown` | A device joins after the learning window; the loop enters it in the inventory right after the scan that found it; when the policy ticks, it is known. |

The rest are behaviours of the code that the models have, and that no run is spent on.

* *Engine.* Two orders for one address both pass the check of `isolateDevice` (a handler and the policy, for instance).  The
  second overwrites the first in the map; the first one's goroutine and rules can never be cancelled, and its deadline is never
  looked at.  For that reason `serial` and `live` give one order at a time.
* The watcher collects an expired address; before it gets to it the device is reconnected and isolated again; the watcher
  ends the new isolation (`isolation.go:405`).
* A second instance deletes the rules of the first before it finds the port taken and exits (`main.go:71`).  The first one still
  shows the device as isolated; `NobodyElse` in the proofs excludes this.
* *Admission.* A pass of the policy isolates a device marked as trusted after the scan it judges (`nac.go:158`);
  `TrustTakesEffect` says that this stops.
* *Monitoring.* An isolated device leaves and comes back under another MAC and address between two scans (20 s apart).  The
  comparison looks at arrivals before it remembers departures (`monitoring.go:133`), and at each arrival only once: no alert, though
  `evasionWindow` is three minutes.
* A new device that one scan finds at two addresses is reported as new at each (`monitoring.go:70-99`): the inventory learns of it only
  after all hosts were judged (`monitoring.go:149`).  `NeverNewAgain` is about later comparisons.
* A host of `REDES_EXTRAS` has no MAC, and an empty one is never known (`inventory.go:69-72`): it is reported as new every time it
  comes, and never as one that came back.
* *Persistence.* A crash between the two halves of `os.WriteFile` (`inventory.go:61`, `trust.go:49`) leaves an empty file, which
  the next start takes for no file at all: every device is unknown again.  `SavedAtRest` is for that reason
  about moments when no save is under way.
* *Spoofing.* The flag of a duplicated MAC is cleared only by a scan that finds this MAC on one address; one that leaves
  altogether keeps its flag, and its next attack is not reported (`spoofing.go:79`).
* *Surroundings.* The rating of the last network stays while we are off the Wi-Fi (`wifi.go:81`).  `nmcli` says which network is in use
  in the language of the system; only `sim` is understood (`wifi.go:83`), so that elsewhere no network counts as ours, nothing is
  rated and no twin is looked for: `WifiWatched` asks for Portuguese.  A network whose SSID is empty is rated, but not compared
  (`wifi.go:126`).
* *Exposure.* Any host may answer the discovery, and the page it names is downloaded without a time limit (`upnp.go:100`, the default
  client).  If that never ends, neither does `startUPnPCheck`: the list of mappings stays as it was, no new one is reported, and
  no priority follows the router any more, against `upnp.go:220-222`.  `NewMappingReported` and `ExposedActsFirst` exclude it
  (`DownloadsEnd`); TLC finds both violated without that premise.
* A round that fails counts as one that found nothing: exposed devices fall back to a routine priority until the next
  round, and all mappings are then reported as new (`upnp.go:201`, `228-251`).  A key whose mapping now leads to another device is not
  reported, as a key is protocol and external port (`upnp.go:242`); and the flag that says whether a mapping is enabled is read and
  used by nothing (`upnp.go:186`).
* *Sweep.* Ranges of `REDES_EXTRAS` that overlap give candidates twice: two pings in every sweep, two counts in the health, and two entries
  in the results.  The comparison then judges such a host twice and records its events twice; `Monitoring` has one entry for each address.
* An IPv6 range of `REDES_EXTRAS` passes the check of its prefix, which is meant for IPv4 (`network.go:49`): up to 2^106 addresses
  are enumerated one by one (`subnetHosts`).  The model has the check as it is; the runs have a small range.

Read in the code, outside the models: incidents are grouped by the address an event is about, and the alert about
the router is about the router (`spoofing.go:46`), so that it never joins an alert about the attacker's own address
(`soc.go:15-17` hopes that it does).

## 7 Not modelled

* Bytes: ARP and IPv6 packets, DHCP, mDNS, SSDP, UPnP parsing, HTML, SVG, JSON.
* I/O that only produces a label or a measurement: ping, port probes, names,
  vendors, latency.  What the model keeps of a probe is the fact it decides
  (`Exposed`).  There it is a constant: that a device opens or closes ports while the policy judges is left to `Monitoring` and
  `Exposure`, where ports change at any time.
* The forged router advertisement of `isolateDevice`: sent for the whole network,
  never undone, read by nothing.
* `dashboardGuard`: filtering of HTTP requests, no state.
* `parseAgents`, `tokenRequired`, and the minutes of a forwarded order.
* Identification: tables and listeners that guess a label.  Nothing decides by it.
* Samples and medians (`metrics.go`, the RTTs of `noc.go`) and `openIncidents` (`soc.go`): what a report shows.
* `detectNetwork`: once, before any goroutine exists.  The texts that say why a round failed (`upnpError`).
* That listening for DHCP may be impossible: then nothing of it runs at all.

## 8 The plan

In order of importance.

1. **Containment** (`Containment`, `Quarantine`, `ContainmentProofs`).  Done.
2. **Admission** (`Admission`, `AdmissionProofs`).  Done.
3. **Monitoring** (`Monitoring`, `MonitoringProofs`).  Done.
   The sweep, the ARP table and the marks of every scan (`Sweep`, `Spoofing`, `Exposure`) and the watchers (`Surroundings`,
   `Exposure`, with `DetectorsProofs` and `ExposureProofs`).  Done.
4. **Agents** (`Agents`, `Delegation`, `AgentsProofs`).  Done.
5. **Persistence** (`Persistence`, `PersistenceProofs`).  Done.
6. **Algorithms**: health and priorities are in `Sweep` and `Exposure`; medians and incidents are left, as operators against
   reference definitions.
7. **Proofs**: every safety property of the runs is proved, both refinements, and the safety halves of liveness
   properties named in 5.  What is left is liveness itself, which the prover cannot do.

`Admission`, `Monitoring` and `Agents` use of `Containment` only its interface,
`isolations`.
