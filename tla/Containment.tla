------------------------------ MODULE Containment ------------------------------
(***************************************************************************)
(* The containment engine of isolation.go: isolateDevice, reconnectDevice, *)
(* the deadline watcher, the ARP spoofing goroutines and the Netfilter     *)
(* rules they share.                                                       *)
(*                                                                         *)
(* Three kinds of goroutine touch the same device.                         *)
(*   - A Session is one call of isolateDevice together with the spoofing   *)
(*     goroutine it leaves behind; the call checks the map `isolations`    *)
(*     under isolationsMu, runs three firewall commands with the mutex     *)
(*     released, and only then writes the map.                             *)
(*   - A User is a goroutine that calls reconnectDevice for somebody (the  *)
(*     dashboard's or the agent API's handler).                            *)
(*   - The Watcher collects the expired isolations under the mutex and     *)
(*     reconnects them, one after the other, with the mutex released.      *)
(*                                                                         *)
(* Every firewall command is a process of its own, so it is a step of its  *)
(* own.  Time is abstracted to what the code asks of it: a deadline is     *)
(* pending or it has passed.  History events and timing samples are output *)
(* that no step below reads back; they are left out.  The forged router    *)
(* advertisement is left out too: nothing in the code ever undoes it.      *)
(*                                                                         *)
(* A definition X_Y just above a definition X is X with a mistake in it;   *)
(* the specification does not use it.  It shows that some property below   *)
(* would notice that mistake.                                              *)
(***************************************************************************)
EXTENDS Integers, FiniteSets

CONSTANTS
  IP,             \* the IPv4 addresses of the subnet
  MAC,            \* the hardware addresses in use on it
  GatewayIP, GatewayMAC,    \* networkInfo.Gateway, networkInfo.GatewayMAC
  OwnIP, OwnMAC,            \* networkInfo.IP, networkInfo.MAC
  None,           \* no address, no session
  Session,        \* calls of isolateDevice, with the goroutine each one starts
  User,           \* goroutines that reconnect a device on request
  Watcher,        \* the goroutine of startIsolationTimeoutWatcher
  MaxOrders,      \* how many isolateDevice calls may be under way at once
  MaxRules,       \* bound: an order starts only below this many equal rules
  RestoreRounds,  \* rounds of true ARP replies restoreARP sends (4 in the code)
  Fault           \* which of FaultKind may happen

FaultKind == {
  "insert",   \* an `iptables -I` fails
  "delete",   \* an `iptables -D` or `iptables -L` fails
  "loss",     \* an injected ARP reply never arrives
  "flush",    \* somebody runs `iptables -F`
  "crash",    \* the program dies and is started again
  "second" }  \* the program is started while it is already running

ASSUME AddressAssumption ==
  /\ {GatewayIP, OwnIP} \subseteq IP
  /\ {GatewayMAC, OwnMAC} \subseteq MAC
  /\ None \notin IP \cup MAC \cup Session

ASSUME ProcessAssumption ==
  /\ IsFiniteSet(Session)
  /\ IsFiniteSet(User)
  /\ Watcher \notin User

ASSUME BoundAssumption ==
  /\ MaxOrders \in Nat \ {0}
  /\ MaxRules \in Nat \ {0}
  /\ RestoreRounds \in Nat \ {0}
  /\ Fault \subseteq FaultKind

Reconnector == User \cup {Watcher}

\* The two ARP caches an isolation forges: the target's entry for the gateway
\* and the gateway's entry for the target.
Side == {"target", "gateway"}

VARIABLES
  up,          \* is the program running
  isolations,  \* the map isolations: address -> the session that contains it
  call,        \* each session's progress, target, deadline and cancellation
  release,     \* each reconnector's progress through reconnectDevice
  expired,     \* the watcher's list of addresses still to reconnect
  src, dst,    \* how many FORWARD rules `-s ip -j DROP`, `-d ip -j DROP` exist
  v6,          \* how many ip6tables rules `--mac-source mac -j DROP` exist
  forged       \* which ARP caches hold the forged entry for an address

kernel == <<src, dst, v6>>
vars == <<up, isolations, call, release, expired, src, dst, v6, forged>>

-----------------------------------------------------------------------------
(* State shapes *)

\* Where a call of isolateDevice is, then where its goroutine is.
Setup == {"src", "dst", "undo", "v6", "publish"}
Running == {"start", "spoof"}
Phase == {"free", "restore"} \cup Setup \cup Running

\* A free session stands for a call not made yet, or one that left nothing.
Free == [phase |-> "free", ip |-> None, mac |-> None,
         deadline |-> "none", cancelled |-> FALSE, rounds |-> 0]

Idle == [phase |-> "idle", ip |-> None, mac |-> None, session |-> None]

CallState == [phase : Phase, ip : IP \cup {None}, mac : MAC \cup {None},
              deadline : {"none", "pending", "passed"},
              cancelled : BOOLEAN, rounds : Nat]

ReleaseState == [phase : {"idle", "cancel", "src", "dst", "v6"},
                 ip : IP \cup {None}, mac : MAC \cup {None},
                 session : Session \cup {None}]

Init ==
  /\ up = FALSE
  /\ isolations = [ip \in IP |-> None]
  /\ call = [s \in Session |-> Free]
  /\ release = [r \in Reconnector |-> Idle]
  /\ expired = {}
  /\ src = [ip \in IP |-> 0]
  /\ dst = [ip \in IP |-> 0]
  /\ v6 = [m \in MAC |-> 0]
  /\ forged = [ip \in IP |-> {}]

-----------------------------------------------------------------------------
(* Firewall commands.  Equal rules are indistinguishable, so a chain is how *)
(* many of them it holds: -I adds one, -D removes one or fails.             *)

Inserted(chain, k) == [chain EXCEPT ![k] = @ + 1]
Deleted(chain, k) == [chain EXCEPT ![k] = IF @ > 0 THEN @ - 1 ELSE 0]

DeleteOutcome_EveryRule(chain, k) == {[chain EXCEPT ![k] = 0]}

\* The chain after one `-D`, which the code never checks for success.
DeleteOutcome(chain, k) ==
  {Deleted(chain, k)} \cup (IF "delete" \in Fault THEN {chain} ELSE {})

\* The replies of one round that arrive.
Arriving == IF "loss" \in Fault THEN SUBSET Side ELSE {Side}

-----------------------------------------------------------------------------
(* isolateDevice *)

forbiddenTarget_ByAddress(ip, mac) == ip \in {GatewayIP, OwnIP}

forbiddenTarget(ip, mac) ==
  ip \in {GatewayIP, OwnIP} \/ mac \in {GatewayMAC, OwnMAC}

UnderWay == {s \in Session : call[s].phase \in Setup}

\* The order is accepted: the target is not protected and the map, read under
\* the mutex, holds no isolation of it.  `mac` is what the ARP table answers.
isolateDevice(s, ip, mac, timed) ==
  /\ up
  /\ call[s] = Free
  /\ Cardinality(UnderWay) < MaxOrders
  /\ src[ip] < MaxRules /\ dst[ip] < MaxRules /\ v6[mac] < MaxRules
  /\ ~ forbiddenTarget(ip, mac)
  /\ isolations[ip] = None
  /\ call' = [call EXCEPT ![s] =
                [Free EXCEPT !.phase = "src", !.ip = ip, !.mac = mac,
                             !.deadline = IF timed THEN "pending" ELSE "none"]]
  /\ UNCHANGED <<up, isolations, release, expired, kernel, forged>>

\* `iptables -I FORWARD -s ip`; if it fails the order fails and nothing stays.
blockSource(s) ==
  /\ call[s].phase = "src"
  /\ \/ /\ src' = Inserted(src, call[s].ip)
        /\ call' = [call EXCEPT ![s].phase = "dst"]
     \/ /\ "insert" \in Fault
        /\ call' = [call EXCEPT ![s] = Free]
        /\ UNCHANGED src
  /\ UNCHANGED <<up, isolations, release, expired, dst, v6, forged>>

blockDest_Unchecked(s) ==
  /\ call[s].phase = "dst"
  /\ \/ dst' = Inserted(dst, call[s].ip)
     \/ "insert" \in Fault /\ UNCHANGED dst
  /\ call' = [call EXCEPT ![s].phase = "v6"]
  /\ UNCHANGED <<up, isolations, release, expired, src, v6, forged>>

\* `iptables -I FORWARD -d ip`; if it fails the source rule is taken back.
blockDest(s) ==
  /\ call[s].phase = "dst"
  /\ \/ /\ dst' = Inserted(dst, call[s].ip)
        /\ call' = [call EXCEPT ![s].phase = "v6"]
     \/ /\ "insert" \in Fault
        /\ call' = [call EXCEPT ![s].phase = "undo"]
        /\ UNCHANGED dst
  /\ UNCHANGED <<up, isolations, release, expired, src, v6, forged>>

undoSource_Forgotten(s) ==
  /\ call[s].phase = "undo"
  /\ call' = [call EXCEPT ![s] = Free]
  /\ UNCHANGED <<up, isolations, release, expired, kernel, forged>>

undoSource(s) ==
  /\ call[s].phase = "undo"
  /\ src' \in DeleteOutcome(src, call[s].ip)
  /\ call' = [call EXCEPT ![s] = Free]
  /\ UNCHANGED <<up, isolations, release, expired, dst, v6, forged>>

\* `ip6tables -I` by MAC, best effort: the order goes on without it.
blockMAC(s) ==
  /\ call[s].phase = "v6"
  /\ \/ v6' = Inserted(v6, call[s].mac)
     \/ "insert" \in Fault /\ UNCHANGED v6
  /\ call' = [call EXCEPT ![s].phase = "publish"]
  /\ UNCHANGED <<up, isolations, release, expired, src, dst, forged>>

\* The map is written under the mutex, whatever it holds by now.
publish(s) ==
  /\ call[s].phase = "publish"
  /\ isolations' = [isolations EXCEPT ![call[s].ip] = s]
  /\ call' = [call EXCEPT ![s].phase = "start"]
  /\ UNCHANGED <<up, release, expired, kernel, forged>>

-----------------------------------------------------------------------------
(* The spoofing goroutine: forge both caches, then wait for the ticker or   *)
(* for the cancellation.  The first round precedes the first wait, and when *)
(* both are ready select may still pick the ticker.                         *)

spoofRound_Once(s) ==
  /\ call[s].phase = "start"
  /\ \E got \in Arriving :
       forged' = [forged EXCEPT ![call[s].ip] = @ \cup got]
  /\ call' = [call EXCEPT ![s].phase = "spoof"]
  /\ UNCHANGED <<up, isolations, release, expired, kernel>>

spoofRound(s) ==
  /\ call[s].phase \in Running
  /\ \E got \in Arriving :
       forged' = [forged EXCEPT ![call[s].ip] = @ \cup got]
  /\ call' = [call EXCEPT ![s].phase = "spoof"]
  /\ UNCHANGED <<up, isolations, release, expired, kernel>>

stopSpoofing_Abruptly(s) ==
  /\ call[s].phase = "spoof"
  /\ call[s].cancelled
  /\ call' = [call EXCEPT ![s] = Free]
  /\ UNCHANGED <<up, isolations, release, expired, kernel, forged>>

stopSpoofing(s) ==
  /\ call[s].phase = "spoof"
  /\ call[s].cancelled
  /\ call' = [call EXCEPT ![s] = [@ EXCEPT !.phase = "restore", !.rounds = RestoreRounds]]
  /\ UNCHANGED <<up, isolations, release, expired, kernel, forged>>

\* One round of restoreARP: the true mappings, to both sides.
restoreARP(s) ==
  /\ call[s].phase = "restore"
  /\ \E got \in Arriving :
       forged' = [forged EXCEPT ![call[s].ip] = @ \ got]
  /\ \/ call[s].rounds > 1 /\ call' = [call EXCEPT ![s].rounds = @ - 1]
     \/ call[s].rounds <= 1 /\ call' = [call EXCEPT ![s] = Free]
  /\ UNCHANGED <<up, isolations, release, expired, kernel>>

-----------------------------------------------------------------------------
(* reconnectDevice *)

Take_Keep(r, ip) ==
  LET s == isolations[ip] IN
  /\ UNCHANGED isolations
  /\ release' = [release EXCEPT ![r] =
       [phase |-> "cancel", ip |-> ip, mac |-> call[s].mac, session |-> s]]

\* The map entry, looked up and deleted under the mutex, goes to reconnector r.
Take(r, ip) ==
  LET s == isolations[ip] IN
  /\ isolations' = [isolations EXCEPT ![ip] = None]
  /\ release' = [release EXCEPT ![r] =
       [phase |-> "cancel", ip |-> ip, mac |-> call[s].mac, session |-> s]]

reconnectDevice(u, ip) ==
  /\ up
  /\ release[u] = Idle
  /\ isolations[ip] # None
  /\ Take(u, ip)
  /\ UNCHANGED <<up, call, expired, kernel, forged>>

cancel(r) ==
  /\ release[r].phase = "cancel"
  /\ call' = [call EXCEPT ![release[r].session].cancelled = TRUE]
  /\ release' = [release EXCEPT ![r].phase = "src"]
  /\ UNCHANGED <<up, isolations, expired, kernel, forged>>

\* unblockForwarding: three deletions, none of them checked.
unblockSource(r) ==
  /\ release[r].phase = "src"
  /\ src' \in DeleteOutcome(src, release[r].ip)
  /\ release' = [release EXCEPT ![r].phase = "dst"]
  /\ UNCHANGED <<up, isolations, call, expired, dst, v6, forged>>

unblockDest(r) ==
  /\ release[r].phase = "dst"
  /\ dst' \in DeleteOutcome(dst, release[r].ip)
  /\ release' = [release EXCEPT ![r].phase = "v6"]
  /\ UNCHANGED <<up, isolations, call, expired, src, v6, forged>>

unblockMAC(r) ==
  /\ release[r].phase = "v6"
  /\ v6' \in DeleteOutcome(v6, release[r].mac)
  /\ release' = [release EXCEPT ![r] = Idle]
  /\ UNCHANGED <<up, isolations, call, expired, src, dst, forged>>

-----------------------------------------------------------------------------
(* startIsolationTimeoutWatcher *)

\* A deadline the map holds passes.
deadlinePasses(s) ==
  /\ \E ip \in IP : isolations[ip] = s
  /\ call[s].deadline = "pending"
  /\ call' = [call EXCEPT ![s].deadline = "passed"]
  /\ UNCHANGED <<up, isolations, release, expired, kernel, forged>>

Overdue_Zero == {ip \in IP : /\ isolations[ip] # None
                             /\ call[isolations[ip]].deadline = "none"}

Overdue == {ip \in IP : /\ isolations[ip] # None
                        /\ call[isolations[ip]].deadline = "passed"}

\* The list is built under the mutex and used after it is released.
collectExpired ==
  /\ up
  /\ expired = {}
  /\ release[Watcher] = Idle
  /\ Overdue # {}
  /\ expired' = Overdue
  /\ UNCHANGED <<up, isolations, call, release, kernel, forged>>

\* reconnectDevice by address; it fails, changing nothing, when the map holds
\* no isolation of that address any more.
reconnectExpired(ip) ==
  /\ ip \in expired
  /\ release[Watcher] = Idle
  /\ expired' = expired \ {ip}
  /\ \/ isolations[ip] # None /\ Take(Watcher, ip)
     \/ isolations[ip] = None /\ UNCHANGED <<isolations, release>>
  /\ UNCHANGED <<up, call, kernel, forged>>

-----------------------------------------------------------------------------
(* Startup, the end of the process, and the world outside it *)

\* DROP rules of this subnet's addresses, this machine and the router excepted.
Orphan == {ip \in IP \ {GatewayIP, OwnIP} : src[ip] > 0 \/ dst[ip] > 0}

\* What may be left of a chain: -D is repeated for an orphan until it fails,
\* which it should do only when no rule of that address is left.
Remaining(chain) ==
  {left \in [IP -> UNION {0 .. chain[ip] : ip \in IP}] :
     \A ip \in IP :
       left[ip] \in IF ip \notin Orphan THEN {chain[ip]}
                   ELSE IF "delete" \in Fault THEN 0 .. chain[ip] ELSE {0}}

\* The IPv4 rules of the orphan addresses go; ip6tables is not looked at.
cleanOrphanRules ==
  /\ src' \in Remaining(src)
  /\ dst' \in Remaining(dst)
  /\ UNCHANGED v6

\* main calls it before any other goroutine exists, so startup is one step.
startProgram ==
  /\ ~ up
  /\ up' = TRUE
  /\ cleanOrphanRules
  /\ UNCHANGED <<isolations, call, release, expired, forged>>

\* Another instance runs cleanOrphanRules before it finds its port taken and
\* exits: the running one sees single rules vanish, at any moment.
startSecondInstance ==
  /\ "second" \in Fault
  /\ up
  /\ \E ip \in Orphan :
       \/ src' = Deleted(src, ip) /\ UNCHANGED dst
       \/ dst' = Deleted(dst, ip) /\ UNCHANGED src
  /\ UNCHANGED <<up, isolations, call, release, expired, v6, forged>>

\* Memory and goroutines are gone; the kernel's rules and the caches are not.
crash ==
  /\ "crash" \in Fault
  /\ up
  /\ up' = FALSE
  /\ isolations' = [ip \in IP |-> None]
  /\ call' = [s \in Session |-> Free]
  /\ release' = [r \in Reconnector |-> Idle]
  /\ expired' = {}
  /\ UNCHANGED <<kernel, forged>>

flushRules ==
  /\ "flush" \in Fault
  /\ src' = [ip \in IP |-> 0]
  /\ dst' = [ip \in IP |-> 0]
  /\ UNCHANGED <<up, isolations, call, release, expired, v6, forged>>

\* A forged entry ages out and the true owner answers the next ARP request.
arpAges(ip) ==
  /\ forged[ip] # {}
  /\ forged' = [forged EXCEPT ![ip] = {}]
  /\ UNCHANGED <<up, isolations, call, release, expired, kernel>>

-----------------------------------------------------------------------------
blockStep(s) == blockSource(s) \/ blockDest(s) \/ undoSource(s) \/ blockMAC(s)
unblockStep(r) == cancel(r) \/ unblockSource(r) \/ unblockDest(r) \/ unblockMAC(r)
watcherStep == collectExpired \/ \E ip \in IP : reconnectExpired(ip)

SessionStep(s) ==
  \/ \E ip \in IP, mac \in MAC, timed \in BOOLEAN : isolateDevice(s, ip, mac, timed)
  \/ blockStep(s)
  \/ publish(s)
  \/ spoofRound(s)
  \/ stopSpoofing(s)
  \/ restoreARP(s)
  \/ deadlinePasses(s)

EnvironmentStep ==
  \/ startProgram
  \/ startSecondInstance
  \/ crash
  \/ flushRules
  \/ \E ip \in IP : arpAges(ip)

Next ==
  \/ \E s \in Session : SessionStep(s)
  \/ \E u \in User, ip \in IP : reconnectDevice(u, ip)
  \/ \E r \in Reconnector : unblockStep(r)
  \/ watcherStep
  \/ EnvironmentStep

Spec == Init /\ [][Next]_vars

\* Goroutines that can run do run, commands return, and time passes.  Nobody
\* has to give an order, and nothing outside the program has to happen.
Fairness ==
  /\ WF_vars(startProgram)
  /\ \A s \in Session :
       /\ WF_vars(blockStep(s))
       /\ WF_vars(publish(s))
       /\ WF_vars(spoofRound(s))
       /\ WF_vars(stopSpoofing(s))
       /\ WF_vars(restoreARP(s))
       /\ WF_vars(deadlinePasses(s))
  /\ \A r \in Reconnector : WF_vars(unblockStep(r))
  /\ WF_vars(watcherStep)

FairSpec == Spec /\ Fairness

-----------------------------------------------------------------------------
(* Correctness *)

TypeOK ==
  /\ up \in BOOLEAN
  /\ isolations \in [IP -> Session \cup {None}]
  /\ call \in [Session -> CallState]
  /\ release \in [Reconnector -> ReleaseState]
  /\ expired \subseteq IP
  /\ src \in [IP -> Nat]
  /\ dst \in [IP -> Nat]
  /\ v6 \in [MAC -> Nat]
  /\ forged \in [IP -> SUBSET Side]

\* A device the map calls isolated has both DROP rules in the kernel, however
\* orders, reconnections and deadlines overlap: no reconnection ever takes away
\* the rule of a later isolation of the same address (isolation.go, isolations
\* against blockForwarding and unblockForwarding).
IsolatedIsBlocked ==
  \A ip \in IP : isolations[ip] # None => src[ip] > 0 /\ dst[ip] > 0

\* The gateway and this machine are never cut off, under any address a router
\* answers on: no rule, IPv4 or by MAC, and no forged ARP entry is ever about
\* them (guard.go, forbiddenTarget).
NeverContainsProtected ==
  /\ \A ip \in {GatewayIP, OwnIP} : src[ip] = 0 /\ dst[ip] = 0 /\ forged[ip] = {}
  /\ \A mac \in {GatewayMAC, OwnMAC} : v6[mac] = 0
  /\ \A ip \in IP : isolations[ip] # None =>
       ~ forbiddenTarget(ip, call[isolations[ip]].mac)

\* Nobody is handling the address: no isolation, no order, no reconnection.
Quiet(ip) ==
  /\ isolations[ip] = None
  /\ \A s \in Session : call[s].ip = ip => call[s].phase \notin Setup
  /\ \A r \in Reconnector : release[r].ip # ip

\* A device that is not isolated, and that nobody is handling, really is free:
\* no IPv4 rule drops its traffic and no goroutine goes on forging ARP entries
\* for it (isolation.go, reconnectDevice and the rollback of blockForwarding).
ReleasedIsFree ==
  up => \A ip \in IP : Quiet(ip) =>
    /\ src[ip] = 0 /\ dst[ip] = 0
    /\ \A s \in Session :
         call[s].ip = ip /\ call[s].phase \in Running => call[s].cancelled

\* An isolation with a deadline ends by itself: its goroutine stops forging
\* (isolation.go, isolateDevice and startIsolationTimeoutWatcher).
TimedIsolationEnds ==
  \A s \in Session :
    call[s].phase \in Running /\ call[s].deadline # "none" ~> call[s].phase = "free"

\* After a reconnection both ARP caches get the true mapping back, unless the
\* device is isolated again first (isolation.go, restoreARP).
ArpRestored ==
  \A ip \in IP :
    isolations[ip] = None /\ forged[ip] # {} ~> forged[ip] = {} \/ isolations[ip] # None

\* A contained device stays poisoned: caches that heal, and the last replies of
\* an earlier isolation's restoreARP, never win over the goroutine that now
\* contains it (isolation.go, the spoofing loop of isolateDevice).
StaysPoisoned ==
  \A ip \in IP : []<>(isolations[ip] = None \/ forged[ip] = Side)

-----------------------------------------------------------------------------
(* Why IsolatedIsBlocked holds.  A reconnection deletes a rule of its address *)
(* by its text, not by its owner, so nothing ties a rule to an isolation; what *)
(* saves the block is a count: every session and every reconnection that       *)
(* still owes a deletion has a rule of its own left in the chain.              *)

\* The sessions of an address that have inserted a source (destination) rule
\* that no reconnection has taken charge of yet.
SourceSessions(ip) ==
  {s \in Session : /\ call[s].ip = ip
                   /\ \/ call[s].phase \in {"dst", "undo", "v6", "publish"}
                      \/ isolations[ip] = s}

DestSessions(ip) ==
  {s \in Session : /\ call[s].ip = ip
                   /\ \/ call[s].phase \in {"v6", "publish"}
                      \/ isolations[ip] = s}

\* The reconnections that have yet to delete their source (destination) rule.
SourceReleases(ip) ==
  {r \in Reconnector : release[r].ip = ip /\ release[r].phase \in {"cancel", "src"}}

DestReleases(ip) ==
  {r \in Reconnector : release[r].ip = ip /\ release[r].phase \in {"cancel", "src", "dst"}}

RulesSuffice ==
  \A ip \in IP :
    /\ src[ip] >= Cardinality(SourceSessions(ip)) + Cardinality(SourceReleases(ip))
    /\ dst[ip] >= Cardinality(DestSessions(ip)) + Cardinality(DestReleases(ip))

\* The map names sessions that are published, of that address, not cancelled.
MapNamesLive ==
  \A ip \in IP : isolations[ip] # None =>
    /\ call[isolations[ip]].ip = ip
    /\ call[isolations[ip]].phase \in Running
    /\ ~ call[isolations[ip]].cancelled

\* Whatever is under way is about some address, and no order is cancelled.
Addressed ==
  /\ \A s \in Session :
       /\ call[s].phase # "free" => call[s].ip \in IP /\ call[s].mac \in MAC
       /\ call[s].phase \in Setup => ~ call[s].cancelled
  /\ \A r \in Reconnector :
       release[r].phase # "idle" => release[r].ip \in IP /\ release[r].mac \in MAC

\* A reconnection is about to cancel a session that still runs, that the map
\* has forgotten and that no other reconnection has taken.
ReleasesOwn ==
  \A r \in Reconnector : release[r].phase = "cancel" =>
    /\ release[r].session \in Session
    /\ call[release[r].session].phase \in Running
    /\ ~ call[release[r].session].cancelled
    /\ \A ip \in IP : isolations[ip] # release[r].session
    /\ \A q \in Reconnector :
         release[q].phase = "cancel" /\ release[q].session = release[r].session
           => q = r

\* A dead program has no map, no session and no reconnection.
DeadIsEmpty ==
  ~ up => /\ isolations = [ip \in IP |-> None]
          /\ call = [s \in Session |-> Free]
          /\ release = [r \in Reconnector |-> Idle]

MapMatchesSessions == MapNamesLive /\ Addressed /\ ReleasesOwn /\ DeadIsEmpty

\* The inductive invariant behind IsolatedIsBlocked (isolation.go, the map
\* `isolations` against the rules of blockForwarding).
BlockInv == TypeOK /\ MapMatchesSessions /\ RulesSuffice

-----------------------------------------------------------------------------
(* Why ReleasedIsFree holds as long as orders do not overlap and a deletion    *)
(* does not fail: the same count bounds the rules from above.                  *)

\* Every rule of an address is that of a session or of a reconnection that is still to
\* delete it; what an earlier run of the program left is gone once it is up.
NoRuleTooMany ==
  up => \A ip \in IP :
    /\ src[ip] <= Cardinality(SourceSessions(ip)) + Cardinality(SourceReleases(ip))
    /\ dst[ip] <= Cardinality(DestSessions(ip)) + Cardinality(DestReleases(ip))

\* An order is alone, so the address it found free is free until it publishes.
OrdersAlone ==
  \A s \in UnderWay :
    /\ UnderWay = {s}
    /\ isolations[call[s].ip] = None

\* A goroutine that nobody has told to stop is one the map names, or one that the
\* reconnection of its address is about to cancel.
ForgersKnown ==
  \A s \in Session : call[s].phase \in Running /\ ~ call[s].cancelled =>
    \/ isolations[call[s].ip] = s
    \/ \E r \in Reconnector : /\ release[r].phase = "cancel"
                              /\ release[r].session = s /\ release[r].ip = call[s].ip

\* The inductive invariant behind ReleasedIsFree (isolation.go, reconnectDevice and
\* unblockForwarding against the rules of blockForwarding).
FreeInv ==
  TypeOK /\ NeverContainsProtected /\ MapMatchesSessions
    /\ NoRuleTooMany /\ OrdersAlone /\ ForgersKnown

-----------------------------------------------------------------------------
(* The promise this engine keeps *)

held == {ip \in IP : isolations[ip] # None}
blocked == {ip \in IP : src[ip] > 0 /\ dst[ip] > 0}

Promise == INSTANCE Quarantine WITH Device <- IP, held <- held, blocked <- blocked

\* Seen through the dashboard's list and the kernel's chain, every step of the
\* engine is a step of Quarantine: blocked before shown as isolated, shown as
\* released before unblocked (isolation.go, isolateDevice and reconnectDevice).
KeepsPromise == Promise!Spec

=============================================================================
