-------------------------------- MODULE Agents --------------------------------
(***************************************************************************)
(* The distributed mode (agent.go): a central polls the agents of other    *)
(* subnets, shows what they report next to its own devices, and forwards   *)
(* orders to the agent whose subnet the device is in.                      *)
(*                                                                         *)
(* A device is named by its address, which is in the subnet of one agent.  *)
(* An order is one request of the central's dashboard: its client side     *)
(* gives up after the time limit of apiClient, its server side goes on     *)
(* regardless, and answers only when the scan that follows the             *)
(* containment is over.                                                    *)
(*                                                                         *)
(* Inside an agent only its map of isolations and its cache matter here:   *)
(* modules Containment and Admission have the rest.  A scan is a read and  *)
(* a later write of the cache.  Tokens and JSON are left out.              *)
(*                                                                         *)
(* A definition X_Y just above a definition X is X with a mistake in it;   *)
(* the specification does not use it.                                      *)
(***************************************************************************)
EXTENDS Integers, FiniteSets

CONSTANTS
  Agent,       \* the entries of AGENTES
  Device,      \* the devices of the agents' subnets
  Owner,       \* the agent whose subnet a device is in
  Order,       \* goroutines that serve the central's dashboard
  None,        \* no device, no scan
  Fault,       \* which of FaultKind may happen
  MaxChanges   \* bound: how many faults and changes behind the central's back

FaultKind == {
  "lost",      \* an agent that runs does not answer a poll in time
  "down",      \* an agent stops, and starts again
  "local",     \* an agent isolates or reconnects a device by itself
  "online" }   \* a device joins or leaves

\* What a list says of a device.
Status == {"absent", "free", "isolated"}

ASSUME ProcessAssumption ==
  /\ Agent \cap Order = {}
  /\ Owner \in [Device -> Agent]
  /\ None \notin Device \cup [Device -> Status]

ASSUME BoundAssumption == Fault \subseteq FaultKind /\ MaxChanges \in Nat

VARIABLES
  up,            \* the agents that run
  online,        \* the devices that are in their agent's ARP table
  isolations,    \* the devices in their agent's map of isolations
  cache,         \* every agent's lastResults
  scan,          \* the scans of the agents' loops and of the orders they serve
  poll,          \* the progress of refreshAgents
  remoteResults, \* the central's list of the agents' devices
  agentErrors,   \* the agents whose last poll failed
  shown,         \* the devices the central has listed so far
  order,         \* each order's two sides
  changes        \* history: how many faults and changes have happened

agentSide == <<up, online, isolations, cache>>
central == <<poll, remoteResults, agentErrors>>
vars == <<agentSide, scan, central, shown, order, changes>>

-----------------------------------------------------------------------------
(* State shapes *)

Unlisted == [d \in Device |-> "absent"]
Listed(list) == {d \in Device : list[d] # "absent"}

PollState == [asked : SUBSET Agent, active : BOOLEAN,
              merged : [Device -> Status], failures : SUBSET Agent]

NoPoll == [asked |-> {}, active |-> FALSE, merged |-> Unlisted, failures |-> {}]

\* client: what the central's handler waits for or told its user;
\* server: the request on its way, served, and served with an answer;
\* applied: history, did the request change the agent's map.
OrderState == [kind : {"isolar", "reconectar"}, device : Device \cup {None},
               client : {"idle", "waiting", "ok", "refused", "failed", "local"},
               server : {"none", "coming", "scanning", "done", "refused"},
               applied : BOOLEAN]

NoOrder == [kind |-> "isolar", device |-> None, client |-> "idle",
            server |-> "none", applied |-> FALSE]

Init ==
  /\ up = Agent
  /\ online = Device
  /\ isolations = {}
  /\ cache = Unlisted
  /\ scan = [s \in Agent \cup Order |-> None]
  /\ poll = NoPoll
  /\ remoteResults = Unlisted
  /\ agentErrors = {}
  /\ shown = {}
  /\ order = [o \in Order |-> NoOrder]
  /\ changes = 0

-----------------------------------------------------------------------------
(* An agent's cache *)

\* What a scan of the subnet finds now.
Found(a) ==
  [d \in Device |-> IF Owner[d] # a \/ d \notin online THEN "absent"
                    ELSE IF d \in isolations THEN "isolated" ELSE "free"]

\* A list with what another says of an agent's devices.
Merged(list, a, other) ==
  [d \in Device |-> IF Owner[d] = a THEN other[d] ELSE list[d]]

loopScans(a) ==
  /\ a \in up /\ scan[a] = None
  /\ scan' = [scan EXCEPT ![a] = Found(a)]
  /\ UNCHANGED <<agentSide, central, shown, order, changes>>

\* refreshCache replaces the agent's results by those of the scan that ends.
loopPublishes(a) ==
  /\ scan[a] # None
  /\ cache' = Merged(cache, a, scan[a])
  /\ scan' = [scan EXCEPT ![a] = None]
  /\ UNCHANGED <<up, online, isolations, central, shown, order, changes>>

-----------------------------------------------------------------------------
(* refreshAgents: all agents are asked at once, the slowest is waited for *)

refreshAgents ==
  /\ ~ poll.active
  /\ poll' = [asked |-> Agent, active |-> TRUE, merged |-> Unlisted, failures |-> {}]
  /\ UNCHANGED <<agentSide, scan, remoteResults, agentErrors, shown, order, changes>>

\* /api/dispositivos: the agent's cache as it is now.
fetchAgent(a) ==
  /\ a \in poll.asked /\ a \in up
  /\ poll' = [poll EXCEPT !.asked = @ \ {a}, !.merged = Merged(@, a, cache)]
  /\ UNCHANGED <<agentSide, scan, remoteResults, agentErrors, shown, order, changes>>

\* The time limit passes, or the connection is refused.
fetchFails(a) ==
  /\ a \in poll.asked
  /\ \/ a \notin up /\ UNCHANGED changes
     \/ "lost" \in Fault /\ changes < MaxChanges /\ changes' = changes + 1
  /\ poll' = [poll EXCEPT !.asked = @ \ {a}, !.failures = @ \cup {a}]
  /\ UNCHANGED <<agentSide, scan, remoteResults, agentErrors, shown, order>>

pollEnds_KeepDevices ==
  /\ poll.active /\ poll.asked = {}
  /\ remoteResults' = [d \in Device |-> IF Owner[d] \in poll.failures
                                        THEN remoteResults[d] ELSE poll.merged[d]]
  /\ agentErrors' = poll.failures
  /\ shown' = shown \cup Listed(remoteResults')
  /\ poll' = NoPoll
  /\ UNCHANGED <<agentSide, scan, order, changes>>

pollEnds_AllOrNothing ==
  /\ poll.active /\ poll.asked = {}
  /\ remoteResults' = IF poll.failures = {} THEN poll.merged ELSE Unlisted
  /\ agentErrors' = poll.failures
  /\ shown' = shown \cup Listed(remoteResults')
  /\ poll' = NoPoll
  /\ UNCHANGED <<agentSide, scan, order, changes>>

pollEnds ==
  /\ poll.active /\ poll.asked = {}
  /\ remoteResults' = poll.merged
  /\ agentErrors' = poll.failures
  /\ shown' = shown \cup Listed(remoteResults')
  /\ poll' = NoPoll
  /\ UNCHANGED <<agentSide, scan, order, changes>>

-----------------------------------------------------------------------------
(* An order: the central's handlers and proxyAction *)

agentURLFor(d) == IF remoteResults[d] = "absent" THEN {} ELSE {Owner[d]}

\* isolateHandler, reconnectHandler, from a page of any age: the order goes to
\* the agent the list names.  Without one the device is taken for local, where
\* no ARP entry and no isolation has its address, and the order is refused.
submit(o, kind, d) ==
  /\ order[o] = NoOrder
  /\ d \in shown
  /\ LET forwarded == agentURLFor(d) # {} IN
       order' = [order EXCEPT ![o] =
         [kind |-> kind, device |-> d, applied |-> FALSE,
          client |-> IF forwarded THEN "waiting" ELSE "local",
          server |-> IF forwarded THEN "coming" ELSE "none"]]
  /\ UNCHANGED <<agentSide, scan, central, shown, changes>>

Contained(kind, d) ==
  IF kind = "isolar" THEN isolations \cup {d} ELSE isolations \ {d}

Accepted(kind, d) ==
  \/ kind = "isolar" /\ d \in online \ isolations
  \/ kind = "reconectar" /\ d \in isolations

\* /api/isolar, /api/reconectar: done or refused at once; a scan follows.
serve(o) ==
  LET kind == order[o].kind
      d == order[o].device
  IN
  /\ order[o].server = "coming"
  /\ Owner[d] \in up
  /\ \/ /\ Accepted(kind, d)
        /\ isolations' = Contained(kind, d)
        /\ order' = [order EXCEPT ![o] = [@ EXCEPT !.server = "scanning", !.applied = TRUE]]
     \/ /\ ~ Accepted(kind, d)
        /\ order' = [order EXCEPT ![o].server = "refused"]
        /\ UNCHANGED isolations
  /\ UNCHANGED <<up, online, cache, scan, central, shown, changes>>

serverScans(o) ==
  /\ order[o].server = "scanning" /\ scan[o] = None
  /\ scan' = [scan EXCEPT ![o] = Found(Owner[order[o].device])]
  /\ UNCHANGED <<agentSide, central, shown, order, changes>>

serverPublishes(o) ==
  /\ scan[o] # None
  /\ cache' = Merged(cache, Owner[order[o].device], scan[o])
  /\ scan' = [scan EXCEPT ![o] = None]
  /\ order' = [order EXCEPT ![o].server = "done"]
  /\ UNCHANGED <<up, online, isolations, central, shown, changes>>

Outcome_Unchecked(o) == "ok"

\* The answer's status: 204, or the agent's refusal.
Outcome(o) == IF order[o].server = "refused" THEN "refused" ELSE "ok"

\* The agent's answer; nobody reads it when the client has given up.
answer(o) ==
  /\ order[o].server \in {"done", "refused"}
  /\ order' = [order EXCEPT
       ![o].client = IF order[o].client = "waiting" THEN Outcome(o) ELSE @,
       ![o].server = "none"]
  /\ UNCHANGED <<agentSide, scan, central, shown, changes>>

\* apiClient's time limit, or a connection that breaks: the agent goes on.
timeout(o) ==
  /\ order[o].client = "waiting"
  /\ order' = [order EXCEPT ![o].client = "failed"]
  /\ UNCHANGED <<agentSide, scan, central, shown, changes>>

\* A request nobody waits for any more is dropped on its way.
drop(o) ==
  /\ order[o].server = "coming" /\ order[o].client # "waiting"
  /\ order' = [order EXCEPT ![o].server = "none"]
  /\ UNCHANGED <<agentSide, scan, central, shown, changes>>

\* The user has read the outcome, and the agent is done with it.
close(o) ==
  /\ order[o].client \notin {"idle", "waiting"} /\ order[o].server = "none"
  /\ order' = [order EXCEPT ![o] = NoOrder]
  /\ UNCHANGED <<agentSide, scan, central, shown, changes>>

-----------------------------------------------------------------------------
(* Behind the central's back *)

Happens(kind) == kind \in Fault /\ changes < MaxChanges /\ changes' = changes + 1

OfAgent(a) == {d \in Device : Owner[d] = a}
ServedBy(a) == {o \in Order : order[o].device \in OfAgent(a)}

\* The process dies: its isolations end (cleanOrphanRules), its cache is empty.
agentStops(a) ==
  /\ a \in up /\ Happens("down")
  /\ up' = up \ {a}
  /\ isolations' = isolations \ OfAgent(a)
  /\ cache' = Merged(cache, a, Unlisted)
  /\ scan' = [s \in Agent \cup Order |-> IF s \in {a} \cup ServedBy(a) THEN None ELSE scan[s]]
  /\ order' = [o \in Order |-> IF o \in ServedBy(a) /\ order[o].server # "coming"
                               THEN [order[o] EXCEPT !.server = "none"] ELSE order[o]]
  /\ UNCHANGED <<online, central, shown>>

agentStarts(a) ==
  /\ a \notin up /\ Happens("down")
  /\ up' = up \cup {a}
  /\ UNCHANGED <<online, isolations, cache, scan, central, shown, order>>

\* The agent's policy, its deadlines, its own dashboard.
agentActs(d) ==
  /\ Owner[d] \in up /\ Happens("local")
  /\ \/ d \in online \ isolations /\ isolations' = isolations \cup {d}
     \/ d \in isolations /\ isolations' = isolations \ {d}
  /\ UNCHANGED <<up, online, cache, scan, central, shown, order>>

deviceMoves(d) ==
  /\ Happens("online")
  /\ online' = IF d \in online THEN online \ {d} ELSE online \cup {d}
  /\ UNCHANGED <<up, isolations, cache, scan, central, shown, order>>

-----------------------------------------------------------------------------
agentStep(a) == loopScans(a) \/ loopPublishes(a)
ask(a) == fetchAgent(a) \/ fetchFails(a)
serveStep(o) == serve(o) \/ serverScans(o) \/ serverPublishes(o) \/ answer(o)

Next ==
  \/ \E a \in Agent : agentStep(a) \/ ask(a) \/ agentStops(a) \/ agentStarts(a)
  \/ refreshAgents \/ pollEnds
  \/ \E o \in Order :
       \/ \E kind \in {"isolar", "reconectar"}, d \in Device : submit(o, kind, d)
       \/ serveStep(o) \/ timeout(o) \/ drop(o) \/ close(o)
  \/ \E d \in Device : agentActs(d) \/ deviceMoves(d)

Spec == Init /\ [][Next]_vars

\* Loops go on, every question of a poll is answered or fails (apiClient has a time
\* limit), and an agent carries out what reached it.  Nobody has to give an order, and
\* nothing behind the central's back has to happen.
Fairness ==
  /\ WF_vars(refreshAgents) /\ WF_vars(pollEnds)
  /\ \A a \in Agent : WF_vars(agentStep(a)) /\ WF_vars(ask(a))
  /\ \A o \in Order : WF_vars(serveStep(o))

FairSpec == Spec /\ Fairness

-----------------------------------------------------------------------------
(* Correctness *)

TypeOK ==
  /\ up \subseteq Agent
  /\ online \subseteq Device
  /\ isolations \subseteq Device
  /\ cache \in [Device -> Status]
  /\ scan \in [Agent \cup Order -> [Device -> Status] \cup {None}]
  /\ poll \in PollState
  /\ remoteResults \in [Device -> Status]
  /\ agentErrors \subseteq Agent
  /\ shown \subseteq Device
  /\ order \in [Order -> OrderState]
  /\ changes \in 0 .. MaxChanges

\* What the user is told agrees with what the agent did, whatever else happens
\* to the agent meanwhile: success means the order changed the agent's map, a
\* refusal means that it did not.  Only a time-out says neither (agent.go,
\* proxyAction against registerAgentAPI).
AnswersAgree ==
  \A o \in Order :
    /\ order[o].client = "ok" => order[o].applied
    /\ order[o].client \in {"refused", "local"} => ~ order[o].applied

\* The central never lists devices of an agent it reports as failing: the list
\* and the errors it is shown with are of one poll (agent.go, refreshAgents).
ErrorsHideDevices == \A d \in Listed(remoteResults) : Owner[d] \notin agentErrors

\* In the end the central shows a device as its agent has it, though scans of the
\* agent overwrite each other's results and other agents may be down, and it
\* reports the agents that stay down and no other (agent.go, startAgentPolling
\* and fetchAgent).
ViewConverges ==
  /\ \A d \in Device :
       /\ <>[](Owner[d] \in up /\ d \in online \cap isolations)
            => <>[](remoteResults[d] = "isolated")
       /\ <>[](Owner[d] \in up /\ d \in online \ isolations)
            => <>[](remoteResults[d] = "free")
  /\ \A a \in Agent :
       /\ <>[](a \notin up) => <>[](a \in agentErrors)
       /\ <>[](a \in up) => <>[](a \notin agentErrors)

-----------------------------------------------------------------------------
(* The contract with whoever gives an order *)

\* An order that is taken for local is refused.
ToldOf(call) == IF call.client = "local" THEN "refused" ELSE call.client

told == [o \in Order |-> ToldOf(order[o])]
done == [o \in Order |-> order[o].applied]

Contract == INSTANCE Delegation WITH told <- told, done <- done

\* Seen by the user and through the agents' maps, every step is a step of
\* Delegation: an order is carried out at most once, and not any more once the
\* user knows how it ended, although agents die, answers come too late and
\* requests are dropped (agent.go, proxyAction against registerAgentAPI).
KeepsContract == Contract!Spec

=============================================================================
