-------------------------------- MODULE Sweep --------------------------------
(***************************************************************************)
(* The sweep a scan begins with: which addresses are candidates            *)
(* (network.go), the pool of goroutines that ping them (findActiveHosts in *)
(* ports.go), and the health each ping adds to (noc.go).                   *)
(*                                                                         *)
(* Every candidate has a goroutine of its own, and at most maxProbes of a  *)
(* sweep ping at a time.  Who answered is sent through a channel without a *)
(* buffer, that another goroutine closes once all are done.  Scans         *)
(* overlap, and so do their sweeps; the health is all they share.          *)
(*                                                                         *)
(* An address is a number, and a candidate is an address together with the *)
(* number of its range.                                                    *)
(*                                                                         *)
(* A definition X_Y just above a definition X is X with a mistake in it;   *)
(* the specification does not use it.                                      *)
(***************************************************************************)
EXTENDS Integers, Sequences, FiniteSets

CONSTANTS
  IPNet,         \* our network: its first address and how many it has
  REDES_EXTRAS,  \* the ranges asked for besides, in order
  MaxRange,      \* the size of a /22: 2^10 in the code for IPv4, 2^106 for IPv6
  maxProbes,
  MinProbes,     \* 5 in the code: fewer pings say nothing yet
  Sweeper,       \* goroutines that scan: the loop and the handlers
  MaxSweeps,     \* bound: how many sweeps begin
  MaxChanges     \* bound: how many hosts come up or go down

\* IPv6 addresses are numbered after those of IPv4.
IPRange == [family : {4, 6}, base : Nat, size : Nat]

ASSUME RangeAssumption == IPNet \in IPRange /\ REDES_EXTRAS \in Seq(IPRange)

ASSUME SweeperAssumption == IsFiniteSet(Sweeper)

ASSUME PoolAssumption == maxProbes \in Nat \ {0} /\ MinProbes \in Nat /\ MaxRange \in [{4, 6} -> Nat]

ASSUME BoundAssumption == MaxSweeps \in Nat /\ MaxChanges \in Nat

\* The ranges that are not too large, by their place in the list.  The prefix is all that
\* is looked at, whatever the family.
parseExtraNetworks ==
  {n \in DOMAIN REDES_EXTRAS : REDES_EXTRAS[n].size <= MaxRange[REDES_EXTRAS[n].family]}

\* Every address but the first and the last, of IPv6 too: none of a range of two or one.
subnetHosts(range) == range.base + 1 .. range.base + range.size - 2

\* Our network is range 0.  An address of two ranges is there twice.
hostsToScan ==
  {0} \X subnetHosts(IPNet)
    \cup UNION {{n} \X subnetHosts(REDES_EXTRAS[n]) : n \in parseExtraNetworks}

Candidate == hostsToScan
Address(i) == i[2]
Host == {Address(i) : i \in Candidate}

\* The candidates that are this host.
Places(ip) == {i \in Candidate : Address(i) = ip}

VARIABLES
  up,             \* the hosts that would answer
  sweep,          \* each goroutine's findActiveHosts
  hostHealthByIP, \* answered and missed; a host that never answered has none
  outcomes,       \* history: what was recorded of each host, in order
  sweeps,         \* how many sweeps began
  changes         \* how many hosts came up or went down

vars == <<up, sweep, hostHealthByIP, outcomes, sweeps, changes>>

\* task: the goroutine of each candidate; hosts: who the channel delivered;
\* answered: a history of who answered in this sweep.
TaskState == {"waiting", "pinging", "sending", "done"}
SweepState == [running : BOOLEAN, closed : BOOLEAN, task : [Candidate -> TaskState],
               hosts : SUBSET Candidate, answered : SUBSET Candidate]
Started(running) ==
  [running |-> running, closed |-> FALSE, task |-> [i \in Candidate |-> "waiting"],
   hosts |-> {}, answered |-> {}]

Init ==
  /\ up \in SUBSET Host
  /\ sweep = [s \in Sweeper |-> Started(FALSE)]
  /\ hostHealthByIP = [ip \in Host |-> [answered |-> 0, missed |-> 0]]
  /\ outcomes = [ip \in Host |-> <<>>]
  /\ sweeps = 0
  /\ changes = 0

-----------------------------------------------------------------------------
(* findActiveHosts *)

startSweep(s) ==
  /\ sweeps < MaxSweeps /\ sweeps' = sweeps + 1
  /\ ~ sweep[s].running
  /\ sweep' = [sweep EXCEPT ![s] = Started(TRUE)]
  /\ UNCHANGED <<up, hostHealthByIP, outcomes, changes>>

\* Those that have a slot.
Holding(s) == {i \in Candidate : sweep[s].task[i] \in {"pinging", "sending"}}

takeSlot_OneMore(s, i) ==
  /\ sweep[s].running /\ sweep[s].task[i] = "waiting"
  /\ Cardinality(Holding(s)) <= maxProbes
  /\ sweep' = [sweep EXCEPT ![s].task[i] = "pinging"]
  /\ UNCHANGED <<up, hostHealthByIP, outcomes, sweeps, changes>>

takeSlot(s, i) ==
  /\ sweep[s].running /\ sweep[s].task[i] = "waiting"
  /\ Cardinality(Holding(s)) < maxProbes
  /\ sweep' = [sweep EXCEPT ![s].task[i] = "pinging"]
  /\ UNCHANGED <<up, hostHealthByIP, outcomes, sweeps, changes>>

healthAfter_All(health, answered) ==
  IF answered THEN [health EXCEPT !.answered = @ + 1] ELSE [health EXCEPT !.missed = @ + 1]

\* recordProbe: absences count only once the host has answered.
healthAfter(health, answered) ==
  IF answered THEN [health EXCEPT !.answered = @ + 1]
  ELSE IF health.answered > 0 THEN [health EXCEPT !.missed = @ + 1]
  ELSE health

\* The ping returns, with an answer or after its timeout, and recordProbe
\* takes healthMu once.  A host that is up is sent, with the slot still held;
\* the goroutine of one that is not ends here.
hostIsUp(s, i) ==
  LET ip == Address(i)
      answers == ip \in up IN
  /\ sweep[s].task[i] = "pinging"
  /\ hostHealthByIP' = [hostHealthByIP EXCEPT ![ip] = healthAfter(@, answers)]
  /\ outcomes' = [outcomes EXCEPT ![ip] = Append(@, answers)]
  /\ sweep' = [sweep EXCEPT ![s].task[i] = IF answers THEN "sending" ELSE "done",
                            ![s].answered = IF answers THEN @ \cup {i} ELSE @]
  /\ UNCHANGED <<up, sweeps, changes>>

receive_Afterwards(s, i) ==
  /\ sweep[s].task[i] = "sending"
  /\ \A j \in Candidate : sweep[s].task[j] \in {"sending", "done"}
  /\ sweep' = [sweep EXCEPT ![s].task[i] = "done", ![s].hosts = @ \cup {i}]
  /\ UNCHANGED <<up, hostHealthByIP, outcomes, sweeps, changes>>

\* The collector takes from the channel, and the goroutine that sent ends.
receive(s, i) ==
  /\ sweep[s].task[i] = "sending"
  /\ sweep' = [sweep EXCEPT ![s].task[i] = "done", ![s].hosts = @ \cup {i}]
  /\ UNCHANGED <<up, hostHealthByIP, outcomes, sweeps, changes>>

closeFound_Idle(s) ==
  /\ sweep[s].running /\ ~ sweep[s].closed
  /\ Holding(s) = {}
  /\ sweep' = [sweep EXCEPT ![s].closed = TRUE]
  /\ UNCHANGED <<up, hostHealthByIP, outcomes, sweeps, changes>>

\* wg.Wait is over: every goroutine called Done.
closeFound(s) ==
  /\ sweep[s].running /\ ~ sweep[s].closed
  /\ \A i \in Candidate : sweep[s].task[i] = "done"
  /\ sweep' = [sweep EXCEPT ![s].closed = TRUE]
  /\ UNCHANGED <<up, hostHealthByIP, outcomes, sweeps, changes>>

\* The collector sees the channel closed and returns what it has.
sweepReturns(s) ==
  /\ sweep[s].closed
  /\ sweep' = [sweep EXCEPT ![s] = Started(FALSE)]
  /\ UNCHANGED <<up, hostHealthByIP, outcomes, sweeps, changes>>

\* A host comes up or goes down.
hostChanges(ip) ==
  /\ changes < MaxChanges /\ changes' = changes + 1
  /\ up' = IF ip \in up THEN up \ {ip} ELSE up \cup {ip}
  /\ UNCHANGED <<sweep, hostHealthByIP, outcomes, sweeps>>

TaskStep(s, i) == takeSlot(s, i) \/ hostIsUp(s, i) \/ receive(s, i)

Next ==
  \/ \E s \in Sweeper : startSweep(s) \/ closeFound(s) \/ sweepReturns(s)
  \/ \E s \in Sweeper, i \in Candidate : TaskStep(s, i)
  \/ \E ip \in Host : hostChanges(ip)

Spec == Init /\ [][Next]_vars

\* The scheduler runs every goroutine, and a ping ends (ping -c 2 -W 1).  Who
\* waits for a slot need not be the next to get it.
Fairness ==
  \A s \in Sweeper :
    /\ \A i \in Candidate : WF_vars(TaskStep(s, i))
    /\ WF_vars(closeFound(s)) /\ WF_vars(sweepReturns(s))

FairSpec == Spec /\ Fairness

\* flakiestHosts: those that the panel complains of.
flakiestHosts ==
  {ip \in Host : LET health == hostHealthByIP[ip] IN
                   health.answered + health.missed >= MinProbes /\ health.missed > 0}

-----------------------------------------------------------------------------
(* Properties *)

\* Every variable stays in its domain, and no sweep pings more than maxProbes
\* hosts at a time (ports.go:166-186).
TypeOK ==
  /\ up \subseteq Host
  /\ sweep \in [Sweeper -> SweepState]
  /\ \A s \in Sweeper : Cardinality(Holding(s)) <= maxProbes
  /\ hostHealthByIP \in [Host -> [answered : Nat, missed : Nat]]
  /\ outcomes \in [Host -> Seq(BOOLEAN)]
  /\ sweeps \in 0..MaxSweeps
  /\ changes \in 0..MaxChanges

\* The channel is closed only when nobody can send through it any more, and
\* by then it delivered all that answered in this sweep and nobody else; when
\* no sweep is under way, each candidate was pinged once in every sweep
\* (ports.go:178-202).
NothingLost ==
  /\ \A s \in Sweeper : sweep[s].closed =>
       /\ \A i \in Candidate : sweep[s].task[i] = "done"
       /\ sweep[s].hosts = sweep[s].answered
  /\ (\A s \in Sweeper : ~ sweep[s].running) =>
       \A ip \in Host : Len(outcomes[ip]) = sweeps * Cardinality(Places(ip))

\* What recordProbe saw of a host: when it answered, and when it did not after an answer.
Answers(history) == {n \in DOMAIN history : history[n]}
Absences(history) ==
  {n \in DOMAIN history \ Answers(history) : \E m \in Answers(history) : m < n}

\* Whatever order overlapping sweeps record in, the health of a host is that of
\* its history: its answers, and the absences since the first of them; so a
\* host that never answered, or never failed to, is not complained of
\* (noc.go:35-64, 99-108).
HealthFollowsHistory ==
  \A ip \in Host :
    /\ hostHealthByIP[ip] = [answered |-> Cardinality(Answers(outcomes[ip])),
                             missed |-> Cardinality(Absences(outcomes[ip]))]
    /\ ip \in flakiestHosts => Answers(outcomes[ip]) # {} /\ Absences(outcomes[ip]) # {}

\* A sweep that began returns, however few slots there are for however many
\* candidates, and whoever else is sweeping (ports.go:173-202).
SweepEnds == \A s \in Sweeper : sweep[s].running ~> ~ sweep[s].running

-----------------------------------------------------------------------------
(* Why NothingLost holds *)

\* The pings of a host that the sweeps under way have not recorded yet.
Owes(s, i) == sweep[s].running /\ sweep[s].task[i] \in {"waiting", "pinging"}
Owed(ip) == {p \in Sweeper \X Places(ip) : Owes(p[1], p[2])}

\* Only a sweep under way has goroutines that got on; when the channel is closed they
\* are done; and who answered was delivered, or is still to be.
SweepsConsistent ==
  \A s \in Sweeper :
    /\ \A i \in Candidate : sweep[s].task[i] # "waiting" => sweep[s].running
    /\ sweep[s].closed => \A i \in Candidate : sweep[s].task[i] = "done"
    /\ sweep[s].answered = sweep[s].hosts \cup {i \in Candidate : sweep[s].task[i] = "sending"}

\* What is recorded of a host and what is owed make one ping per place and sweep.
PingsAccounted ==
  \A ip \in Host :
    Len(outcomes[ip]) + Cardinality(Owed(ip)) = sweeps * Cardinality(Places(ip))

\* The inductive invariant behind NothingLost (ports.go:173-202, noc.go:35-64).
PoolInv == TypeOK /\ SweepsConsistent /\ PingsAccounted

=============================================================================
