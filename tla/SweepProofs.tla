------------------------------ MODULE SweepProofs ------------------------------
(***************************************************************************)
(* What holds of Sweep for any ranges, any number of slots and any number  *)
(* of sweeps at once, proved with TLAPS.                                   *)
(***************************************************************************)
EXTENDS Sweep, FiniteSetTheorems, SequenceTheorems, TLAPS

-----------------------------------------------------------------------------
(* Counting, and the candidates *)

\* One more element counts one more, or nothing if it was there.
LEMMA CountOneMore ==
  ASSUME NEW S, NEW x, IsFiniteSet(S)
  PROVE  /\ Cardinality(S) \in Nat /\ Cardinality(S \cup {x}) \in Nat
         /\ Cardinality(S \cup {x}) <= Cardinality(S) + 1
         /\ x \notin S => Cardinality(S \cup {x}) = Cardinality(S) + 1
<1>1. Cardinality(S) \in Nat
  BY FS_CardinalityType
<1>. QED BY <1>1, FS_AddElement

\* One element less counts one less.
LEMMA CountOneLess ==
  ASSUME NEW S, NEW x \in S, IsFiniteSet(S)
  PROVE  Cardinality(S \ {x}) \in Nat /\ Cardinality(S) = Cardinality(S \ {x}) + 1
<1>1. Cardinality(S) \in Nat /\ Cardinality(S \ {x}) = Cardinality(S) - 1
  BY FS_CardinalityType, FS_RemoveElement
<1>2. Cardinality(S \ {x}) \in Nat
  BY FS_CardinalityType, FS_RemoveElement
<1>. QED BY <1>1, <1>2

\* The candidates are finitely many pairs (network.go, hostsToScan).
LEMMA FiniteCandidates == IsFiniteSet(Candidate)
<1>1. \A range \in IPRange : IsFiniteSet(subnetHosts(range))
  BY FS_Interval DEF IPRange, subnetHosts
<1>2. \A n, range : range \in IPRange => IsFiniteSet({n} \X subnetHosts(range))
  BY <1>1, FS_Singleton, FS_Product
<1>3. DOMAIN REDES_EXTRAS = 1 .. Len(REDES_EXTRAS) /\ Len(REDES_EXTRAS) \in Nat
  BY RangeAssumption
<1>4. IsFiniteSet(parseExtraNetworks)
  <2>1. IsFiniteSet(1 .. Len(REDES_EXTRAS))
    BY <1>3, FS_Interval
  <2>2. parseExtraNetworks \in SUBSET (1 .. Len(REDES_EXTRAS))
    BY <1>3 DEF parseExtraNetworks
  <2>. QED BY <2>1, <2>2, FS_Subset
<1>. DEFINE extra == [n \in parseExtraNetworks |-> {n} \X subnetHosts(REDES_EXTRAS[n])]
            extras == {extra[n] : n \in parseExtraNetworks}
<1>5. IsFiniteSet(extras)
  <2>1. extra \in Surjection(parseExtraNetworks, extras)
    BY DEF Surjection
  <2>. QED BY <1>4, <2>1, FS_Surjection
<1>6. \A n \in parseExtraNetworks : IsFiniteSet(extra[n])
  <2>1. \A n \in parseExtraNetworks : REDES_EXTRAS[n] \in IPRange
    BY <1>3, RangeAssumption DEF parseExtraNetworks
  <2>. QED BY <1>2, <2>1
<1>7. IsFiniteSet(UNION extras)
  BY <1>5, <1>6, FS_UNION
<1>8. Candidate = ({0} \X subnetHosts(IPNet)) \cup UNION extras
  BY DEF Candidate, hostsToScan
<1>. QED BY <1>2, <1>7, <1>8, RangeAssumption, FS_Union

\* A host is one candidate or several (an address in two ranges).
LEMMA PlacesCount ==
  ASSUME NEW ip
  PROVE  IsFiniteSet(Places(ip)) /\ Cardinality(Places(ip)) \in Nat
  BY FiniteCandidates, FS_Subset, FS_CardinalityType DEF Places

-----------------------------------------------------------------------------
(* Types *)

\* Holders of a slot can be counted.
LEMMA HoldingCount ==
  ASSUME NEW s \in Sweeper
  PROVE  IsFiniteSet(Holding(s)) /\ Cardinality(Holding(s)) \in Nat
  BY FiniteCandidates, FS_Subset, FS_CardinalityType DEF Holding

\* A sweep is in its shape when it begins and when it has returned.
LEMMA StartedType ==
  ASSUME NEW running \in BOOLEAN
  PROVE  /\ Started(running) \in SweepState
         /\ Started(running).running = running
         /\ Started(running).closed = FALSE
         /\ Started(running).hosts = {} /\ Started(running).answered = {}
         /\ \A i \in Candidate : Started(running).task[i] = "waiting"
  BY DEF Started, SweepState, TaskState

\* A ping adds to the health of a host what it is (noc.go, recordProbe).
LEMMA HealthType ==
  ASSUME NEW health \in [answered : Nat, missed : Nat], NEW answered \in BOOLEAN
  PROVE  healthAfter(health, answered) \in [answered : Nat, missed : Nat]
  BY DEF healthAfter

\* What a goroutine of the pool changes: its own place in its own sweep, from one
\* state to the next (ports.go, findActiveHosts).
Moves(s, i, from, to) ==
  /\ sweep[s].task[i] = from
  /\ sweep' \in [Sweeper -> SweepState]
  /\ \A r \in Sweeper \ {s} : sweep'[r] = sweep[r]
  /\ sweep'[s].running = sweep[s].running /\ sweep'[s].closed = sweep[s].closed
  /\ sweep'[s].task = [sweep[s].task EXCEPT ![i] = to]

\* Replacing one sweep leaves the others.
LEMMA InPlace ==
  ASSUME NEW f \in [Sweeper -> SweepState], NEW s \in Sweeper, NEW c \in SweepState
  PROVE  /\ [f EXCEPT ![s] = c] \in [Sweeper -> SweepState]
         /\ [f EXCEPT ![s] = c][s] = c
         /\ \A r \in Sweeper \ {s} : [f EXCEPT ![s] = c][r] = f[r]
  OBVIOUS

\* Taking a slot moves one goroutine, and delivers nothing (ports.go:185).
LEMMA TakeSlotMoves ==
  ASSUME TypeOK, NEW s \in Sweeper, NEW i \in Candidate, takeSlot(s, i)
  PROVE  /\ Moves(s, i, "waiting", "pinging")
         /\ sweep'[s].hosts = sweep[s].hosts /\ sweep'[s].answered = sweep[s].answered
<1>. DEFINE c == [sweep[s] EXCEPT !.task[i] = "pinging"]
<1>1. sweep[s] \in SweepState
  BY DEF TypeOK
<1>2. /\ c \in SweepState /\ c.task = [sweep[s].task EXCEPT ![i] = "pinging"]
      /\ c.running = sweep[s].running /\ c.closed = sweep[s].closed
      /\ c.hosts = sweep[s].hosts /\ c.answered = sweep[s].answered
  BY <1>1 DEF SweepState, TaskState
<1>3. sweep' = [sweep EXCEPT ![s] = c] /\ sweep[s].task[i] = "waiting"
  BY DEF takeSlot
<1>. HIDE DEF c
<1>4. /\ sweep' \in [Sweeper -> SweepState] /\ sweep'[s] = c
      /\ \A r \in Sweeper \ {s} : sweep'[r] = sweep[r]
  BY <1>2, <1>3, InPlace DEF TypeOK
<1>5. Moves(s, i, "waiting", "pinging")
  BY <1>2, <1>3, <1>4 DEF Moves
<1>. QED BY <1>2, <1>4, <1>5

\* The end of a ping moves one goroutine: on to the channel if the host answered, to its
\* end if not (ports.go:187-191).
LEMMA PingMoves ==
  ASSUME TypeOK, NEW s \in Sweeper, NEW i \in Candidate, hostIsUp(s, i)
  PROVE  /\ sweep'[s].hosts = sweep[s].hosts
         /\ \/ /\ Moves(s, i, "pinging", "sending")
               /\ sweep'[s].answered = sweep[s].answered \cup {i}
            \/ /\ Moves(s, i, "pinging", "done")
               /\ sweep'[s].answered = sweep[s].answered
<1>1. sweep[s] \in SweepState
  BY DEF TypeOK
<1>2. CASE Address(i) \in up
  <2>. DEFINE c == [sweep[s] EXCEPT !.task[i] = "sending", !.answered = @ \cup {i}]
  <2>1. /\ c \in SweepState /\ c.task = [sweep[s].task EXCEPT ![i] = "sending"]
        /\ c.running = sweep[s].running /\ c.closed = sweep[s].closed
        /\ c.hosts = sweep[s].hosts /\ c.answered = sweep[s].answered \cup {i}
    BY <1>1 DEF SweepState, TaskState
  <2>2. sweep' = [sweep EXCEPT ![s] = c] /\ sweep[s].task[i] = "pinging"
    BY <1>2 DEF hostIsUp
  <2>. HIDE DEF c
  <2>3. /\ sweep' \in [Sweeper -> SweepState] /\ sweep'[s] = c
        /\ \A r \in Sweeper \ {s} : sweep'[r] = sweep[r]
    BY <2>1, <2>2, InPlace DEF TypeOK
  <2>4. Moves(s, i, "pinging", "sending")
    BY <2>1, <2>2, <2>3 DEF Moves
  <2>. QED BY <2>1, <2>3, <2>4
<1>3. CASE Address(i) \notin up
  <2>. DEFINE c == [sweep[s] EXCEPT !.task[i] = "done"]
  <2>1. /\ c \in SweepState /\ c.task = [sweep[s].task EXCEPT ![i] = "done"]
        /\ c.running = sweep[s].running /\ c.closed = sweep[s].closed
        /\ c.hosts = sweep[s].hosts /\ c.answered = sweep[s].answered
    BY <1>1 DEF SweepState, TaskState
  <2>2. sweep' = [sweep EXCEPT ![s] = c] /\ sweep[s].task[i] = "pinging"
    BY <1>1, <1>3 DEF hostIsUp, SweepState
  <2>. HIDE DEF c
  <2>3. /\ sweep' \in [Sweeper -> SweepState] /\ sweep'[s] = c
        /\ \A r \in Sweeper \ {s} : sweep'[r] = sweep[r]
    BY <2>1, <2>2, InPlace DEF TypeOK
  <2>4. Moves(s, i, "pinging", "done")
    BY <2>1, <2>2, <2>3 DEF Moves
  <2>. QED BY <2>1, <2>3, <2>4
<1>. QED BY <1>2, <1>3

\* What the collector takes ends one goroutine and is delivered (ports.go:190, 198-201).
LEMMA ReceiveMoves ==
  ASSUME TypeOK, NEW s \in Sweeper, NEW i \in Candidate, receive(s, i)
  PROVE  /\ Moves(s, i, "sending", "done")
         /\ sweep'[s].hosts = sweep[s].hosts \cup {i}
         /\ sweep'[s].answered = sweep[s].answered
<1>. DEFINE c == [sweep[s] EXCEPT !.task[i] = "done", !.hosts = @ \cup {i}]
<1>1. sweep[s] \in SweepState
  BY DEF TypeOK
<1>2. /\ c \in SweepState /\ c.task = [sweep[s].task EXCEPT ![i] = "done"]
      /\ c.running = sweep[s].running /\ c.closed = sweep[s].closed
      /\ c.hosts = sweep[s].hosts \cup {i} /\ c.answered = sweep[s].answered
  BY <1>1 DEF SweepState, TaskState
<1>3. sweep' = [sweep EXCEPT ![s] = c] /\ sweep[s].task[i] = "sending"
  BY DEF receive
<1>. HIDE DEF c
<1>4. /\ sweep' \in [Sweeper -> SweepState] /\ sweep'[s] = c
      /\ \A r \in Sweeper \ {s} : sweep'[r] = sweep[r]
  BY <1>2, <1>3, InPlace DEF TypeOK
<1>5. Moves(s, i, "sending", "done")
  BY <1>2, <1>3, <1>4 DEF Moves
<1>. QED BY <1>2, <1>4, <1>5

\* A goroutine that has its slot and goes on, or gives it back, needs no other.
LEMMA MovesHolds ==
  ASSUME TypeOK, NEW s \in Sweeper, NEW i \in Candidate, NEW from, NEW to,
         Moves(s, i, from, to), from \in {"pinging", "sending"}, to \in TaskState
  PROVE  \A r \in Sweeper : Cardinality(Holding(r)') <= maxProbes
<1>1. ASSUME NEW r \in Sweeper PROVE Holding(r)' \in SUBSET Holding(r)
  <2>1. CASE r = s
    <3>1. sweep[s].task \in [Candidate -> TaskState]
      BY DEF TypeOK, SweepState
    <3>2. \A j \in Candidate \ {i} : sweep'[s].task[j] = sweep[s].task[j]
      BY <3>1 DEF Moves
    <3>. QED BY <2>1, <3>2 DEF Moves, Holding
  <2>2. CASE r # s
    BY <2>2 DEF Moves, Holding
  <2>. QED BY <2>1, <2>2
<1>2. ASSUME NEW r \in Sweeper PROVE Cardinality(Holding(r)') <= maxProbes
  <2>1. Cardinality(Holding(r)') <= Cardinality(Holding(r))
    BY <1>1, HoldingCount, FS_Subset
  <2>2. Cardinality(Holding(r)') \in Nat
    BY <1>1, HoldingCount, FS_Subset, FS_CardinalityType
  <2>. QED BY <2>1, <2>2, HoldingCount, PoolAssumption DEF TypeOK
<1>. QED BY <1>2

\* The sweeps of the others keep their slots.
LEMMA EmptyHolds ==
  ASSUME TypeOK, NEW s \in Sweeper, NEW running \in BOOLEAN,
         sweep' = [sweep EXCEPT ![s] = Started(running)]
  PROVE  /\ sweep' \in [Sweeper -> SweepState]
         /\ \A r \in Sweeper : Cardinality(Holding(r)') <= maxProbes
<1>1. sweep' \in [Sweeper -> SweepState]
  BY StartedType DEF TypeOK
<1>2. Holding(s)' = {}
  BY StartedType DEF TypeOK, Holding
<1>3. ASSUME NEW r \in Sweeper \ {s} PROVE Holding(r)' = Holding(r)
  BY <1>3 DEF TypeOK, Holding
<1>4. Cardinality(Holding(s)') <= maxProbes
  BY <1>2, FS_EmptySet, PoolAssumption
<1>. QED BY <1>1, <1>3, <1>4 DEF TypeOK

\* The record of a sweep, and the one with its channel closed.
LEMMA SweepType ==
  ASSUME TypeOK, NEW s \in Sweeper
  PROVE  sweep[s] \in SweepState
  BY DEF TypeOK

\* Closing the channel keeps the shape of a sweep.
LEMMA ClosedType ==
  ASSUME NEW state \in SweepState
  PROVE  [state EXCEPT !.closed = TRUE] \in SweepState
  BY DEF SweepState

\* Every step keeps the types, and the slots (ports.go:166-186).
LEMMA NextType == TypeOK /\ [Next]_vars => TypeOK'
<1>. SUFFICES ASSUME TypeOK, [Next]_vars PROVE TypeOK'
  OBVIOUS
<1>1. ASSUME NEW s \in Sweeper, startSweep(s) PROVE TypeOK'
  <2>1. /\ sweep' \in [Sweeper -> SweepState]
        /\ \A r \in Sweeper : Cardinality(Holding(r)') <= maxProbes
    BY <1>1, EmptyHolds DEF startSweep
  <2>2. sweeps' \in 0..MaxSweeps
    BY <1>1, BoundAssumption DEF startSweep, TypeOK
  <2>. QED BY <1>1, <2>1, <2>2 DEF startSweep, TypeOK
<1>2. ASSUME NEW s \in Sweeper, closeFound(s) PROVE TypeOK'
  <2>. DEFINE c == [sweep[s] EXCEPT !.closed = TRUE]
  <2>a. c \in SweepState
    BY SweepType, ClosedType
  <2>1. sweep' \in [Sweeper -> SweepState]
    BY <1>2, <2>a DEF closeFound, TypeOK
  <2>2. ASSUME NEW r \in Sweeper PROVE Holding(r)' = Holding(r)
    BY <1>2, <2>2 DEF closeFound, TypeOK, SweepState, Holding
  <2>. QED BY <1>2, <2>1, <2>2 DEF closeFound, TypeOK
<1>3. ASSUME NEW s \in Sweeper, sweepReturns(s) PROVE TypeOK'
  <2>1. /\ sweep' \in [Sweeper -> SweepState]
        /\ \A r \in Sweeper : Cardinality(Holding(r)') <= maxProbes
    BY <1>3, EmptyHolds DEF sweepReturns
  <2>. QED BY <1>3, <2>1 DEF sweepReturns, TypeOK
<1>4. ASSUME NEW s \in Sweeper, NEW i \in Candidate, takeSlot(s, i) PROVE TypeOK'
  <2>1. Moves(s, i, "waiting", "pinging")
    BY <1>4, TakeSlotMoves
  <2>2. Holding(s)' = Holding(s) \cup {i}
    BY <2>1 DEF Moves, TypeOK, SweepState, Holding
  <2>3. Cardinality(Holding(s)') <= maxProbes
    <3>1. IsFiniteSet(Holding(s)) /\ Cardinality(Holding(s)) \in Nat
      BY HoldingCount
    <3>2. /\ Cardinality(Holding(s) \cup {i}) \in Nat
          /\ Cardinality(Holding(s) \cup {i}) <= Cardinality(Holding(s)) + 1
      BY <3>1, CountOneMore
    <3>. QED BY <1>4, <2>2, <3>1, <3>2, PoolAssumption DEF takeSlot
  <2>4. ASSUME NEW r \in Sweeper \ {s} PROVE Holding(r)' = Holding(r)
    BY <2>1, <2>4 DEF Moves, Holding
  <2>. QED BY <1>4, <2>1, <2>3, <2>4 DEF takeSlot, Moves, TypeOK
<1>5. ASSUME NEW s \in Sweeper, NEW i \in Candidate, hostIsUp(s, i) PROVE TypeOK'
  <2>. DEFINE ip == Address(i)
              answers == ip \in up
  <2>1. ip \in Host /\ answers \in BOOLEAN
    BY DEF Host
  <2>2. Moves(s, i, "pinging", "sending") \/ Moves(s, i, "pinging", "done")
    BY <1>5, PingMoves
  <2>3. \A r \in Sweeper : Cardinality(Holding(r)') <= maxProbes
    BY <2>2, MovesHolds DEF TaskState
  <2>4. hostHealthByIP' \in [Host -> [answered : Nat, missed : Nat]]
    BY <1>5, <2>1, HealthType DEF hostIsUp, TypeOK
  <2>5. outcomes' \in [Host -> Seq(BOOLEAN)]
    BY <1>5, <2>1 DEF hostIsUp, TypeOK
  <2>. QED BY <1>5, <2>2, <2>3, <2>4, <2>5 DEF hostIsUp, Moves, TypeOK
<1>6. ASSUME NEW s \in Sweeper, NEW i \in Candidate, receive(s, i) PROVE TypeOK'
  <2>1. Moves(s, i, "sending", "done")
    BY <1>6, ReceiveMoves
  <2>2. \A r \in Sweeper : Cardinality(Holding(r)') <= maxProbes
    BY <2>1, MovesHolds DEF TaskState
  <2>. QED BY <1>6, <2>1, <2>2 DEF receive, Moves, TypeOK
<1>7. ASSUME NEW ip \in Host, hostChanges(ip) PROVE TypeOK'
  BY <1>7, BoundAssumption DEF hostChanges, TypeOK, Holding
<1>8. CASE UNCHANGED vars
  BY <1>8 DEF vars, TypeOK, Holding
<1>. QED BY <1>1, <1>2, <1>3, <1>4, <1>5, <1>6, <1>7, <1>8 DEF Next, TaskStep

\* The program starts without a sweep.
LEMMA InitType == Init => TypeOK
<1>. SUFFICES ASSUME Init PROVE TypeOK
  OBVIOUS
<1>1. sweep \in [Sweeper -> SweepState]
  BY StartedType DEF Init
<1>2. \A s \in Sweeper : Holding(s) = {}
  BY StartedType DEF Init, Holding
<1>3. \A s \in Sweeper : Cardinality(Holding(s)) <= maxProbes
  BY <1>2, FS_EmptySet, PoolAssumption
<1>4. sweeps \in 0..MaxSweeps /\ changes \in 0..MaxChanges
  BY BoundAssumption DEF Init
<1>5. outcomes \in [Host -> Seq(BOOLEAN)]
  BY EmptySeq DEF Init
<1>6. /\ up \subseteq Host
      /\ hostHealthByIP \in [Host -> [answered : Nat, missed : Nat]]
  BY DEF Init
<1>. QED BY <1>1, <1>3, <1>4, <1>5, <1>6 DEF TypeOK

\* Every variable stays in its domain, and no sweep ever pings more than maxProbes
\* hosts at a time, however many candidates and sweeps there are (ports.go:166-186).
THEOREM TypeCorrect == Spec => []TypeOK
  BY InitType, NextType, PTL DEF Spec

-----------------------------------------------------------------------------
(* Sweeps *)

\* A step of a goroutine from one state to the next keeps a sweep consistent, if
\* those that answered are those delivered and those that send.
LEMMA MovesConsistent ==
  ASSUME TypeOK, SweepsConsistent, NEW s \in Sweeper, NEW i \in Candidate,
         NEW from, NEW to, Moves(s, i, from, to), from # "done",
         from = "waiting" => sweep[s].running,
         sweep'[s].answered
           = sweep'[s].hosts \cup {j \in Candidate : sweep'[s].task[j] = "sending"}
  PROVE  SweepsConsistent'
<1>1. sweep'[s].task = [sweep[s].task EXCEPT ![i] = to] /\ sweep[s].task[i] = from
  BY DEF Moves
<1>2. sweep[s].task \in [Candidate -> TaskState]
  BY DEF TypeOK, SweepState
<1>3. sweep[s].running /\ ~ sweep[s].closed
  BY <1>1 DEF SweepsConsistent
<1>4. sweep'[s].running /\ ~ sweep'[s].closed
  BY <1>3, <1>1 DEF Moves
<1>5. ASSUME NEW r \in Sweeper \ {s} PROVE sweep'[r] = sweep[r]
  BY <1>5 DEF Moves
<1>. QED BY <1>4, <1>5 DEF SweepsConsistent

\* Every step keeps the sweeps consistent (ports.go:173-202).
LEMMA NextConsistent ==
  TypeOK /\ SweepsConsistent /\ [Next]_vars => SweepsConsistent'
<1>. SUFFICES ASSUME TypeOK, SweepsConsistent, [Next]_vars PROVE SweepsConsistent'
  OBVIOUS
<1>1. ASSUME NEW s \in Sweeper, NEW running \in BOOLEAN,
             sweep' = [sweep EXCEPT ![s] = Started(running)]
      PROVE  SweepsConsistent'
  <2>1. sweep'[s] = Started(running) /\ \A r \in Sweeper \ {s} : sweep'[r] = sweep[r]
    BY <1>1 DEF TypeOK
  <2>2. {j \in Candidate : sweep'[s].task[j] = "sending"} = {}
    BY <2>1, StartedType
  <2>3. /\ \A j \in Candidate : sweep'[s].task[j] = "waiting"
        /\ ~ sweep'[s].closed
        /\ sweep'[s].answered = {} /\ sweep'[s].hosts = {}
    BY <2>1, StartedType
  <2>. QED BY <2>1, <2>2, <2>3 DEF SweepsConsistent
<1>2. ASSUME NEW s \in Sweeper, closeFound(s) PROVE SweepsConsistent'
  BY <1>2 DEF closeFound, SweepsConsistent, TypeOK, SweepState
<1>3. ASSUME NEW s \in Sweeper, NEW i \in Candidate, takeSlot(s, i)
      PROVE  SweepsConsistent'
  <2>1. /\ Moves(s, i, "waiting", "pinging")
        /\ sweep'[s].hosts = sweep[s].hosts /\ sweep'[s].answered = sweep[s].answered
    BY <1>3, TakeSlotMoves
  <2>2. {j \in Candidate : sweep'[s].task[j] = "sending"}
          = {j \in Candidate : sweep[s].task[j] = "sending"}
    BY <2>1 DEF Moves, TypeOK, SweepState
  <2>3. sweep[s].running
    BY <1>3 DEF takeSlot
  <2>4. sweep'[s].answered
          = sweep'[s].hosts \cup {j \in Candidate : sweep'[s].task[j] = "sending"}
    BY <2>1, <2>2 DEF SweepsConsistent
  <2>. QED BY <2>1, <2>3, <2>4, MovesConsistent
<1>4. ASSUME NEW s \in Sweeper, NEW i \in Candidate, hostIsUp(s, i)
      PROVE  SweepsConsistent'
  <2>1. CASE /\ Moves(s, i, "pinging", "sending")
             /\ sweep'[s].answered = sweep[s].answered \cup {i}
             /\ sweep'[s].hosts = sweep[s].hosts
    <3>1. {j \in Candidate : sweep'[s].task[j] = "sending"}
            = {j \in Candidate : sweep[s].task[j] = "sending"} \cup {i}
      BY <2>1 DEF Moves, TypeOK, SweepState
    <3>2. sweep'[s].answered
            = sweep'[s].hosts \cup {j \in Candidate : sweep'[s].task[j] = "sending"}
      BY <2>1, <3>1 DEF SweepsConsistent
    <3>. QED BY <2>1, <3>2, MovesConsistent
  <2>2. CASE /\ Moves(s, i, "pinging", "done")
             /\ sweep'[s].answered = sweep[s].answered
             /\ sweep'[s].hosts = sweep[s].hosts
    <3>1. {j \in Candidate : sweep'[s].task[j] = "sending"}
            = {j \in Candidate : sweep[s].task[j] = "sending"}
      BY <2>2 DEF Moves, TypeOK, SweepState
    <3>2. sweep'[s].answered
            = sweep'[s].hosts \cup {j \in Candidate : sweep'[s].task[j] = "sending"}
      BY <2>2, <3>1 DEF SweepsConsistent
    <3>. QED BY <2>2, <3>2, MovesConsistent
  <2>. QED BY <1>4, <2>1, <2>2, PingMoves
<1>5. ASSUME NEW s \in Sweeper, NEW i \in Candidate, receive(s, i)
      PROVE  SweepsConsistent'
  <2>1. /\ Moves(s, i, "sending", "done")
        /\ sweep'[s].hosts = sweep[s].hosts \cup {i}
        /\ sweep'[s].answered = sweep[s].answered
    BY <1>5, ReceiveMoves
  <2>2. {j \in Candidate : sweep'[s].task[j] = "sending"}
          = {j \in Candidate : sweep[s].task[j] = "sending"} \ {i}
    BY <2>1 DEF Moves, TypeOK, SweepState
  <2>3. i \in {j \in Candidate : sweep[s].task[j] = "sending"}
    BY <2>1 DEF Moves
  <2>4. sweep'[s].answered
          = sweep'[s].hosts \cup {j \in Candidate : sweep'[s].task[j] = "sending"}
    BY <2>1, <2>2, <2>3 DEF SweepsConsistent
  <2>. QED BY <2>1, <2>4, MovesConsistent
<1>6. CASE UNCHANGED sweep
  BY <1>6 DEF SweepsConsistent
<1>. QED BY <1>1, <1>2, <1>3, <1>4, <1>5, <1>6
         DEF Next, TaskStep, startSweep, sweepReturns, hostChanges, vars

-----------------------------------------------------------------------------
(* Pings *)

\* What is owed can be counted: the goroutines of a program are finitely many.
LEMMA OwedCount ==
  ASSUME NEW ip
  PROVE  /\ IsFiniteSet(Sweeper \X Places(ip))
         /\ IsFiniteSet(Owed(ip)) /\ Cardinality(Owed(ip)) \in Nat
<1>1. IsFiniteSet(Sweeper \X Places(ip))
  BY PlacesCount, SweeperAssumption, FS_Product
<1>2. Owed(ip) \in SUBSET (Sweeper \X Places(ip))
  BY DEF Owed
<1>. QED BY <1>1, <1>2, FS_Subset, FS_CardinalityType

\* A new sweep owes a ping for every place, besides what is owed already.
LEMMA SweepPings ==
  ASSUME NEW s, NEW places, IsFiniteSet(places)
  PROVE  IsFiniteSet({s} \X places) /\ Cardinality({s} \X places) = Cardinality(places)
<1>1. Cardinality(places) \in Nat
  BY FS_CardinalityType
<1>2. IsFiniteSet({s}) /\ Cardinality({s}) = 1
  BY FS_Singleton
<1>3. /\ IsFiniteSet({s} \X places)
      /\ Cardinality({s} \X places) = Cardinality({s}) * Cardinality(places)
  BY <1>2, FS_Product
<1>. QED BY <1>1, <1>2, <1>3

\* Two disjoint sets count together what they count apart.
LEMMA CountBoth ==
  ASSUME NEW owed, NEW begun, IsFiniteSet(owed), IsFiniteSet(begun), owed \cap begun = {}
  PROVE  Cardinality(owed \cup begun) = Cardinality(owed) + Cardinality(begun)
<1>1. Cardinality(owed) \in Nat /\ Cardinality(begun) \in Nat
  BY FS_CardinalityType
<1>2. Cardinality(owed \cup begun)
        = Cardinality(owed) + Cardinality(begun) - Cardinality(owed \cap begun)
  BY FS_Union
<1>. QED BY <1>1, <1>2, FS_EmptySet

\* Steps that neither record a ping nor begin a sweep.
LEMMA OwedKept ==
  ASSUME PingsAccounted, UNCHANGED <<outcomes, sweeps>>,
         \A s \in Sweeper, i \in Candidate : Owes(s, i)' <=> Owes(s, i)
  PROVE  PingsAccounted'
<1>1. \A ip \in Host : Owed(ip)' = Owed(ip)
  BY DEF Owed, Places
<1>. QED BY <1>1 DEF PingsAccounted

\* A goroutine that gets on changes what is owed for its candidate only.
LEMMA MovesOwes ==
  ASSUME TypeOK, NEW s \in Sweeper, NEW i \in Candidate, NEW from, NEW to,
         Moves(s, i, from, to)
  PROVE  /\ Owes(s, i)' <=> sweep[s].running /\ to \in {"waiting", "pinging"}
         /\ Owes(s, i) <=> sweep[s].running /\ from \in {"waiting", "pinging"}
         /\ \A j \in Candidate \ {i} : Owes(s, j)' <=> Owes(s, j)
         /\ \A r \in Sweeper \ {s}, j \in Candidate : Owes(r, j)' <=> Owes(r, j)
<1>1. sweep[s].task \in [Candidate -> TaskState] /\ sweep[s].task[i] = from
  BY DEF TypeOK, SweepState, Moves
<1>2. sweep'[s].task[i] = to /\ \A j \in Candidate \ {i} : sweep'[s].task[j] = sweep[s].task[j]
  BY <1>1 DEF Moves
<1>3. sweep'[s].running = sweep[s].running
  BY DEF Moves
<1>4. Owes(s, i)' <=> sweep[s].running /\ to \in {"waiting", "pinging"}
  BY <1>2, <1>3, Zenon DEF Owes
<1>5. Owes(s, i) <=> sweep[s].running /\ from \in {"waiting", "pinging"}
  BY <1>1, Zenon DEF Owes
<1>6. \A j \in Candidate \ {i} : Owes(s, j)' <=> Owes(s, j)
  BY <1>2, <1>3, Zenon DEF Owes
<1>7. \A r \in Sweeper \ {s}, j \in Candidate : Owes(r, j)' <=> Owes(r, j)
  BY Zenon DEF Owes, Moves
<1>. QED BY <1>4, <1>5, <1>6, <1>7

\* A sweep that begins owes each host a ping per place; one that ends owes nothing, and
\* a ping that returns is owed no more (ports.go:173-202, noc.go:35-64).
LEMMA NextAccounted ==
  PoolInv /\ TypeOK' /\ SweepsConsistent' /\ [Next]_vars => PingsAccounted'
<1>. SUFFICES ASSUME TypeOK, SweepsConsistent, PingsAccounted, TypeOK', [Next]_vars
              PROVE  PingsAccounted'
  BY DEF PoolInv
<1>1. ASSUME NEW s \in Sweeper, startSweep(s) PROVE PingsAccounted'
  <2>1. sweep'[s] = Started(TRUE) /\ \A r \in Sweeper \ {s} : sweep'[r] = sweep[r]
    BY <1>1 DEF startSweep, TypeOK
  <2>. SUFFICES ASSUME NEW ip \in Host
                PROVE  Len(outcomes[ip]) + Cardinality(Owed(ip)')
                         = (sweeps + 1) * Cardinality(Places(ip))
    BY <1>1 DEF startSweep, PingsAccounted
  <2>a. /\ \A i \in Candidate : Owes(s, i)' /\ ~ Owes(s, i)
        /\ \A r \in Sweeper \ {s}, i \in Candidate : Owes(r, i)' <=> Owes(r, i)
    BY <1>1, <2>1, StartedType DEF startSweep, Owes
  <2>2. Owed(ip)' = Owed(ip) \cup ({s} \X Places(ip))
    BY <2>a DEF Owed, Places
  <2>3. Owed(ip) \cap ({s} \X Places(ip)) = {}
    BY <2>a DEF Owed, Places
  <2>4. Cardinality(Owed(ip)') = Cardinality(Owed(ip)) + Cardinality(Places(ip))
    <3>1. IsFiniteSet(Owed(ip)) /\ IsFiniteSet(Places(ip))
      BY OwedCount, PlacesCount
    <3>. DEFINE owed == Owed(ip)
                begun == {s} \X Places(ip)
    <3>2. IsFiniteSet(begun) /\ Cardinality(begun) = Cardinality(Places(ip))
      BY <3>1, SweepPings
    <3>3. Owed(ip)' = owed \cup begun /\ owed \cap begun = {} /\ IsFiniteSet(owed)
      BY <2>2, <2>3, <3>1
    <3>. HIDE DEF owed, begun
    <3>4. Cardinality(owed \cup begun) = Cardinality(owed) + Cardinality(begun)
      BY <3>2, <3>3, CountBoth
    <3>. QED BY <3>2, <3>3, <3>4, Zenon DEF owed
  <2>5. Len(outcomes[ip]) + Cardinality(Owed(ip)) = sweeps * Cardinality(Places(ip))
    BY DEF PingsAccounted
  <2>6. /\ Len(outcomes[ip]) \in Nat /\ sweeps \in Nat
        /\ Cardinality(Owed(ip)) \in Nat /\ Cardinality(Places(ip)) \in Nat
    <3>1. Cardinality(Owed(ip)) \in Nat
      BY OwedCount
    <3>2. Cardinality(Places(ip)) \in Nat
      BY PlacesCount
    <3>3. Len(outcomes[ip]) \in Nat /\ sweeps \in Nat
      BY BoundAssumption DEF TypeOK
    <3>. QED BY <3>1, <3>2, <3>3
  <2>7. (sweeps + 1) * Cardinality(Places(ip))
          = sweeps * Cardinality(Places(ip)) + Cardinality(Places(ip))
    BY <2>6
  <2>8. sweeps * Cardinality(Places(ip)) \in Nat
    BY <2>6
  <2>. QED BY <2>4, <2>5, <2>6, <2>7, <2>8
<1>2. ASSUME NEW s \in Sweeper, closeFound(s) PROVE PingsAccounted'
  <2>1. \A r \in Sweeper : sweep'[r].task = sweep[r].task /\ sweep'[r].running = sweep[r].running
    BY <1>2 DEF closeFound, TypeOK, SweepState
  <2>2. \A r \in Sweeper, i \in Candidate : Owes(r, i)' <=> Owes(r, i)
    BY <2>1, Zenon DEF Owes
  <2>. QED BY <1>2, <2>2, OwedKept DEF closeFound
<1>3. ASSUME NEW s \in Sweeper, sweepReturns(s) PROVE PingsAccounted'
  <2>1. /\ ~ sweep'[s].running /\ \A r \in Sweeper \ {s} : sweep'[r] = sweep[r]
        /\ \A i \in Candidate : sweep[s].task[i] = "done"
    <3>1. sweep'[s] = Started(FALSE) /\ \A r \in Sweeper \ {s} : sweep'[r] = sweep[r]
      BY <1>3 DEF sweepReturns, TypeOK
    <3>2. \A i \in Candidate : sweep[s].task[i] = "done"
      BY <1>3 DEF sweepReturns, SweepsConsistent
    <3>. QED BY <3>1, <3>2, StartedType
  <2>2. \A r \in Sweeper, i \in Candidate : Owes(r, i)' <=> Owes(r, i)
    BY <2>1, Zenon DEF Owes
  <2>. QED BY <1>3, <2>2, OwedKept DEF sweepReturns
<1>4. ASSUME NEW s \in Sweeper, NEW i \in Candidate, takeSlot(s, i) PROVE PingsAccounted'
  <2>1. Moves(s, i, "waiting", "pinging")
    BY <1>4, TakeSlotMoves
  <2>2. \A r \in Sweeper, j \in Candidate : Owes(r, j)' <=> Owes(r, j)
    BY <2>1, MovesOwes
  <2>. QED BY <1>4, <2>2, OwedKept DEF takeSlot
<1>5. ASSUME NEW s \in Sweeper, NEW i \in Candidate, receive(s, i) PROVE PingsAccounted'
  <2>1. Moves(s, i, "sending", "done")
    BY <1>5, ReceiveMoves
  <2>2. \A r \in Sweeper, j \in Candidate : Owes(r, j)' <=> Owes(r, j)
    BY <2>1, MovesOwes
  <2>. QED BY <1>5, <2>2, OwedKept DEF receive
<1>6. ASSUME NEW s \in Sweeper, NEW i \in Candidate, hostIsUp(s, i) PROVE PingsAccounted'
  <2>1. Moves(s, i, "pinging", "sending") \/ Moves(s, i, "pinging", "done")
    BY <1>6, PingMoves
  <2>2. sweep[s].running
    BY <2>1 DEF Moves, SweepsConsistent
  <2>a. /\ Owes(s, i) /\ ~ Owes(s, i)'
        /\ \A r \in Sweeper, j \in Candidate :
             <<r, j>> # <<s, i>> => (Owes(r, j)' <=> Owes(r, j))
    BY <2>1, <2>2, MovesOwes
  <2>3. ASSUME NEW ip \in Host
        PROVE  Owed(ip)' = Owed(ip) \ {<<s, i>>}
    BY <2>a DEF Owed, Places
  <2>. SUFFICES ASSUME NEW ip \in Host
                PROVE  Len(outcomes'[ip]) + Cardinality(Owed(ip)')
                         = sweeps * Cardinality(Places(ip))
    BY <1>6 DEF hostIsUp, PingsAccounted
  <2>4. Len(outcomes[ip]) + Cardinality(Owed(ip)) = sweeps * Cardinality(Places(ip))
    BY DEF PingsAccounted
  <2>5. CASE ip = Address(i)
    <3>1. <<s, i>> \in Owed(ip)
      BY <2>a, <2>5 DEF Owed, Places
    <3>2. /\ Cardinality(Owed(ip)') \in Nat
          /\ Cardinality(Owed(ip)) = Cardinality(Owed(ip)') + 1
      <4>1. IsFiniteSet(Owed(ip))
        BY OwedCount
      <4>. DEFINE owed == Owed(ip)
      <4>2. Cardinality(owed \ {<<s, i>>}) \in Nat
              /\ Cardinality(owed) = Cardinality(owed \ {<<s, i>>}) + 1
        <5>. HIDE DEF owed
        <5>. QED BY <3>1, <4>1, CountOneLess DEF owed
      <4>. QED BY <2>3, <4>2
    <3>3. outcomes'[ip] = Append(outcomes[ip], ip \in up)
      BY <1>6, <2>5 DEF hostIsUp, TypeOK
    <3>4. Len(outcomes'[ip]) = Len(outcomes[ip]) + 1 /\ Len(outcomes[ip]) \in Nat
      BY <3>3, AppendProperties DEF TypeOK
    <3>. QED BY <2>4, <3>2, <3>4
  <2>6. CASE ip # Address(i)
    <3>1. outcomes'[ip] = outcomes[ip]
      BY <1>6, <2>6 DEF hostIsUp, TypeOK
    <3>2. Owed(ip)' = Owed(ip)
      BY <2>3, <2>6 DEF Owed, Places
    <3>. QED BY <2>4, <3>1, <3>2
  <2>. QED BY <2>5, <2>6
<1>7. CASE UNCHANGED <<sweep, outcomes, sweeps>>
  BY <1>7, OwedKept DEF Owes
<1>. QED BY <1>1, <1>2, <1>3, <1>4, <1>5, <1>6, <1>7
         DEF Next, TaskStep, hostChanges, vars

\* Nothing is owed and nothing was recorded at the start.
LEMMA InitPool == Init => PoolInv
<1>. SUFFICES ASSUME Init PROVE PoolInv
  OBVIOUS
<1>1. TypeOK
  BY InitType
<1>2. \A s \in Sweeper : {i \in Candidate : sweep[s].task[i] = "sending"} = {}
  BY StartedType DEF Init
<1>3. SweepsConsistent
  BY <1>2, StartedType DEF Init, SweepsConsistent
<1>4. ASSUME NEW ip \in Host
      PROVE  Len(outcomes[ip]) + Cardinality(Owed(ip)) = sweeps * Cardinality(Places(ip))
  <2>1. Owed(ip) = {}
    BY StartedType DEF Init, Owed, Owes
  <2>2. Len(outcomes[ip]) = 0 /\ sweeps = 0
    BY EmptySeq DEF Init
  <2>. QED BY <2>1, <2>2, PlacesCount, FS_EmptySet
<1>. QED BY <1>1, <1>3, <1>4 DEF PoolInv, PingsAccounted

\* The invariant of the pool (ports.go, findActiveHosts).
THEOREM PoolInvariant == Spec => []PoolInv
<1>1. PoolInv /\ [Next]_vars => PoolInv'
  <2>1. PoolInv /\ [Next]_vars => TypeOK' /\ SweepsConsistent'
    BY NextType, NextConsistent DEF PoolInv
  <2>. QED BY <2>1, NextAccounted DEF PoolInv
<1>. QED BY <1>1, InitPool, PTL DEF Spec

\* No answer is sent through a closed channel or lost before it is closed, and no
\* candidate is left out or pinged twice by a sweep, however many sweeps run at once
\* over however many candidates and slots (ports.go:178-202).
THEOREM AllDelivered == Spec => []NothingLost
<1>1. PoolInv => NothingLost
  <2>. SUFFICES ASSUME PoolInv PROVE NothingLost
    OBVIOUS
  <2>1. ASSUME NEW s \in Sweeper, sweep[s].closed
        PROVE  /\ \A i \in Candidate : sweep[s].task[i] = "done"
               /\ sweep[s].hosts = sweep[s].answered
    BY <2>1 DEF PoolInv, SweepsConsistent
  <2>2. ASSUME \A s \in Sweeper : ~ sweep[s].running, NEW ip \in Host
        PROVE  Len(outcomes[ip]) = sweeps * Cardinality(Places(ip))
    <3>1. Owed(ip) = {}
      BY <2>2 DEF Owed, Owes
    <3>2. Len(outcomes[ip]) \in Nat
      BY DEF PoolInv, TypeOK
    <3>. QED BY <3>1, <3>2, FS_EmptySet DEF PoolInv, PingsAccounted
  <2>. QED BY <2>1, <2>2 DEF NothingLost
<1>. QED BY <1>1, PoolInvariant, PTL

-----------------------------------------------------------------------------
(* Health *)

\* The answers and the absences of a history are finitely many.
LEMMA HistoryCount ==
  ASSUME NEW history \in Seq(BOOLEAN)
  PROVE  /\ IsFiniteSet(Answers(history)) /\ IsFiniteSet(Absences(history))
         /\ Cardinality(Answers(history)) \in Nat /\ Cardinality(Absences(history)) \in Nat
<1>1. DOMAIN history = 1 .. Len(history) /\ Len(history) \in Nat
  BY LenProperties
<1>2. IsFiniteSet(DOMAIN history)
  BY <1>1, FS_Interval
<1>3. /\ Answers(history) \in SUBSET DOMAIN history
      /\ Absences(history) \in SUBSET DOMAIN history
  BY DEF Answers, Absences
<1>4. IsFiniteSet(Answers(history)) /\ IsFiniteSet(Absences(history))
  BY <1>2, <1>3, FS_Subset
<1>. QED BY <1>4, FS_CardinalityType

\* One more ping: an answer adds to the answers, and anything else to the absences if
\* there was an answer before.
LEMMA HistoryGrows ==
  ASSUME NEW history \in Seq(BOOLEAN), NEW answers \in BOOLEAN
  PROVE  LET longer == Append(history, answers)
             n == Len(history) + 1 IN
         /\ n \notin Answers(history) \cup Absences(history)
         /\ answers => /\ Answers(longer) = Answers(history) \cup {n}
                       /\ Absences(longer) = Absences(history)
         /\ ~ answers => /\ Answers(longer) = Answers(history)
                         /\ Absences(longer) = IF Answers(history) = {} THEN Absences(history)
                                               ELSE Absences(history) \cup {n}
<1>. DEFINE longer == Append(history, answers)
            n == Len(history) + 1
<1>1. Len(history) \in Nat /\ DOMAIN history = 1 .. Len(history)
  BY LenProperties
<1>2. /\ DOMAIN longer = 1 .. n /\ longer[n] = answers
      /\ \A k \in 1 .. Len(history) : longer[k] = history[k]
  BY <1>1, AppendProperties
<1>3. 1 .. n = (1 .. Len(history)) \cup {n} /\ n \notin 1 .. Len(history)
  BY <1>1
<1>4. \A k \in 1 .. Len(history) : ~ (n < k) /\ k < n
  BY <1>1
<1>. HIDE DEF longer, n
<1>5. n \notin Answers(history) \cup Absences(history)
  BY <1>1, <1>3 DEF Answers, Absences
<1>6. CASE answers
  <2>1. Answers(longer) = Answers(history) \cup {n}
    BY <1>1, <1>2, <1>3, <1>6 DEF Answers
  <2>2. Absences(longer) = Absences(history)
    BY <1>1, <1>2, <1>3, <1>4, <2>1 DEF Absences, Answers
  <2>. QED BY <1>5, <1>6, <2>1, <2>2 DEF longer, n
<1>7. CASE ~ answers
  <2>1. Answers(longer) = Answers(history)
    BY <1>1, <1>2, <1>3, <1>7 DEF Answers
  <2>2. Absences(longer) = IF Answers(history) = {} THEN Absences(history)
                           ELSE Absences(history) \cup {n}
    BY <1>1, <1>2, <1>3, <1>4, <2>1 DEF Absences, Answers
  <2>. QED BY <1>5, <1>7, <2>1, <2>2 DEF longer, n
<1>. QED BY <1>6, <1>7

\* What the panel shows of a host (noc.go, recordProbe).
HealthOf(history) ==
  [answered |-> Cardinality(Answers(history)), missed |-> Cardinality(Absences(history))]

\* recordProbe counts what is added to the history (noc.go:35-64).
LEMMA ProbeCounts ==
  ASSUME NEW history \in Seq(BOOLEAN), NEW answers \in BOOLEAN
  PROVE  healthAfter(HealthOf(history), answers) = HealthOf(Append(history, answers))
<1>. DEFINE longer == Append(history, answers)
            n == Len(history) + 1
<1>1. /\ IsFiniteSet(Answers(history)) /\ IsFiniteSet(Absences(history))
      /\ Cardinality(Answers(history)) \in Nat /\ Cardinality(Absences(history)) \in Nat
  BY HistoryCount
<1>2. /\ n \notin Answers(history) \cup Absences(history)
      /\ answers => /\ Answers(longer) = Answers(history) \cup {n}
                    /\ Absences(longer) = Absences(history)
      /\ ~ answers => /\ Answers(longer) = Answers(history)
                      /\ Absences(longer) = IF Answers(history) = {} THEN Absences(history)
                                            ELSE Absences(history) \cup {n}
  BY HistoryGrows
<1>. HIDE DEF longer, n
<1>3. /\ Cardinality(Answers(history) \cup {n}) = Cardinality(Answers(history)) + 1
      /\ Cardinality(Absences(history) \cup {n}) = Cardinality(Absences(history)) + 1
  BY <1>1, <1>2, CountOneMore
<1>4. Cardinality(Answers(history)) > 0 <=> Answers(history) # {}
  BY <1>1, FS_EmptySet
<1>5. CASE answers
  BY <1>2, <1>3, <1>5 DEF healthAfter, HealthOf, longer
<1>6. CASE ~ answers /\ Answers(history) # {}
  BY <1>2, <1>3, <1>4, <1>6 DEF healthAfter, HealthOf, longer
<1>7. CASE ~ answers /\ Answers(history) = {}
  BY <1>2, <1>4, <1>7 DEF healthAfter, HealthOf, longer
<1>. QED BY <1>5, <1>6, <1>7

\* The health of every host is that of its history.
HealthInv == \A ip \in Host : hostHealthByIP[ip] = HealthOf(outcomes[ip])

\* Every step keeps the health of a host that of its history (noc.go:35-64).
LEMMA NextHealth == TypeOK /\ HealthInv /\ [Next]_vars => HealthInv'
<1>. SUFFICES ASSUME TypeOK, HealthInv, [Next]_vars PROVE HealthInv'
  OBVIOUS
<1>1. ASSUME NEW s \in Sweeper, NEW i \in Candidate, hostIsUp(s, i) PROVE HealthInv'
  <2>. DEFINE at == Address(i)
              answers == at \in up
  <2>1. /\ hostHealthByIP' = [hostHealthByIP EXCEPT ![at] = healthAfter(@, answers)]
        /\ outcomes' = [outcomes EXCEPT ![at] = Append(@, answers)]
        /\ answers \in BOOLEAN
    BY <1>1 DEF hostIsUp
  <2>. HIDE DEF at, answers
  <2>. SUFFICES ASSUME NEW ip \in Host
                PROVE  hostHealthByIP'[ip] = HealthOf(outcomes'[ip])
    BY DEF HealthInv
  <2>2. hostHealthByIP[ip] = HealthOf(outcomes[ip]) /\ outcomes[ip] \in Seq(BOOLEAN)
    BY DEF HealthInv, TypeOK
  <2>3. CASE ip = at
    <3>1. /\ hostHealthByIP'[ip] = healthAfter(HealthOf(outcomes[ip]), answers)
          /\ outcomes'[ip] = Append(outcomes[ip], answers)
      BY <2>1, <2>2, <2>3 DEF TypeOK
    <3>. QED BY <2>1, <2>2, <3>1, ProbeCounts
  <2>4. CASE ip # at
    BY <2>1, <2>2, <2>4 DEF TypeOK
  <2>. QED BY <2>3, <2>4
<1>2. CASE UNCHANGED <<hostHealthByIP, outcomes>>
  BY <1>2 DEF HealthInv
<1>. QED BY <1>1, <1>2
         DEF Next, TaskStep, startSweep, takeSlot, receive, closeFound, sweepReturns,
             hostChanges, vars

\* However many sweeps record at once and in whatever order, the counts that the panel
\* shows are those of the history, and it complains only of hosts that answered once
\* and failed to later (noc.go:35-64, 99-108).
THEOREM HealthFollows == Spec => []HealthFollowsHistory
<1>1. Init => HealthInv
  <2>. SUFFICES ASSUME Init, NEW ip \in Host
                PROVE  hostHealthByIP[ip] = HealthOf(outcomes[ip])
    BY DEF HealthInv
  <2>1. outcomes[ip] = <<>> /\ hostHealthByIP[ip] = [answered |-> 0, missed |-> 0]
    BY DEF Init
  <2>2. Answers(<<>>) = {} /\ Absences(<<>>) = {}
    BY DEF Answers, Absences
  <2>. QED BY <2>1, <2>2, FS_EmptySet DEF HealthOf
<1>2. TypeOK /\ HealthInv => HealthFollowsHistory
  <2>. SUFFICES ASSUME TypeOK, HealthInv, NEW ip \in Host, ip \in flakiestHosts
                PROVE  Answers(outcomes[ip]) # {} /\ Absences(outcomes[ip]) # {}
    BY DEF HealthFollowsHistory, HealthInv, HealthOf
  <2>1. Cardinality(Absences(outcomes[ip])) > 0
    <3>1. hostHealthByIP[ip].missed > 0
      BY Zenon DEF flakiestHosts
    <3>2. hostHealthByIP[ip].missed = Cardinality(Absences(outcomes[ip]))
      <4>1. hostHealthByIP[ip] = HealthOf(outcomes[ip])
        BY DEF HealthInv
      <4>. QED BY <4>1 DEF HealthOf
    <3>. QED BY <3>1, <3>2
  <2>2. Absences(outcomes[ip]) # {}
    BY <2>1, FS_EmptySet
  <2>. QED BY <2>2 DEF Absences
<1>. QED BY <1>1, <1>2, NextHealth, TypeCorrect, PTL DEF Spec

-----------------------------------------------------------------------------
(* Why a sweep ends.  That it does is a matter of fairness; that it can, and    *)
(* that it gets nearer with every step, is not.                                 *)

\* A sweep under way can go on: it can return, close its channel, hear of a ping or
\* take from the channel, or else somebody waits and there is a slot for him.
NeverBlocked ==
  \A s \in Sweeper : sweep[s].running =>
    \/ sweep[s].closed
    \/ \A i \in Candidate : sweep[s].task[i] = "done"
    \/ \E i \in Candidate : sweep[s].task[i] \in {"pinging", "sending"}
    \/ /\ Cardinality(Holding(s)) < maxProbes
       /\ \E i \in Candidate : sweep[s].task[i] = "waiting"

\* However few slots there are and whoever else is sweeping, no sweep waits for a slot
\* that nobody will give back (ports.go, findActiveHosts: the slot is held while the
\* goroutine sends, and the collector does not wait for the slots).
THEOREM SweepsCanGoOn == Spec => []NeverBlocked
<1>1. TypeOK => NeverBlocked
  <2>. SUFFICES ASSUME TypeOK, NEW s \in Sweeper, sweep[s].running
                PROVE  \/ \A i \in Candidate : sweep[s].task[i] = "done"
                       \/ \E i \in Candidate : sweep[s].task[i] \in {"pinging", "sending"}
                       \/ /\ Cardinality(Holding(s)) < maxProbes
                          /\ \E i \in Candidate : sweep[s].task[i] = "waiting"
    BY DEF NeverBlocked
  <2>1. \A i \in Candidate : sweep[s].task[i] \in TaskState
    BY SweepType DEF SweepState
  <2>2. CASE Holding(s) = {}
    <3>1. Cardinality(Holding(s)) < maxProbes
      BY <2>2, FS_EmptySet, PoolAssumption
    <3>2. \A i \in Candidate : sweep[s].task[i] \in {"waiting", "done"}
      BY <2>1, <2>2 DEF TaskState, Holding
    <3>. QED BY <3>1, <3>2
  <2>3. CASE Holding(s) # {}
    BY <2>3 DEF Holding
  <2>. QED BY <2>2, <2>3
<1>. QED BY <1>1, TypeCorrect, PTL

\* How far a goroutine is from its end.
Distance(state) ==
  CASE state = "waiting" -> 3 [] state = "pinging" -> 2 [] state = "sending" -> 1
    [] OTHER -> 0

\* While a sweep is under way its goroutines only get nearer to their end, and every
\* step of one of them is nearer: each candidate is pinged at most once in a sweep,
\* whatever the other sweeps do.
OnlyAdvances ==
  [][\A s \in Sweeper : sweep[s].running /\ sweep'[s].running =>
       \A i \in Candidate :
         /\ Distance(sweep'[s].task[i]) <= Distance(sweep[s].task[i])
         /\ TaskStep(s, i) => Distance(sweep'[s].task[i]) < Distance(sweep[s].task[i])]_vars

\* A goroutine that moves gets nearer, and the others stay where they are.
LEMMA MovesAdvance ==
  ASSUME TypeOK, NEW s \in Sweeper, NEW i \in Candidate, NEW from, NEW to,
         Moves(s, i, from, to),
         \/ from = "waiting" /\ to = "pinging"
         \/ from = "pinging" /\ to \in {"sending", "done"}
         \/ from = "sending" /\ to = "done"
  PROVE  /\ Distance(sweep'[s].task[i]) < Distance(sweep[s].task[i])
         /\ \A j \in Candidate \ {i} : sweep'[s].task[j] = sweep[s].task[j]
         /\ \A r \in Sweeper \ {s} : sweep'[r] = sweep[r]
<1>1. sweep[s].task \in [Candidate -> TaskState]
  BY SweepType DEF SweepState
<1>2. /\ sweep'[s].task[i] = to /\ sweep[s].task[i] = from
      /\ \A j \in Candidate \ {i} : sweep'[s].task[j] = sweep[s].task[j]
  BY <1>1 DEF Moves
<1>3. Distance(to) < Distance(from)
  BY DEF Distance
<1>. QED BY <1>2, <1>3 DEF Moves

\* A step of a goroutine of the pool is one of these moves.
LEMMA TaskAdvances ==
  ASSUME TypeOK, NEW s \in Sweeper, NEW i \in Candidate, TaskStep(s, i)
  PROVE  /\ Distance(sweep'[s].task[i]) < Distance(sweep[s].task[i])
         /\ \A j \in Candidate \ {i} : sweep'[s].task[j] = sweep[s].task[j]
         /\ \A r \in Sweeper \ {s} : sweep'[r] = sweep[r]
<1>1. CASE takeSlot(s, i)
  BY <1>1, TakeSlotMoves, MovesAdvance
<1>2. CASE hostIsUp(s, i)
  BY <1>2, PingMoves, MovesAdvance
<1>3. CASE receive(s, i)
  BY <1>3, ReceiveMoves, MovesAdvance
<1>. QED BY <1>1, <1>2, <1>3 DEF TaskStep

\* No candidate is ever pinged twice in one sweep, and a sweep of finitely many
\* candidates makes finitely many steps (ports.go, findActiveHosts).
THEOREM SweepsAdvance == Spec => OnlyAdvances
<1>. DEFINE Advance ==
       \A s \in Sweeper : sweep[s].running /\ sweep'[s].running =>
         \A i \in Candidate :
           /\ Distance(sweep'[s].task[i]) <= Distance(sweep[s].task[i])
           /\ TaskStep(s, i) => Distance(sweep'[s].task[i]) < Distance(sweep[s].task[i])
<1>1. TypeOK /\ Next => Advance
  <2>. SUFFICES ASSUME TypeOK, Next,
                       NEW s \in Sweeper, sweep[s].running, sweep'[s].running,
                       NEW i \in Candidate
                PROVE  /\ Distance(sweep'[s].task[i]) <= Distance(sweep[s].task[i])
                       /\ TaskStep(s, i) =>
                            Distance(sweep'[s].task[i]) < Distance(sweep[s].task[i])
    OBVIOUS
  <2>1. TaskStep(s, i) => Distance(sweep'[s].task[i]) < Distance(sweep[s].task[i])
    BY TaskAdvances
  <2>2. \/ sweep'[s].task[i] = sweep[s].task[i]
        \/ TaskStep(s, i)
    <3>1. ASSUME NEW r \in Sweeper, startSweep(r) \/ closeFound(r) \/ sweepReturns(r)
          PROVE  sweep'[s].task[i] = sweep[s].task[i]
      <4>1. CASE r # s
        BY <3>1, <4>1 DEF startSweep, closeFound, sweepReturns, TypeOK
      <4>2. CASE r = s
        <5>1. ~ startSweep(s)
          BY DEF startSweep
        <5>2. ~ sweepReturns(s)
          BY StartedType DEF sweepReturns, TypeOK
        <5>3. closeFound(s)
          BY <3>1, <4>2, <5>1, <5>2
        <5>4. sweep' = [sweep EXCEPT ![s] = [sweep[s] EXCEPT !.closed = TRUE]]
          BY <5>3 DEF closeFound
        <5>. QED BY <5>4, SweepType DEF TypeOK, SweepState
      <4>. QED BY <4>1, <4>2
    <3>2. ASSUME NEW r \in Sweeper, NEW j \in Candidate, TaskStep(r, j)
          PROVE  sweep'[s].task[i] = sweep[s].task[i] \/ TaskStep(s, i)
      BY <3>2, TaskAdvances
    <3>3. ASSUME NEW ip \in Host, hostChanges(ip)
          PROVE  sweep'[s].task[i] = sweep[s].task[i]
      BY <3>3 DEF hostChanges
    <3>. QED BY <3>1, <3>2, <3>3 DEF Next
  <2>3. Distance(sweep[s].task[i]) \in 0 .. 3 /\ Distance(sweep'[s].task[i]) \in 0 .. 3
    BY DEF Distance
  <2>. QED BY <2>1, <2>2, <2>3
<1>2. TypeOK /\ [Next]_vars => [Advance]_vars
  BY <1>1
<1>. HIDE DEF Advance
<1>3. Spec => [][Advance]_vars
  BY <1>2, TypeCorrect, PTL DEF Spec
<1>. QED BY <1>3 DEF OnlyAdvances, Advance

=============================================================================
