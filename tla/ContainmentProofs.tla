--------------------------- MODULE ContainmentProofs ---------------------------
(***************************************************************************)
(* What holds of Containment for any number of addresses, goroutines and   *)
(* rules, proved with TLAPS.                                               *)
(***************************************************************************)
EXTENDS Containment, FiniteSetTheorems, TLAPS

-----------------------------------------------------------------------------
(* Counting *)

\* A part of a finite set counts no more than the whole.
LEMMA CountPart ==
  ASSUME NEW S, NEW T, IsFiniteSet(T), S \subseteq T
  PROVE  Cardinality(S) \in Nat /\ Cardinality(S) <= Cardinality(T)
BY FS_Subset, FS_CardinalityType

\* Letting one more element in adds at most one.
LEMMA CountGrows ==
  ASSUME NEW S, NEW T, NEW x, IsFiniteSet(T), S \subseteq T \cup {x}
  PROVE  Cardinality(S) \in Nat /\ Cardinality(S) <= Cardinality(T) + 1
<1>0. Cardinality(T) \in Nat
  BY FS_CardinalityType
<1>1. /\ IsFiniteSet(T \cup {x})
      /\ Cardinality(T \cup {x}) <= Cardinality(T) + 1
  BY <1>0, FS_AddElement
<1>2. Cardinality(S) \in Nat /\ Cardinality(S) <= Cardinality(T \cup {x})
  BY <1>1, CountPart
<1>3. Cardinality(T) \in Nat /\ Cardinality(T \cup {x}) \in Nat
  BY <1>1, FS_CardinalityType
<1>. QED BY <1>1, <1>2, <1>3

\* Taking an element out subtracts one.
LEMMA CountShrinks ==
  ASSUME NEW S, NEW T, NEW x \in T, IsFiniteSet(T), S \subseteq T \ {x}
  PROVE  Cardinality(S) \in Nat /\ Cardinality(S) <= Cardinality(T) - 1
<1>1. /\ IsFiniteSet(T \ {x})
      /\ Cardinality(T \ {x}) = Cardinality(T) - 1
  BY FS_RemoveElement
<1>2. Cardinality(S) \in Nat /\ Cardinality(S) <= Cardinality(T \ {x})
  BY <1>1, CountPart
<1>. QED BY <1>1, <1>2

-----------------------------------------------------------------------------
(* Type correctness *)

\* A -D leaves a chain of naturals a chain of naturals.
LEMMA DeleteOutcomeType ==
  ASSUME NEW K, NEW chain \in [K -> Nat], NEW k,
         NEW outcome \in DeleteOutcome(chain, k)
  PROVE  outcome \in [K -> Nat]
BY DEF DeleteOutcome, Deleted

\* A free session and an idle reconnector are records of their types.
LEMMA RecordType ==
  /\ Free \in CallState
  /\ Idle \in ReleaseState
<1>1. Free \in CallState
  BY DEF Free, CallState, Phase
<1>2. Idle \in ReleaseState
  BY DEF Idle, ReleaseState
<1>. QED BY <1>1, <1>2

\* A session's record keeps its type under the changes the actions make to it.
LEMMA PhaseType ==
  ASSUME NEW c \in CallState, NEW p \in Phase, NEW n \in Nat
  PROVE  /\ [c EXCEPT !.phase = p] \in CallState
         /\ [c EXCEPT !.cancelled = TRUE] \in CallState
         /\ [c EXCEPT !.phase = p, !.rounds = n] \in CallState
<1>1. [c EXCEPT !.phase = p] \in CallState
  BY DEF CallState
<1>2. [c EXCEPT !.cancelled = TRUE] \in CallState
  BY DEF CallState
<1>3. [c EXCEPT !.phase = p, !.rounds = n] \in CallState
  BY DEF CallState
<1>. QED BY <1>1, <1>2, <1>3

\* One session's record is replaced by another.
LEMMA CallType ==
  ASSUME call \in [Session -> CallState], NEW s \in Session, NEW c \in CallState,
         call' = [call EXCEPT ![s] = c]
  PROVE  call' \in [Session -> CallState]
OBVIOUS

\* The state before the program starts has the right shape.
LEMMA InitType == Init => TypeOK
<1>. SUFFICES ASSUME Init PROVE TypeOK
  OBVIOUS
<1>1. call \in [Session -> CallState] /\ release \in [Reconnector -> ReleaseState]
  BY RecordType DEF Init
<1>2. up \in BOOLEAN /\ isolations \in [IP -> Session \cup {None}] /\ expired \subseteq IP
  BY DEF Init
<1>3. /\ src \in [IP -> Nat] /\ dst \in [IP -> Nat] /\ v6 \in [MAC -> Nat]
      /\ forged \in [IP -> SUBSET Side]
  BY DEF Init
<1>. QED BY <1>1, <1>2, <1>3 DEF TypeOK

\* cleanOrphanRules leaves a chain of naturals, and the protected addresses alone.
LEMMA RemainingType ==
  ASSUME NEW chain \in [IP -> Nat], NEW left \in Remaining(chain)
  PROVE  /\ left \in [IP -> Nat]
         /\ \A ip \in IP : left[ip] <= chain[ip]
         /\ \A ip \in {GatewayIP, OwnIP} : left[ip] = chain[ip]
<1>1. \A ip \in IP : left[ip] \in Nat
  BY DEF Remaining
<1>2. left \in [IP -> Nat]
  BY <1>1 DEF Remaining
<1>3. \A ip \in {GatewayIP, OwnIP} : left[ip] = chain[ip]
  BY AddressAssumption DEF Remaining, Orphan
<1>4. \A ip \in IP : left[ip] <= chain[ip]
  BY DEF Remaining
<1>. QED BY <1>2, <1>3, <1>4

\* Every step of every goroutine and of the world keeps the shape.
LEMMA NextType == TypeOK /\ [Next]_vars => TypeOK'
<1>. SUFFICES ASSUME TypeOK, [Next]_vars PROVE TypeOK'
  OBVIOUS
<1>. USE AddressAssumption, BoundAssumption
<1>1. ASSUME NEW s \in Session, NEW ip \in IP, NEW mac \in MAC, NEW timed \in BOOLEAN,
             isolateDevice(s, ip, mac, timed)
      PROVE  TypeOK'
  <2>. DEFINE c == [Free EXCEPT !.phase = "src", !.ip = ip, !.mac = mac,
                                !.deadline = IF timed THEN "pending" ELSE "none"]
  <2>1. c \in CallState
    BY DEF Free, CallState, Phase, Setup
  <2>2. call' \in [Session -> CallState]
    BY <1>1, <2>1, CallType DEF isolateDevice, TypeOK
  <2>. QED BY <1>1, <2>2 DEF isolateDevice, TypeOK, kernel
<1>2. ASSUME NEW s \in Session, blockSource(s) PROVE TypeOK'
  <2>1. call' \in [Session -> CallState]
    BY <1>2, RecordType DEF blockSource, TypeOK, CallState, Phase, Setup
  <2>. QED BY <1>2, <2>1 DEF blockSource, Inserted, TypeOK
<1>3. ASSUME NEW s \in Session, blockDest(s) PROVE TypeOK'
  <2>. DEFINE called == [call[s] EXCEPT !.phase = "v6"]
              failed == [call[s] EXCEPT !.phase = "undo"]
  <2>a. called \in CallState /\ failed \in CallState
    BY PhaseType DEF TypeOK, Phase, Setup
  <2>b. call' = [call EXCEPT ![s] = called] \/ call' = [call EXCEPT ![s] = failed]
    BY <1>3 DEF blockDest
  <2>. HIDE DEF called, failed
  <2>1. call' \in [Session -> CallState]
    BY <2>a, <2>b, CallType DEF TypeOK
  <2>. QED BY <1>3, <2>1 DEF blockDest, Inserted, TypeOK
<1>4. ASSUME NEW s \in Session, undoSource(s) PROVE TypeOK'
  <2>1. call' \in [Session -> CallState]
    BY <1>4, RecordType DEF undoSource, TypeOK, CallState, Phase, Setup
  <2>2. src' \in [IP -> Nat]
    BY <1>4, DeleteOutcomeType DEF undoSource, TypeOK
  <2>. QED BY <1>4, <2>1, <2>2 DEF undoSource, TypeOK
<1>5. ASSUME NEW s \in Session, blockMAC(s) PROVE TypeOK'
  <2>. DEFINE called == [call[s] EXCEPT !.phase = "publish"]
  <2>a. called \in CallState
    BY PhaseType DEF TypeOK, Phase, Setup
  <2>b. call' = [call EXCEPT ![s] = called]
    BY <1>5 DEF blockMAC
  <2>. HIDE DEF called
  <2>1. call' \in [Session -> CallState]
    BY <2>a, <2>b, CallType DEF TypeOK
  <2>. QED BY <1>5, <2>1 DEF blockMAC, Inserted, TypeOK
<1>6. ASSUME NEW s \in Session, publish(s) PROVE TypeOK'
  <2>1. call' \in [Session -> CallState]
    BY <1>6 DEF publish, TypeOK, CallState, Phase, Setup, Running
  <2>. QED BY <1>6, <2>1 DEF publish, TypeOK, kernel
<1>7. ASSUME NEW s \in Session, spoofRound(s) PROVE TypeOK'
  <2>1. call' \in [Session -> CallState]
    <3>1. [call[s] EXCEPT !.phase = "spoof"] \in CallState
      <4>1. call[s] \in CallState
        BY DEF TypeOK
      <4>. QED BY <4>1, PhaseType DEF Phase, Running
    <3>2. call' = [call EXCEPT ![s] = [call[s] EXCEPT !.phase = "spoof"]]
      BY <1>7 DEF spoofRound, TypeOK
    <3>. QED BY <3>1, <3>2, CallType DEF TypeOK
  <2>2. forged' \in [IP -> SUBSET Side]
    <3>. PICK got \in Arriving : forged' = [forged EXCEPT ![call[s].ip] = @ \cup got]
      BY <1>7 DEF spoofRound
    <3>. got \subseteq Side
      BY DEF Arriving
    <3>. QED BY DEF TypeOK
  <2>. QED BY <1>7, <2>1, <2>2 DEF spoofRound, TypeOK, kernel
<1>8. ASSUME NEW s \in Session, stopSpoofing(s) PROVE TypeOK'
  <2>1. call' \in [Session -> CallState]
    <3>. DEFINE c == [call[s] EXCEPT !.phase = "restore", !.rounds = RestoreRounds]
    <3>1. c \in CallState
      <4>1. call[s] \in CallState
        BY DEF TypeOK
      <4>. QED BY <4>1, PhaseType DEF Phase
    <3>2. call' = [call EXCEPT ![s] = c]
      BY <1>8 DEF stopSpoofing, TypeOK
    <3>. QED BY <3>1, <3>2, CallType DEF TypeOK
  <2>. QED BY <1>8, <2>1 DEF stopSpoofing, TypeOK, kernel
<1>9. ASSUME NEW s \in Session, restoreARP(s) PROVE TypeOK'
  <2>1. call' \in [Session -> CallState]
    <3>1. CASE call[s].rounds > 1 /\ call' = [call EXCEPT ![s].rounds = @ - 1]
      BY <3>1 DEF TypeOK, CallState
    <3>2. CASE call' = [call EXCEPT ![s] = Free]
      BY <3>2, RecordType DEF TypeOK
    <3>. QED BY <1>9, <3>1, <3>2 DEF restoreARP
  <2>2. forged' \in [IP -> SUBSET Side]
    <3>. PICK got \in Arriving : forged' = [forged EXCEPT ![call[s].ip] = @ \ got]
      BY <1>9 DEF restoreARP
    <3>. QED BY DEF TypeOK
  <2>. QED BY <1>9, <2>1, <2>2 DEF restoreARP, TypeOK, kernel
<1>10. ASSUME NEW s \in Session, deadlinePasses(s) PROVE TypeOK'
  <2>1. call' \in [Session -> CallState]
    BY <1>10 DEF deadlinePasses, TypeOK, CallState
  <2>. QED BY <1>10, <2>1 DEF deadlinePasses, TypeOK, kernel
<1>11. ASSUME NEW r \in Reconnector, NEW ip \in IP, isolations[ip] # None, Take(r, ip)
       PROVE  /\ isolations' \in [IP -> Session \cup {None}]
              /\ release' \in [Reconnector -> ReleaseState]
  BY <1>11 DEF Take, TypeOK, ReleaseState, CallState
<1>12. ASSUME NEW u \in User, NEW ip \in IP, reconnectDevice(u, ip) PROVE TypeOK'
  <2>1. isolations[ip] # None /\ Take(u, ip) /\ u \in Reconnector
    BY <1>12 DEF reconnectDevice, Reconnector
  <2>. QED BY <1>11, <1>12, <2>1 DEF reconnectDevice, TypeOK, kernel
<1>13. ASSUME NEW r \in Reconnector, cancel(r) PROVE TypeOK'
  <2>1. call' \in [Session -> CallState]
    <3>. DEFINE s == release[r].session
    <3>1. CASE s \in Session
      <4>1. [call[s] EXCEPT !.cancelled = TRUE] \in CallState
        <5>1. call[s] \in CallState
          BY <3>1 DEF TypeOK
        <5>. QED BY <5>1, PhaseType DEF Phase
      <4>2. call' = [call EXCEPT ![s] = [call[s] EXCEPT !.cancelled = TRUE]]
        BY <1>13, <3>1 DEF cancel, TypeOK
      <4>. QED BY <3>1, <4>1, <4>2, CallType DEF TypeOK
    <3>2. CASE s \notin Session
      BY <1>13, <3>2 DEF cancel, TypeOK
    <3>. QED BY <3>1, <3>2
  <2>2. release' \in [Reconnector -> ReleaseState]
    BY <1>13 DEF cancel, TypeOK, ReleaseState
  <2>. QED BY <1>13, <2>1, <2>2 DEF cancel, TypeOK, kernel
<1>14. ASSUME NEW r \in Reconnector, unblockSource(r) PROVE TypeOK'
  <2>1. release' \in [Reconnector -> ReleaseState]
    BY <1>14 DEF unblockSource, TypeOK, ReleaseState
  <2>2. src' \in [IP -> Nat]
    BY <1>14, DeleteOutcomeType DEF unblockSource, TypeOK
  <2>. QED BY <1>14, <2>1, <2>2 DEF unblockSource, TypeOK
<1>15. ASSUME NEW r \in Reconnector, unblockDest(r) PROVE TypeOK'
  <2>1. release' \in [Reconnector -> ReleaseState]
    BY <1>15 DEF unblockDest, TypeOK, ReleaseState
  <2>2. dst' \in [IP -> Nat]
    BY <1>15, DeleteOutcomeType DEF unblockDest, TypeOK
  <2>. QED BY <1>15, <2>1, <2>2 DEF unblockDest, TypeOK
<1>16. ASSUME NEW r \in Reconnector, unblockMAC(r) PROVE TypeOK'
  <2>1. release' \in [Reconnector -> ReleaseState]
    BY <1>16, RecordType DEF unblockMAC, TypeOK
  <2>2. v6' \in [MAC -> Nat]
    BY <1>16, DeleteOutcomeType DEF unblockMAC, TypeOK
  <2>. QED BY <1>16, <2>1, <2>2 DEF unblockMAC, TypeOK
<1>17. CASE collectExpired
  BY <1>17 DEF collectExpired, Overdue, TypeOK, kernel
<1>18. ASSUME NEW ip \in IP, reconnectExpired(ip) PROVE TypeOK'
  <2>1. CASE isolations[ip] # None /\ Take(Watcher, ip)
    <3>1. Watcher \in Reconnector
      BY DEF Reconnector
    <3>. QED BY <1>11, <1>18, <2>1, <3>1 DEF reconnectExpired, TypeOK, kernel
  <2>2. CASE isolations[ip] = None /\ UNCHANGED <<isolations, release>>
    BY <1>18, <2>2 DEF reconnectExpired, TypeOK, kernel
  <2>. QED BY <1>18, <2>1, <2>2 DEF reconnectExpired
<1>19. CASE startProgram
  <2>1. src' \in [IP -> Nat] /\ dst' \in [IP -> Nat]
    BY <1>19, RemainingType DEF startProgram, cleanOrphanRules, TypeOK
  <2>. QED BY <1>19, <2>1 DEF startProgram, cleanOrphanRules, TypeOK
<1>20. CASE startSecondInstance
  BY <1>20 DEF startSecondInstance, Deleted, TypeOK
<1>21. CASE crash
  BY <1>21, RecordType DEF crash, TypeOK, kernel
<1>22. CASE flushRules
  BY <1>22 DEF flushRules, TypeOK
<1>23. ASSUME NEW ip \in IP, arpAges(ip) PROVE TypeOK'
  BY <1>23 DEF arpAges, TypeOK, kernel
<1>24. CASE UNCHANGED vars
  BY <1>24 DEF vars, TypeOK
<1>. QED
  BY <1>1, <1>2, <1>3, <1>4, <1>5, <1>6, <1>7, <1>8, <1>9, <1>10, <1>12, <1>13,
     <1>14, <1>15, <1>16, <1>17, <1>18, <1>19, <1>20, <1>21, <1>22, <1>23, <1>24
  DEF Next, SessionStep, blockStep, unblockStep, watcherStep, EnvironmentStep

\* Whatever happens, the engine's state keeps its shape.
THEOREM TypeCorrect == Spec => []TypeOK
BY InitType, NextType, PTL DEF Spec

-----------------------------------------------------------------------------
(* The map, the sessions and the reconnections *)

\* A session the map cannot name may change as it likes, as long as it has an
\* address while it lasts.
LEMMA OutsideMap ==
  ASSUME TypeOK, MapMatchesSessions, up, NEW s \in Session,
         UNCHANGED <<up, isolations, release>>,
         call[s].phase \in Running => call[s].cancelled,
         \A t \in Session \ {s} : call'[t] = call[t],
         call'[s].phase # "free" => call'[s].ip \in IP /\ call'[s].mac \in MAC,
         call'[s].phase \in Setup => ~ call'[s].cancelled
  PROVE  MapMatchesSessions'
<1>1. \A ip \in IP : isolations[ip] # s
  BY AddressAssumption DEF MapMatchesSessions, MapNamesLive
<1>2. MapNamesLive'
  BY <1>1 DEF TypeOK, MapMatchesSessions, MapNamesLive
<1>3. Addressed'
  BY DEF MapMatchesSessions, Addressed
<1>4. ReleasesOwn'
  <2>1. \A r \in Reconnector : release[r].phase = "cancel" => release[r].session # s
    BY DEF MapMatchesSessions, ReleasesOwn
  <2>. QED BY <2>1 DEF MapMatchesSessions, ReleasesOwn
<1>5. DeadIsEmpty'
  BY DEF DeadIsEmpty
<1>. QED BY <1>2, <1>3, <1>4, <1>5 DEF MapMatchesSessions

\* A session that goes on running, uncancelled or not, stays what it was.
LEMMA StaysRunning ==
  ASSUME TypeOK, MapMatchesSessions, up, NEW s \in Session,
         UNCHANGED <<up, isolations, release>>,
         call[s].phase \in Running, call'[s].phase \in Running,
         call'[s].ip = call[s].ip, call'[s].mac = call[s].mac,
         call'[s].cancelled = call[s].cancelled,
         \A t \in Session \ {s} : call'[t] = call[t]
  PROVE  MapMatchesSessions'
<1>1. MapNamesLive'
  BY DEF TypeOK, MapMatchesSessions, MapNamesLive
<1>2. Addressed'
  BY DEF MapMatchesSessions, Addressed, Setup, Running
<1>3. ReleasesOwn'
  BY DEF MapMatchesSessions, ReleasesOwn
<1>4. DeadIsEmpty'
  BY DEF DeadIsEmpty
<1>. QED BY <1>1, <1>2, <1>3, <1>4 DEF MapMatchesSessions

\* A session under way means a program that is up.
LEMMA UnderWayIsUp ==
  ASSUME TypeOK, MapMatchesSessions
  PROVE  /\ \A s \in Session : call[s].phase # "free" => up
         /\ \A r \in Reconnector : release[r].phase # "idle" => up
         /\ \A ip \in IP : isolations[ip] # None => up
BY DEF MapMatchesSessions, DeadIsEmpty, Free, Idle

\* A reconnector takes an entry: the session leaves the map and is its own.
LEMMA TakeMatches ==
  ASSUME TypeOK, MapMatchesSessions, NEW r \in Reconnector, NEW ip \in IP,
         release[r] = Idle, isolations[ip] # None, Take(r, ip), UNCHANGED <<up, call>>
  PROVE  MapMatchesSessions'
<1>. DEFINE s == isolations[ip]
<1>1. /\ s \in Session /\ call[s].ip = ip
      /\ call[s].phase \in Running /\ ~ call[s].cancelled
      /\ call[s].mac \in MAC
  BY DEF TypeOK, MapMatchesSessions, MapNamesLive, Addressed, Running
<1>2. /\ isolations' = [isolations EXCEPT ![ip] = None]
      /\ release' = [release EXCEPT ![r] =
            [phase |-> "cancel", ip |-> ip, mac |-> call[s].mac, session |-> s]]
  BY DEF Take
<1>3. \A i \in IP : isolations'[i] # s
  BY <1>1, <1>2, AddressAssumption DEF TypeOK, MapMatchesSessions, MapNamesLive
<1>4. /\ release'[r].phase = "cancel" /\ release'[r].ip = ip
      /\ release'[r].mac \in MAC /\ release'[r].session = s
      /\ \A q \in Reconnector \ {r} : release'[q] = release[q]
  BY <1>1, <1>2 DEF TypeOK
<1>5. MapNamesLive'
  BY <1>2 DEF TypeOK, MapMatchesSessions, MapNamesLive
<1>6. Addressed'
  BY <1>4 DEF MapMatchesSessions, Addressed
<1>7. ReleasesOwn'
  <2>1. \A q \in Reconnector \ {r} :
          release[q].phase = "cancel" => release[q].session # s
    BY DEF MapMatchesSessions, ReleasesOwn
  <2>2. \A q \in Reconnector, i \in IP :
          release[q].phase = "cancel" => isolations'[i] # release[q].session
    BY <1>2, AddressAssumption DEF TypeOK, MapMatchesSessions, ReleasesOwn
  <2>. QED BY <1>1, <1>3, <1>4, <2>1, <2>2 DEF MapMatchesSessions, ReleasesOwn
<1>8. DeadIsEmpty'
  BY UnderWayIsUp DEF DeadIsEmpty
<1>. QED BY <1>5, <1>6, <1>7, <1>8 DEF MapMatchesSessions

\* Before the program starts the map matches the sessions, for both are empty.
LEMMA InitMap == Init => MapMatchesSessions
<1>. SUFFICES ASSUME Init PROVE MapMatchesSessions
  OBVIOUS
<1>1. /\ \A ip \in IP : isolations[ip] = None
      /\ \A s \in Session : call[s].phase = "free"
      /\ \A r \in Reconnector : release[r].phase = "idle"
  BY DEF Init, Free, Idle
<1>. QED
  BY <1>1 DEF Init, MapMatchesSessions, MapNamesLive, Addressed, ReleasesOwn,
              DeadIsEmpty, Setup

\* Every step leaves the map naming live sessions and each reconnection its own.
LEMMA NextMap == TypeOK /\ MapMatchesSessions /\ [Next]_vars => MapMatchesSessions'
<1>. SUFFICES ASSUME TypeOK, MapMatchesSessions, [Next]_vars PROVE MapMatchesSessions'
  OBVIOUS
<1>. USE UnderWayIsUp
<1>1. ASSUME NEW s \in Session, NEW ip \in IP, NEW mac \in MAC, NEW timed \in BOOLEAN,
             isolateDevice(s, ip, mac, timed)
      PROVE  MapMatchesSessions'
  <2>1. /\ up /\ UNCHANGED <<up, isolations, release>>
        /\ call[s].phase = "free"
        /\ \A t \in Session \ {s} : call'[t] = call[t]
        /\ call'[s].ip = ip /\ call'[s].mac = mac /\ ~ call'[s].cancelled
    BY <1>1 DEF isolateDevice, Free, TypeOK
  <2>. QED BY <2>1, OutsideMap DEF Running
<1>2. ASSUME NEW s \in Session, blockSource(s) PROVE MapMatchesSessions'
  <2>1. /\ up /\ UNCHANGED <<up, isolations, release>>
        /\ call[s].phase = "src" /\ ~ call[s].cancelled
        /\ call[s].ip \in IP /\ call[s].mac \in MAC
    BY <1>2 DEF blockSource, MapMatchesSessions, Addressed, Setup
  <2>2. \A t \in Session \ {s} : call'[t] = call[t]
    BY <1>2 DEF blockSource, TypeOK
  <2>3. \/ call'[s] = Free
        \/ /\ call'[s].ip = call[s].ip /\ call'[s].mac = call[s].mac
           /\ call'[s].cancelled = call[s].cancelled
    BY <1>2 DEF blockSource, TypeOK, CallState
  <2>4. CASE call'[s] = Free
    BY <2>1, <2>2, <2>4, OutsideMap DEF Running, Setup, Free
  <2>. QED BY <2>1, <2>2, <2>3, <2>4, OutsideMap DEF Running
<1>3. ASSUME NEW s \in Session, blockDest(s) PROVE MapMatchesSessions'
  <2>1. /\ up /\ UNCHANGED <<up, isolations, release>>
        /\ call[s].phase = "dst" /\ ~ call[s].cancelled
        /\ call[s].ip \in IP /\ call[s].mac \in MAC
    BY <1>3 DEF blockDest, MapMatchesSessions, Addressed, Setup
  <2>2. /\ \A t \in Session \ {s} : call'[t] = call[t]
        /\ call'[s].ip = call[s].ip /\ call'[s].mac = call[s].mac
        /\ call'[s].cancelled = call[s].cancelled
    BY <1>3 DEF blockDest, TypeOK, CallState
  <2>. QED BY <2>1, <2>2, OutsideMap DEF Running
<1>4. ASSUME NEW s \in Session, undoSource(s) PROVE MapMatchesSessions'
  <2>1. /\ up /\ UNCHANGED <<up, isolations, release>>
        /\ call[s].phase = "undo" /\ call'[s] = Free
        /\ \A t \in Session \ {s} : call'[t] = call[t]
    BY <1>4 DEF undoSource, TypeOK
  <2>. QED BY <2>1, OutsideMap DEF Running, Setup, Free
<1>5. ASSUME NEW s \in Session, blockMAC(s) PROVE MapMatchesSessions'
  <2>1. /\ up /\ UNCHANGED <<up, isolations, release>>
        /\ call[s].phase = "v6" /\ ~ call[s].cancelled
        /\ call[s].ip \in IP /\ call[s].mac \in MAC
    BY <1>5 DEF blockMAC, MapMatchesSessions, Addressed, Setup
  <2>2. /\ \A t \in Session \ {s} : call'[t] = call[t]
        /\ call'[s].ip = call[s].ip /\ call'[s].mac = call[s].mac
        /\ call'[s].cancelled = call[s].cancelled
    BY <1>5 DEF blockMAC, TypeOK, CallState
  <2>. QED BY <2>1, <2>2, OutsideMap DEF Running
<1>6. ASSUME NEW s \in Session, publish(s) PROVE MapMatchesSessions'
  <2>. DEFINE ip == call[s].ip
  <2>1. /\ up /\ call[s].phase = "publish" /\ ~ call[s].cancelled
        /\ ip \in IP /\ call[s].mac \in MAC
    BY <1>6 DEF publish, MapMatchesSessions, Addressed, Setup
  <2>2. /\ UNCHANGED <<up, release>>
        /\ isolations' = [isolations EXCEPT ![ip] = s]
        /\ \A t \in Session \ {s} : call'[t] = call[t]
        /\ call'[s].phase = "start" /\ call'[s].ip = ip
        /\ call'[s].mac = call[s].mac /\ call'[s].cancelled = call[s].cancelled
    BY <1>6 DEF publish, TypeOK, CallState
  <2>3. MapNamesLive'
    <3>1. \A i \in IP \ {ip} : isolations'[i] = isolations[i] /\ isolations[i] # s
      BY <2>1, <2>2, AddressAssumption DEF TypeOK, MapMatchesSessions, MapNamesLive
    <3>2. isolations'[ip] = s
      BY <2>1, <2>2 DEF TypeOK
    <3>. QED
      BY <2>1, <2>2, <3>1, <3>2 DEF TypeOK, MapMatchesSessions, MapNamesLive, Running
  <2>4. Addressed'
    BY <2>1, <2>2 DEF MapMatchesSessions, Addressed
  <2>5. ReleasesOwn'
    <3>1. \A r \in Reconnector : release[r].phase = "cancel" => release[r].session # s
      BY <2>1 DEF MapMatchesSessions, ReleasesOwn, Running
    <3>. QED BY <2>1, <2>2, <3>1 DEF TypeOK, MapMatchesSessions, ReleasesOwn
  <2>6. DeadIsEmpty'
    BY <2>1, <2>2 DEF DeadIsEmpty
  <2>. QED BY <2>3, <2>4, <2>5, <2>6 DEF MapMatchesSessions
<1>7. ASSUME NEW s \in Session, spoofRound(s) PROVE MapMatchesSessions'
  <2>1. /\ up /\ UNCHANGED <<up, isolations, release>>
        /\ call[s].phase \in Running /\ call'[s].phase = "spoof"
        /\ call'[s].ip = call[s].ip /\ call'[s].mac = call[s].mac
        /\ call'[s].cancelled = call[s].cancelled
        /\ \A t \in Session \ {s} : call'[t] = call[t]
    BY <1>7 DEF spoofRound, TypeOK, CallState, Running
  <2>. QED BY <2>1, StaysRunning DEF Running
<1>8. ASSUME NEW s \in Session, stopSpoofing(s) PROVE MapMatchesSessions'
  <2>1. /\ up /\ UNCHANGED <<up, isolations, release>>
        /\ call[s].phase = "spoof" /\ call[s].cancelled
        /\ call[s].ip \in IP /\ call[s].mac \in MAC
    BY <1>8 DEF stopSpoofing, MapMatchesSessions, Addressed
  <2>2. /\ \A t \in Session \ {s} : call'[t] = call[t]
        /\ call'[s] = [call[s] EXCEPT !.phase = "restore", !.rounds = RestoreRounds]
    BY <1>8 DEF stopSpoofing, TypeOK
  <2>3. call[s] \in CallState
    BY DEF TypeOK
  <2>4. call'[s].phase = "restore" /\ call'[s].ip = call[s].ip /\ call'[s].mac = call[s].mac
    BY <2>2, <2>3 DEF CallState
  <2>. QED BY <2>1, <2>2, <2>4, OutsideMap DEF Setup
<1>9. ASSUME NEW s \in Session, restoreARP(s) PROVE MapMatchesSessions'
  <2>1. /\ up /\ UNCHANGED <<up, isolations, release>>
        /\ call[s].phase = "restore"
        /\ call[s].ip \in IP /\ call[s].mac \in MAC
        /\ \A t \in Session \ {s} : call'[t] = call[t]
    BY <1>9 DEF restoreARP, TypeOK, MapMatchesSessions, Addressed
  <2>2. \/ call'[s] = Free
        \/ call'[s].phase = "restore" /\ call'[s].ip = call[s].ip /\ call'[s].mac = call[s].mac
    BY <1>9 DEF restoreARP, TypeOK, CallState
  <2>3. CASE call'[s] = Free
    BY <2>1, <2>3, OutsideMap DEF Running, Setup, Free
  <2>. QED BY <2>1, <2>2, <2>3, OutsideMap DEF Running, Setup
<1>10. ASSUME NEW s \in Session, deadlinePasses(s) PROVE MapMatchesSessions'
  <2>1. /\ UNCHANGED <<up, isolations, release>> /\ up
        /\ call[s].phase \in Running
    BY <1>10, AddressAssumption DEF deadlinePasses, MapMatchesSessions, MapNamesLive
  <2>2. /\ call'[s].phase = call[s].phase
        /\ call'[s].ip = call[s].ip /\ call'[s].mac = call[s].mac
        /\ call'[s].cancelled = call[s].cancelled
        /\ \A t \in Session \ {s} : call'[t] = call[t]
    BY <1>10 DEF deadlinePasses, TypeOK, CallState
  <2>. QED BY <2>1, <2>2, StaysRunning
<1>11. ASSUME NEW u \in User, NEW ip \in IP, reconnectDevice(u, ip)
       PROVE  MapMatchesSessions'
  BY <1>11, TakeMatches DEF reconnectDevice, Reconnector
<1>12. ASSUME NEW r \in Reconnector, cancel(r) PROVE MapMatchesSessions'
  <2>. DEFINE s == release[r].session
  <2>1. /\ up /\ UNCHANGED <<up, isolations>>
        /\ release[r].phase = "cancel" /\ s \in Session
        /\ call[s].phase \in Running
        /\ \A i \in IP : isolations[i] # s
        /\ \A q \in Reconnector \ {r} : release[q].phase = "cancel" => release[q].session # s
    BY <1>12 DEF cancel, MapMatchesSessions, ReleasesOwn
  <2>2. /\ \A t \in Session \ {s} : call'[t] = call[t]
        /\ call'[s].ip = call[s].ip /\ call'[s].mac = call[s].mac
        /\ call'[s].phase = call[s].phase
    BY <1>12, <2>1 DEF cancel, TypeOK, CallState
  <2>3. /\ \A q \in Reconnector \ {r} : release'[q] = release[q]
        /\ release'[r].phase = "src" /\ release'[r].ip = release[r].ip
        /\ release'[r].mac = release[r].mac
    BY <1>12 DEF cancel, TypeOK, ReleaseState
  <2>4. MapNamesLive'
    BY <2>1, <2>2 DEF TypeOK, MapMatchesSessions, MapNamesLive
  <2>5. Addressed'
    BY <2>1, <2>2, <2>3 DEF MapMatchesSessions, Addressed, Running, Setup
  <2>6. ReleasesOwn'
    BY <2>1, <2>2, <2>3 DEF MapMatchesSessions, ReleasesOwn
  <2>7. DeadIsEmpty'
    BY <2>1 DEF DeadIsEmpty
  <2>. QED BY <2>4, <2>5, <2>6, <2>7 DEF MapMatchesSessions
<1>13. ASSUME NEW r \in Reconnector, up, UNCHANGED <<up, isolations, call>>,
              release[r].phase # "idle", release'[r].phase # "cancel",
              \/ release'[r] = Idle
              \/ release'[r].ip = release[r].ip /\ release'[r].mac = release[r].mac,
              \A q \in Reconnector \ {r} : release'[q] = release[q]
       PROVE  MapMatchesSessions'
  <2>1. MapNamesLive'
    BY <1>13 DEF MapMatchesSessions, MapNamesLive
  <2>2. Addressed'
    BY <1>13 DEF MapMatchesSessions, Addressed, Idle
  <2>3. ReleasesOwn'
    BY <1>13 DEF MapMatchesSessions, ReleasesOwn
  <2>4. DeadIsEmpty'
    BY <1>13 DEF DeadIsEmpty
  <2>. QED BY <2>1, <2>2, <2>3, <2>4 DEF MapMatchesSessions
<1>14. ASSUME NEW r \in Reconnector, unblockSource(r) PROVE MapMatchesSessions'
  <2>1. /\ up /\ UNCHANGED <<up, isolations, call>> /\ release[r].phase # "idle"
        /\ release'[r].phase = "dst"
        /\ release'[r].ip = release[r].ip /\ release'[r].mac = release[r].mac
        /\ \A q \in Reconnector \ {r} : release'[q] = release[q]
    BY <1>14 DEF unblockSource, TypeOK, ReleaseState
  <2>. QED BY <1>13, <2>1
<1>15. ASSUME NEW r \in Reconnector, unblockDest(r) PROVE MapMatchesSessions'
  <2>1. /\ up /\ UNCHANGED <<up, isolations, call>> /\ release[r].phase # "idle"
        /\ release'[r].phase = "v6"
        /\ release'[r].ip = release[r].ip /\ release'[r].mac = release[r].mac
        /\ \A q \in Reconnector \ {r} : release'[q] = release[q]
    BY <1>15 DEF unblockDest, TypeOK, ReleaseState
  <2>. QED BY <1>13, <2>1
<1>16. ASSUME NEW r \in Reconnector, unblockMAC(r) PROVE MapMatchesSessions'
  <2>1. /\ up /\ UNCHANGED <<up, isolations, call>> /\ release[r].phase # "idle"
        /\ release'[r] = Idle
        /\ \A q \in Reconnector \ {r} : release'[q] = release[q]
    BY <1>16 DEF unblockMAC, TypeOK
  <2>. QED BY <1>13, <2>1 DEF Idle
<1>17. ASSUME UNCHANGED <<up, isolations, call, release>> PROVE MapMatchesSessions'
  BY <1>17 DEF MapMatchesSessions, MapNamesLive, Addressed, ReleasesOwn, DeadIsEmpty
<1>18. ASSUME NEW ip \in IP, reconnectExpired(ip) PROVE MapMatchesSessions'
  <2>1. CASE isolations[ip] # None /\ Take(Watcher, ip)
    BY <1>18, <2>1, TakeMatches DEF reconnectExpired, Reconnector
  <2>2. CASE isolations[ip] = None /\ UNCHANGED <<isolations, release>>
    BY <1>17, <1>18, <2>2 DEF reconnectExpired
  <2>. QED BY <1>18, <2>1, <2>2 DEF reconnectExpired
<1>19. CASE startProgram
  BY <1>19 DEF startProgram, MapMatchesSessions, MapNamesLive, Addressed, ReleasesOwn,
               DeadIsEmpty
<1>20. CASE crash
  <2>1. /\ \A ip \in IP : isolations'[ip] = None
        /\ \A s \in Session : call'[s].phase = "free"
        /\ \A r \in Reconnector : release'[r].phase = "idle"
    BY <1>20 DEF crash, Free, Idle
  <2>. QED
    BY <1>20, <2>1 DEF crash, MapMatchesSessions, MapNamesLive, Addressed, ReleasesOwn,
                       DeadIsEmpty, Setup
<1>21. CASE collectExpired \/ startSecondInstance \/ flushRules \/ UNCHANGED vars
  BY <1>17, <1>21 DEF collectExpired, startSecondInstance, flushRules, vars
<1>22. ASSUME NEW ip \in IP, arpAges(ip) PROVE MapMatchesSessions'
  BY <1>17, <1>22 DEF arpAges
<1>. QED
  BY <1>1, <1>2, <1>3, <1>4, <1>5, <1>6, <1>7, <1>8, <1>9, <1>10, <1>11, <1>12,
     <1>14, <1>15, <1>16, <1>18, <1>19, <1>20, <1>21, <1>22
  DEF Next, SessionStep, blockStep, unblockStep, watcherStep, EnvironmentStep

-----------------------------------------------------------------------------
(* The rules suffice *)

\* There are finitely many sessions and reconnectors, the watcher included.
LEMMA Finite ==
  /\ IsFiniteSet(Session)
  /\ IsFiniteSet(Reconnector)
BY ProcessAssumption, FS_AddElement DEF Reconnector

\* Those who rely on a rule can be counted.
LEMMA CountsAreNaturals ==
  \A ip \in IP :
    /\ IsFiniteSet(SourceSessions(ip)) /\ Cardinality(SourceSessions(ip)) \in Nat
    /\ IsFiniteSet(SourceReleases(ip)) /\ Cardinality(SourceReleases(ip)) \in Nat
    /\ IsFiniteSet(DestSessions(ip)) /\ Cardinality(DestSessions(ip)) \in Nat
    /\ IsFiniteSet(DestReleases(ip)) /\ Cardinality(DestReleases(ip)) \in Nat
<1>. TAKE ip \in IP
<1>1. /\ SourceSessions(ip) \subseteq Session /\ DestSessions(ip) \subseteq Session
      /\ SourceReleases(ip) \subseteq Reconnector /\ DestReleases(ip) \subseteq Reconnector
  BY DEF SourceSessions, DestSessions, SourceReleases, DestReleases
<1>2. /\ IsFiniteSet(SourceSessions(ip)) /\ IsFiniteSet(DestSessions(ip))
      /\ IsFiniteSet(SourceReleases(ip)) /\ IsFiniteSet(DestReleases(ip))
  BY <1>1, Finite, FS_Subset
<1>. QED BY <1>2, FS_CardinalityType

\* The rules of one chain, the sessions and the reconnections that rely on it.
Covered(chain, sessions, releases) ==
  chain >= Cardinality(sessions) + Cardinality(releases)

SourceCovered(ip) == Covered(src[ip], SourceSessions(ip), SourceReleases(ip))
DestCovered(ip) == Covered(dst[ip], DestSessions(ip), DestReleases(ip))

\* RulesSuffice, address by address and chain by chain.
LEMMA RulesSufficeCovered ==
  RulesSuffice <=> \A ip \in IP : SourceCovered(ip) /\ DestCovered(ip)
BY DEF RulesSuffice, SourceCovered, DestCovered, Covered

\* A step that adds no dependent and deletes no rule.
LEMMA CoveredKept ==
  ASSUME NEW c \in Nat, NEW S, NEW R, IsFiniteSet(S), IsFiniteSet(R), Covered(c, S, R),
         NEW d \in Nat, NEW T, NEW Q, T \subseteq S, Q \subseteq R, d >= c
  PROVE  Covered(d, T, Q)
<1>1. /\ Cardinality(T) \in Nat /\ Cardinality(T) <= Cardinality(S)
      /\ Cardinality(Q) \in Nat /\ Cardinality(Q) <= Cardinality(R)
  BY CountPart
<1>2. Cardinality(S) \in Nat /\ Cardinality(R) \in Nat
  BY FS_CardinalityType
<1>. QED BY <1>1, <1>2 DEF Covered

\* A step that inserts a rule for one new session.
LEMMA CoveredGrows ==
  ASSUME NEW c \in Nat, NEW S, NEW R, IsFiniteSet(S), IsFiniteSet(R), Covered(c, S, R),
         NEW T, NEW Q, NEW x, T \subseteq S \cup {x}, Q \subseteq R
  PROVE  Covered(c + 1, T, Q)
<1>1. /\ Cardinality(T) \in Nat /\ Cardinality(T) <= Cardinality(S) + 1
      /\ Cardinality(Q) \in Nat /\ Cardinality(Q) <= Cardinality(R)
  BY CountPart, CountGrows
<1>2. Cardinality(S) \in Nat /\ Cardinality(R) \in Nat
  BY FS_CardinalityType
<1>. QED BY <1>1, <1>2 DEF Covered

\* A step that deletes one rule, of a session that relied on it.
LEMMA CoveredShrinks ==
  ASSUME NEW c \in Nat, NEW S, NEW R, IsFiniteSet(S), IsFiniteSet(R), Covered(c, S, R),
         NEW d \in Nat, d >= c - 1, NEW T, NEW Q, NEW x \in S,
         T \subseteq S \ {x}, Q \subseteq R
  PROVE  Covered(d, T, Q)
<1>1. /\ Cardinality(T) \in Nat /\ Cardinality(T) <= Cardinality(S) - 1
      /\ Cardinality(Q) \in Nat /\ Cardinality(Q) <= Cardinality(R)
  BY CountPart, CountShrinks
<1>2. Cardinality(S) \in Nat /\ Cardinality(R) \in Nat
  BY FS_CardinalityType
<1>. QED BY <1>1, <1>2 DEF Covered

\* A step that deletes one rule, for a reconnection that owed the deletion.
LEMMA CoveredRepaid ==
  ASSUME NEW c \in Nat, NEW S, NEW R, IsFiniteSet(S), IsFiniteSet(R), Covered(c, S, R),
         NEW d \in Nat, d >= c - 1, NEW T, NEW Q, NEW x \in R,
         T \subseteq S, Q \subseteq R \ {x}
  PROVE  Covered(d, T, Q)
<1>1. Covered(c, R, S)
  BY FS_CardinalityType DEF Covered
<1>2. Covered(d, Q, T)
  BY <1>1, CoveredShrinks
<1>3. IsFiniteSet(T) /\ IsFiniteSet(Q)
  BY FS_Subset, FS_RemoveElement
<1>. QED BY <1>2, <1>3, FS_CardinalityType DEF Covered

\* A step that hands a rule over from a session to a reconnection.
LEMMA CoveredMoves ==
  ASSUME NEW c \in Nat, NEW S, NEW R, IsFiniteSet(S), IsFiniteSet(R), Covered(c, S, R),
         NEW T, NEW Q, NEW x \in S, NEW y, T \subseteq S \ {x}, Q \subseteq R \cup {y}
  PROVE  Covered(c, T, Q)
<1>1. /\ Cardinality(T) \in Nat /\ Cardinality(T) <= Cardinality(S) - 1
      /\ Cardinality(Q) \in Nat /\ Cardinality(Q) <= Cardinality(R) + 1
  BY CountGrows, CountShrinks
<1>2. Cardinality(S) \in Nat /\ Cardinality(R) \in Nat
  BY FS_CardinalityType
<1>. QED BY <1>1, <1>2 DEF Covered

\* A -D takes at most one rule of its own address and none of another.
LEMMA DeleteOutcomeLoses ==
  ASSUME NEW K, NEW chain \in [K -> Nat], NEW k \in K,
         NEW outcome \in DeleteOutcome(chain, k)
  PROVE  /\ outcome[k] >= chain[k] - 1
         /\ \A j \in K \ {k} : outcome[j] = chain[j]
BY DEF DeleteOutcome, Deleted

\* Nobody relies on more rules than before, and no rule went.
LEMMA NothingMoreOwed ==
  ASSUME TypeOK, TypeOK', RulesSuffice,
         \A ip \in IP : /\ SourceSessions(ip)' \subseteq SourceSessions(ip)
                        /\ DestSessions(ip)' \subseteq DestSessions(ip)
                        /\ SourceReleases(ip)' \subseteq SourceReleases(ip)
                        /\ DestReleases(ip)' \subseteq DestReleases(ip),
         UNCHANGED <<src, dst>>
  PROVE  RulesSuffice'
<1>. SUFFICES ASSUME NEW ip \in IP PROVE SourceCovered(ip)' /\ DestCovered(ip)'
  BY DEF RulesSuffice, SourceCovered, DestCovered, Covered
<1>1. src[ip] \in Nat /\ src'[ip] = src[ip] /\ dst[ip] \in Nat /\ dst'[ip] = dst[ip]
  BY DEF TypeOK
<1>2. SourceCovered(ip) /\ DestCovered(ip)
  BY RulesSufficeCovered
<1>3. SourceCovered(ip)'
  BY <1>1, <1>2, CoveredKept, CountsAreNaturals DEF SourceCovered
<1>4. DestCovered(ip)'
  BY <1>1, <1>2, CoveredKept, CountsAreNaturals DEF DestCovered
<1>. QED BY <1>3, <1>4

\* A session that leaves the map alone and reaches no phase that relies on a rule.
LEMMA SessionOwesNoMore ==
  ASSUME TypeOK, TypeOK', RulesSuffice, NEW s \in Session,
         UNCHANGED <<isolations, release, src, dst>>,
         \A t \in Session \ {s} : call'[t] = call[t],
         \/ \A ip \in IP : isolations[ip] # s
         \/ call'[s].ip = call[s].ip,
         call'[s].phase \in {"dst", "undo", "v6", "publish"} =>
           call'[s].ip = call[s].ip /\ call[s].phase \in {"dst", "undo", "v6", "publish"},
         call'[s].phase \in {"v6", "publish"} => call[s].phase \in {"v6", "publish"}
  PROVE  RulesSuffice'
<1>1. ASSUME NEW ip \in IP
      PROVE  /\ SourceSessions(ip)' \subseteq SourceSessions(ip)
             /\ DestSessions(ip)' \subseteq DestSessions(ip)
  BY DEF SourceSessions, DestSessions
<1>2. \A ip \in IP : /\ SourceReleases(ip)' \subseteq SourceReleases(ip)
                     /\ DestReleases(ip)' \subseteq DestReleases(ip)
  BY DEF SourceReleases, DestReleases
<1>. QED BY <1>1, <1>2, NothingMoreOwed

\* A reconnector takes an entry: its rules change hands.
LEMMA TakeSuffices ==
  ASSUME TypeOK, TypeOK', MapMatchesSessions, RulesSuffice,
         NEW r \in Reconnector, NEW ip \in IP,
         release[r] = Idle, isolations[ip] # None, Take(r, ip), UNCHANGED <<call, src, dst>>
  PROVE  RulesSuffice'
<1>. DEFINE s == isolations[ip]
<1>1. /\ s \in Session /\ call[s].ip = ip /\ call[s].phase \in Running
  BY DEF TypeOK, MapMatchesSessions, MapNamesLive
<1>2. /\ isolations'[ip] = None
      /\ \A i \in IP \ {ip} : isolations'[i] = isolations[i]
      /\ release'[r].phase = "cancel" /\ release'[r].ip = ip
      /\ \A q \in Reconnector \ {r} : release'[q] = release[q]
  BY DEF Take, TypeOK
<1>. SUFFICES ASSUME NEW i \in IP PROVE SourceCovered(i)' /\ DestCovered(i)'
  BY DEF RulesSuffice, SourceCovered, DestCovered, Covered
<1>3. src[i] \in Nat /\ src'[i] = src[i] /\ dst[i] \in Nat /\ dst'[i] = dst[i]
  BY DEF TypeOK
<1>4. SourceCovered(i) /\ DestCovered(i)
  BY RulesSufficeCovered
<1>5. CASE i = ip
  <2>1. s \in SourceSessions(i) /\ s \in DestSessions(i)
    BY <1>1, <1>5 DEF SourceSessions, DestSessions
  <2>2. /\ SourceSessions(i)' \subseteq SourceSessions(i) \ {s}
        /\ DestSessions(i)' \subseteq DestSessions(i) \ {s}
    BY <1>1, <1>2, <1>5, AddressAssumption DEF SourceSessions, DestSessions, Running
  <2>3. /\ SourceReleases(i)' \subseteq SourceReleases(i) \cup {r}
        /\ DestReleases(i)' \subseteq DestReleases(i) \cup {r}
    BY <1>2 DEF SourceReleases, DestReleases
  <2>4. SourceCovered(i)'
    BY <1>3, <1>4, <2>1, <2>2, <2>3, CoveredMoves, CountsAreNaturals DEF SourceCovered
  <2>5. DestCovered(i)'
    BY <1>3, <1>4, <2>1, <2>2, <2>3, CoveredMoves, CountsAreNaturals DEF DestCovered
  <2>. QED BY <2>4, <2>5
<1>6. CASE i # ip
  <2>1. /\ SourceSessions(i)' \subseteq SourceSessions(i)
        /\ DestSessions(i)' \subseteq DestSessions(i)
    BY <1>2, <1>6 DEF SourceSessions, DestSessions
  <2>2. /\ SourceReleases(i)' \subseteq SourceReleases(i)
        /\ DestReleases(i)' \subseteq DestReleases(i)
    BY <1>2, <1>6 DEF SourceReleases, DestReleases
  <2>3. SourceCovered(i)'
    BY <1>3, <1>4, <2>1, <2>2, CoveredKept, CountsAreNaturals DEF SourceCovered
  <2>4. DestCovered(i)'
    BY <1>3, <1>4, <2>1, <2>2, CoveredKept, CountsAreNaturals DEF DestCovered
  <2>. QED BY <2>3, <2>4
<1>. QED BY <1>5, <1>6

\* Nobody but this program writes the chain: no flush, no second instance.
NobodyElse == "flush" \notin Fault /\ "second" \notin Fault

\* With no rule and nobody to rely on one, the rules suffice.
LEMMA InitRules == Init => RulesSuffice
<1>. SUFFICES ASSUME Init, NEW ip \in IP
              PROVE  /\ src[ip] = 0 /\ SourceSessions(ip) = {} /\ SourceReleases(ip) = {}
                     /\ dst[ip] = 0 /\ DestSessions(ip) = {} /\ DestReleases(ip) = {}
  BY FS_EmptySet DEF RulesSuffice
<1>1. /\ isolations[ip] = None
      /\ \A s \in Session : call[s].phase = "free"
      /\ \A r \in Reconnector : release[r].phase = "idle"
  BY DEF Init, Free, Idle
<1>. QED
  BY <1>1, AddressAssumption
  DEF Init, SourceSessions, SourceReleases, DestSessions, DestReleases

\* With no session and no reconnection any chain suffices.
LEMMA NobodyRelies ==
  ASSUME TypeOK', \A ip \in IP : isolations'[ip] = None,
         \A s \in Session : call'[s].phase = "free",
         \A r \in Reconnector : release'[r].phase = "idle"
  PROVE  RulesSuffice'
<1>. SUFFICES ASSUME NEW ip \in IP
              PROVE  /\ src'[ip] \in Nat /\ SourceSessions(ip)' = {} /\ SourceReleases(ip)' = {}
                     /\ dst'[ip] \in Nat /\ DestSessions(ip)' = {} /\ DestReleases(ip)' = {}
  <2>1. Cardinality({}) = 0
    BY FS_EmptySet
  <2>. QED BY <2>1, SMTT(30) DEF RulesSuffice
<1>. QED
  BY AddressAssumption
  DEF TypeOK, SourceSessions, SourceReleases, DestSessions, DestReleases

\* Every step leaves enough rules for those who still rely on one.
LEMMA NextRules ==
  NobodyElse /\ TypeOK /\ TypeOK' /\ MapMatchesSessions /\ RulesSuffice /\ [Next]_vars
    => RulesSuffice'
<1>. SUFFICES ASSUME NobodyElse, TypeOK, TypeOK', MapMatchesSessions, RulesSuffice, [Next]_vars
              PROVE  RulesSuffice'
  OBVIOUS
<1>0. ASSUME NEW s \in Session, call[s].phase \notin Running
      PROVE  \A ip \in IP : isolations[ip] # s
  BY <1>0, AddressAssumption DEF MapMatchesSessions, MapNamesLive
<1>1. ASSUME NEW s \in Session, NEW ip \in IP, NEW mac \in MAC, NEW timed \in BOOLEAN,
             isolateDevice(s, ip, mac, timed)
      PROVE  RulesSuffice'
  <2>1. /\ UNCHANGED <<isolations, release, src, dst>> /\ call[s].phase = "free"
        /\ \A t \in Session \ {s} : call'[t] = call[t]
        /\ call'[s].phase = "src"
    BY <1>1 DEF isolateDevice, Free, TypeOK, kernel
  <2>2. \A i \in IP : isolations[i] # s
    BY <1>0, <2>1 DEF Running
  <2>. QED BY <2>1, <2>2, SessionOwesNoMore
<1>2. ASSUME NEW s \in Session, blockSource(s) PROVE RulesSuffice'
  <2>. DEFINE ip == call[s].ip
  <2>1. /\ call[s].phase = "src" /\ ip \in IP
        /\ UNCHANGED <<isolations, release, dst>>
        /\ \A t \in Session \ {s} : call'[t] = call[t]
    BY <1>2 DEF blockSource, TypeOK, MapMatchesSessions, Addressed
  <2>2. \A i \in IP : isolations[i] # s
    BY <1>0, <2>1 DEF Running
  <2>3. CASE src' = Inserted(src, ip) /\ call' = [call EXCEPT ![s].phase = "dst"]
    <3>1. call'[s].phase = "dst" /\ call'[s].ip = ip
      BY <2>3 DEF TypeOK, CallState
    <3>2. /\ src'[ip] = src[ip] + 1 /\ \A i \in IP \ {ip} : src'[i] = src[i]
      BY <2>1, <2>3 DEF TypeOK, Inserted
    <3>. SUFFICES ASSUME NEW i \in IP PROVE SourceCovered(i)' /\ DestCovered(i)'
      BY DEF RulesSuffice, SourceCovered, DestCovered, Covered
    <3>3. src[i] \in Nat /\ dst[i] \in Nat /\ dst'[i] = dst[i]
      BY <2>1 DEF TypeOK
    <3>4. SourceCovered(i) /\ DestCovered(i)
      BY RulesSufficeCovered
    <3>5. /\ SourceReleases(i)' \subseteq SourceReleases(i)
          /\ DestReleases(i)' \subseteq DestReleases(i)
          /\ DestSessions(i)' \subseteq DestSessions(i)
      BY <2>1, <2>2, <3>1 DEF SourceReleases, DestReleases, DestSessions
    <3>6. DestCovered(i)'
      BY <3>3, <3>4, <3>5, CoveredKept, CountsAreNaturals DEF DestCovered
    <3>7. CASE i = ip
      <4>1. SourceSessions(i)' \subseteq SourceSessions(i) \cup {s}
        BY <2>1 DEF SourceSessions
      <4>2. src'[i] = src[i] + 1
        BY <3>2, <3>7
      <4>3. Covered(src[i] + 1, SourceSessions(i)', SourceReleases(i)')
        BY <3>3, <3>4, <3>5, <4>1, CoveredGrows, CountsAreNaturals DEF SourceCovered
      <4>. QED BY <3>6, <4>2, <4>3 DEF SourceCovered
    <3>8. CASE i # ip
      <4>1. SourceSessions(i)' \subseteq SourceSessions(i)
        BY <2>1, <3>1, <3>8 DEF SourceSessions
      <4>2. src'[i] = src[i]
        BY <3>2, <3>8
      <4>. QED
        BY <3>3, <3>4, <3>5, <3>6, <4>1, <4>2, CoveredKept, CountsAreNaturals
        DEF SourceCovered
    <3>. QED BY <3>7, <3>8
  <2>4. CASE call' = [call EXCEPT ![s] = Free] /\ UNCHANGED src
    <3>1. call'[s].phase = "free"
      BY <2>4 DEF TypeOK, Free
    <3>. QED BY <2>1, <2>2, <2>4, <3>1, SessionOwesNoMore
  <2>. QED BY <1>2, <2>3, <2>4 DEF blockSource
<1>3. ASSUME NEW s \in Session, blockDest(s) PROVE RulesSuffice'
  <2>. DEFINE ip == call[s].ip
  <2>1. /\ call[s].phase = "dst" /\ ip \in IP
        /\ UNCHANGED <<isolations, release, src>>
        /\ \A t \in Session \ {s} : call'[t] = call[t]
        /\ call'[s].ip = ip
    BY <1>3 DEF blockDest, TypeOK, MapMatchesSessions, Addressed, CallState
  <2>2. \A i \in IP : isolations[i] # s
    BY <1>0, <2>1 DEF Running
  <2>3. CASE dst' = Inserted(dst, ip) /\ call' = [call EXCEPT ![s].phase = "v6"]
    <3>1. /\ dst'[ip] = dst[ip] + 1 /\ \A i \in IP \ {ip} : dst'[i] = dst[i]
      BY <2>1, <2>3 DEF TypeOK, Inserted
    <3>. SUFFICES ASSUME NEW i \in IP PROVE SourceCovered(i)' /\ DestCovered(i)'
      BY DEF RulesSuffice, SourceCovered, DestCovered, Covered
    <3>2. src[i] \in Nat /\ dst[i] \in Nat /\ src'[i] = src[i]
      BY <2>1 DEF TypeOK
    <3>3. SourceCovered(i) /\ DestCovered(i)
      BY RulesSufficeCovered
    <3>4. /\ SourceReleases(i)' \subseteq SourceReleases(i)
          /\ DestReleases(i)' \subseteq DestReleases(i)
          /\ SourceSessions(i)' \subseteq SourceSessions(i)
      BY <2>1 DEF SourceReleases, DestReleases, SourceSessions
    <3>5. SourceCovered(i)'
      BY <3>2, <3>3, <3>4, CoveredKept, CountsAreNaturals DEF SourceCovered
    <3>6. CASE i = ip
      <4>1. DestSessions(i)' \subseteq DestSessions(i) \cup {s}
        BY <2>1 DEF DestSessions
      <4>2. dst'[i] = dst[i] + 1
        BY <3>1, <3>6
      <4>3. Covered(dst[i] + 1, DestSessions(i)', DestReleases(i)')
        BY <3>2, <3>3, <3>4, <4>1, CoveredGrows, CountsAreNaturals DEF DestCovered
      <4>. QED BY <3>5, <4>2, <4>3 DEF DestCovered
    <3>7. CASE i # ip
      <4>1. DestSessions(i)' \subseteq DestSessions(i)
        BY <2>1, <3>7 DEF DestSessions
      <4>2. dst'[i] = dst[i]
        BY <3>1, <3>7
      <4>. QED
        BY <3>2, <3>3, <3>4, <3>5, <4>1, <4>2, CoveredKept, CountsAreNaturals
        DEF DestCovered
    <3>. QED BY <3>6, <3>7
  <2>4. CASE call' = [call EXCEPT ![s].phase = "undo"] /\ UNCHANGED dst
    <3>1. call'[s].phase = "undo"
      BY <2>4 DEF TypeOK, CallState
    <3>. QED BY <2>1, <2>2, <2>4, <3>1, SessionOwesNoMore
  <2>. QED BY <1>3, <2>3, <2>4 DEF blockDest
<1>4. ASSUME NEW s \in Session, undoSource(s) PROVE RulesSuffice'
  <2>. DEFINE ip == call[s].ip
  <2>1. /\ call[s].phase = "undo" /\ ip \in IP
        /\ UNCHANGED <<isolations, release, dst>>
        /\ \A t \in Session \ {s} : call'[t] = call[t]
        /\ call'[s].phase = "free"
    BY <1>4 DEF undoSource, TypeOK, MapMatchesSessions, Addressed, Free
  <2>2. \A i \in IP : isolations[i] # s
    BY <1>0, <2>1 DEF Running
  <2>3. /\ src'[ip] >= src[ip] - 1 /\ \A i \in IP \ {ip} : src'[i] = src[i]
    BY <1>4, <2>1, DeleteOutcomeLoses DEF undoSource, TypeOK
  <2>. SUFFICES ASSUME NEW i \in IP PROVE SourceCovered(i)' /\ DestCovered(i)'
    BY DEF RulesSuffice, SourceCovered, DestCovered, Covered
  <2>4. /\ src[i] \in Nat /\ src'[i] \in Nat /\ dst[i] \in Nat /\ dst'[i] = dst[i]
        /\ SourceCovered(i) /\ DestCovered(i)
    BY <2>1, RulesSufficeCovered DEF TypeOK
  <2>5. /\ SourceReleases(i)' \subseteq SourceReleases(i)
        /\ DestReleases(i)' \subseteq DestReleases(i)
        /\ DestSessions(i)' \subseteq DestSessions(i)
        /\ SourceSessions(i)' \subseteq SourceSessions(i) \ {s}
    BY <2>1, <2>2 DEF SourceReleases, DestReleases, DestSessions, SourceSessions
  <2>6. DestCovered(i)'
    BY <2>4, <2>5, CoveredKept, CountsAreNaturals DEF DestCovered
  <2>7. CASE i = ip
    <3>1. s \in SourceSessions(i)
      BY <2>1, <2>7 DEF SourceSessions
    <3>. QED
      BY <2>3, <2>4, <2>5, <2>6, <2>7, <3>1, CoveredShrinks, CountsAreNaturals
      DEF SourceCovered
  <2>8. CASE i # ip
    <3>1. src'[i] = src[i] /\ SourceSessions(i)' \subseteq SourceSessions(i)
      BY <2>3, <2>5, <2>8
    <3>. QED
      BY <2>4, <2>5, <2>6, <3>1, CoveredKept, CountsAreNaturals DEF SourceCovered
  <2>. QED BY <2>7, <2>8
<1>5. ASSUME NEW s \in Session, blockMAC(s) PROVE RulesSuffice'
  <2>1. /\ UNCHANGED <<isolations, release, src, dst>> /\ call[s].phase = "v6"
        /\ call'[s].phase = "publish" /\ call'[s].ip = call[s].ip
        /\ \A t \in Session \ {s} : call'[t] = call[t]
    BY <1>5 DEF blockMAC, TypeOK, CallState
  <2>. QED BY <2>1, SessionOwesNoMore
<1>6. ASSUME NEW s \in Session, publish(s) PROVE RulesSuffice'
  <2>. DEFINE ip == call[s].ip
  <2>1. /\ UNCHANGED <<release, src, dst>> /\ call[s].phase = "publish" /\ ip \in IP
        /\ isolations' = [isolations EXCEPT ![ip] = s]
        /\ call'[s].phase = "start" /\ call'[s].ip = ip
        /\ \A t \in Session \ {s} : call'[t] = call[t]
    BY <1>6 DEF publish, TypeOK, CallState, MapMatchesSessions, Addressed, kernel
  <2>2. /\ isolations'[ip] = s
        /\ \A i \in IP \ {ip} : isolations'[i] = isolations[i]
    BY <2>1 DEF TypeOK
  <2>3. ASSUME NEW i \in IP
        PROVE  /\ SourceSessions(i)' \subseteq SourceSessions(i)
               /\ DestSessions(i)' \subseteq DestSessions(i)
    BY <2>1, <2>2 DEF SourceSessions, DestSessions
  <2>4. \A i \in IP : /\ SourceReleases(i)' \subseteq SourceReleases(i)
                      /\ DestReleases(i)' \subseteq DestReleases(i)
    BY <2>1 DEF SourceReleases, DestReleases
  <2>. QED BY <2>1, <2>3, <2>4, NothingMoreOwed
<1>7. ASSUME NEW s \in Session, spoofRound(s) PROVE RulesSuffice'
  <2>1. /\ UNCHANGED <<isolations, release, src, dst>>
        /\ call'[s].phase = "spoof" /\ call'[s].ip = call[s].ip
        /\ \A t \in Session \ {s} : call'[t] = call[t]
    BY <1>7 DEF spoofRound, TypeOK, CallState, Running, kernel
  <2>. QED BY <2>1, SessionOwesNoMore
<1>8. ASSUME NEW s \in Session, stopSpoofing(s) PROVE RulesSuffice'
  <2>1. /\ UNCHANGED <<isolations, release, src, dst>>
        /\ call'[s] = [call[s] EXCEPT !.phase = "restore", !.rounds = RestoreRounds]
        /\ \A t \in Session \ {s} : call'[t] = call[t]
        /\ call[s] \in CallState
    BY <1>8 DEF stopSpoofing, TypeOK, kernel
  <2>2. call'[s].phase = "restore" /\ call'[s].ip = call[s].ip
    BY <2>1 DEF CallState
  <2>. QED BY <2>1, <2>2, SessionOwesNoMore
<1>9. ASSUME NEW s \in Session, restoreARP(s) PROVE RulesSuffice'
  <2>1. /\ UNCHANGED <<isolations, release, src, dst>> /\ call[s].phase = "restore"
        /\ call'[s].phase \in {"restore", "free"}
        /\ \A t \in Session \ {s} : call'[t] = call[t]
    BY <1>9 DEF restoreARP, TypeOK, CallState, Free, kernel
  <2>2. \A i \in IP : isolations[i] # s
    BY <1>0, <2>1 DEF Running
  <2>. QED BY <2>1, <2>2, SessionOwesNoMore
<1>10. ASSUME NEW s \in Session, deadlinePasses(s) PROVE RulesSuffice'
  <2>1. /\ UNCHANGED <<isolations, release, src, dst>>
        /\ call'[s].phase = call[s].phase /\ call'[s].ip = call[s].ip
        /\ \A t \in Session \ {s} : call'[t] = call[t]
    BY <1>10 DEF deadlinePasses, TypeOK, CallState, kernel
  <2>. QED BY <2>1, SessionOwesNoMore
<1>11. ASSUME NEW u \in User, NEW ip \in IP, reconnectDevice(u, ip) PROVE RulesSuffice'
  BY <1>11, TakeSuffices DEF reconnectDevice, Reconnector, kernel
<1>12. ASSUME NEW r \in Reconnector, cancel(r) PROVE RulesSuffice'
  <2>. DEFINE s == release[r].session
  <2>1. /\ UNCHANGED <<isolations, src, dst>> /\ release[r].phase = "cancel"
        /\ s \in Session
    BY <1>12 DEF cancel, kernel, MapMatchesSessions, ReleasesOwn
  <2>2. \A t \in Session : call'[t].phase = call[t].phase /\ call'[t].ip = call[t].ip
    BY <1>12, <2>1 DEF cancel, TypeOK, CallState
  <2>3. /\ release'[r].phase = "src" /\ release'[r].ip = release[r].ip
        /\ \A q \in Reconnector \ {r} : release'[q] = release[q]
    BY <1>12 DEF cancel, TypeOK, ReleaseState
  <2>4. ASSUME NEW i \in IP
        PROVE  /\ SourceSessions(i)' \subseteq SourceSessions(i)
               /\ DestSessions(i)' \subseteq DestSessions(i)
               /\ SourceReleases(i)' \subseteq SourceReleases(i)
               /\ DestReleases(i)' \subseteq DestReleases(i)
    BY <2>1, <2>2, <2>3 DEF SourceSessions, DestSessions, SourceReleases, DestReleases
  <2>. QED BY <2>1, <2>4, NothingMoreOwed
<1>13. ASSUME NEW r \in Reconnector, unblockSource(r) PROVE RulesSuffice'
  <2>. DEFINE ip == release[r].ip
  <2>1. /\ UNCHANGED <<isolations, call, dst>> /\ release[r].phase = "src" /\ ip \in IP
        /\ release'[r].phase = "dst" /\ release'[r].ip = ip
        /\ \A q \in Reconnector \ {r} : release'[q] = release[q]
    BY <1>13 DEF unblockSource, TypeOK, ReleaseState, MapMatchesSessions, Addressed
  <2>2. src'[ip] >= src[ip] - 1 /\ \A i \in IP \ {ip} : src'[i] = src[i]
    BY <1>13, <2>1, DeleteOutcomeLoses DEF unblockSource, TypeOK
  <2>. SUFFICES ASSUME NEW i \in IP PROVE SourceCovered(i)' /\ DestCovered(i)'
    BY DEF RulesSuffice, SourceCovered, DestCovered, Covered
  <2>3. /\ src[i] \in Nat /\ src'[i] \in Nat /\ dst[i] \in Nat /\ dst'[i] = dst[i]
        /\ SourceCovered(i) /\ DestCovered(i)
    BY <2>1, RulesSufficeCovered DEF TypeOK
  <2>4. /\ SourceReleases(i)' \subseteq SourceReleases(i) \ {r}
        /\ DestReleases(i)' \subseteq DestReleases(i)
        /\ DestSessions(i)' \subseteq DestSessions(i)
        /\ SourceSessions(i)' \subseteq SourceSessions(i)
    BY <2>1 DEF SourceReleases, DestReleases, DestSessions, SourceSessions
  <2>5. DestCovered(i)'
    BY <2>3, <2>4, CoveredKept, CountsAreNaturals DEF DestCovered
  <2>6. CASE i = ip
    <3>1. r \in SourceReleases(i) /\ src'[i] >= src[i] - 1
      BY <2>1, <2>2, <2>6 DEF SourceReleases
    <3>2. /\ Covered(src[i], SourceSessions(i), SourceReleases(i))
          /\ IsFiniteSet(SourceSessions(i)) /\ IsFiniteSet(SourceReleases(i))
      BY <2>3, CountsAreNaturals DEF SourceCovered
    <3>3. Covered(src'[i], SourceSessions(i)', SourceReleases(i)')
      BY <2>3, <2>4, <3>1, <3>2, CoveredRepaid
    <3>. QED BY <2>5, <3>3 DEF SourceCovered
  <2>7. CASE i # ip
    <3>1. src'[i] = src[i] /\ SourceReleases(i)' \subseteq SourceReleases(i)
      BY <2>2, <2>4, <2>7
    <3>. QED
      BY <2>3, <2>4, <2>5, <3>1, CoveredKept, CountsAreNaturals DEF SourceCovered
  <2>. QED BY <2>6, <2>7
<1>14. ASSUME NEW r \in Reconnector, unblockDest(r) PROVE RulesSuffice'
  <2>. DEFINE ip == release[r].ip
  <2>1. /\ UNCHANGED <<isolations, call, src>> /\ release[r].phase = "dst" /\ ip \in IP
        /\ release'[r].phase = "v6" /\ release'[r].ip = ip
        /\ \A q \in Reconnector \ {r} : release'[q] = release[q]
    BY <1>14 DEF unblockDest, TypeOK, ReleaseState, MapMatchesSessions, Addressed
  <2>2. dst'[ip] >= dst[ip] - 1 /\ \A i \in IP \ {ip} : dst'[i] = dst[i]
    BY <1>14, <2>1, DeleteOutcomeLoses DEF unblockDest, TypeOK
  <2>. SUFFICES ASSUME NEW i \in IP PROVE SourceCovered(i)' /\ DestCovered(i)'
    BY DEF RulesSuffice, SourceCovered, DestCovered, Covered
  <2>3. /\ src[i] \in Nat /\ src'[i] = src[i] /\ dst[i] \in Nat /\ dst'[i] \in Nat
        /\ SourceCovered(i) /\ DestCovered(i)
    BY <2>1, RulesSufficeCovered DEF TypeOK
  <2>4. /\ SourceReleases(i)' \subseteq SourceReleases(i)
        /\ DestReleases(i)' \subseteq DestReleases(i) \ {r}
        /\ DestSessions(i)' \subseteq DestSessions(i)
        /\ SourceSessions(i)' \subseteq SourceSessions(i)
    BY <2>1 DEF SourceReleases, DestReleases, DestSessions, SourceSessions
  <2>5. SourceCovered(i)'
    BY <2>3, <2>4, CoveredKept, CountsAreNaturals DEF SourceCovered
  <2>6. CASE i = ip
    <3>1. r \in DestReleases(i) /\ dst'[i] >= dst[i] - 1
      BY <2>1, <2>2, <2>6 DEF DestReleases
    <3>2. /\ Covered(dst[i], DestSessions(i), DestReleases(i))
          /\ IsFiniteSet(DestSessions(i)) /\ IsFiniteSet(DestReleases(i))
      BY <2>3, CountsAreNaturals DEF DestCovered
    <3>3. Covered(dst'[i], DestSessions(i)', DestReleases(i)')
      BY <2>3, <2>4, <3>1, <3>2, CoveredRepaid
    <3>. QED BY <2>5, <3>3 DEF DestCovered
  <2>7. CASE i # ip
    <3>1. dst'[i] = dst[i] /\ DestReleases(i)' \subseteq DestReleases(i)
      BY <2>2, <2>4, <2>7
    <3>. QED
      BY <2>3, <2>4, <2>5, <3>1, CoveredKept, CountsAreNaturals DEF DestCovered
  <2>. QED BY <2>6, <2>7
<1>15. ASSUME NEW r \in Reconnector, unblockMAC(r) PROVE RulesSuffice'
  <2>1. /\ UNCHANGED <<isolations, call, src, dst>>
        /\ release'[r].phase = "idle"
        /\ \A q \in Reconnector \ {r} : release'[q] = release[q]
    BY <1>15 DEF unblockMAC, TypeOK, Idle
  <2>2. ASSUME NEW i \in IP
        PROVE  /\ SourceSessions(i)' \subseteq SourceSessions(i)
               /\ DestSessions(i)' \subseteq DestSessions(i)
               /\ SourceReleases(i)' \subseteq SourceReleases(i)
               /\ DestReleases(i)' \subseteq DestReleases(i)
    BY <2>1 DEF SourceSessions, DestSessions, SourceReleases, DestReleases
  <2>. QED BY <2>1, <2>2, NothingMoreOwed
<1>16. ASSUME UNCHANGED <<isolations, call, release, src, dst>> PROVE RulesSuffice'
  BY <1>16
  DEF RulesSuffice, SourceSessions, DestSessions, SourceReleases, DestReleases
<1>17. ASSUME NEW ip \in IP, reconnectExpired(ip) PROVE RulesSuffice'
  <2>1. CASE isolations[ip] # None /\ Take(Watcher, ip)
    BY <1>17, <2>1, TakeSuffices DEF reconnectExpired, Reconnector, kernel
  <2>2. CASE isolations[ip] = None /\ UNCHANGED <<isolations, release>>
    BY <1>16, <1>17, <2>2 DEF reconnectExpired, kernel
  <2>. QED BY <1>17, <2>1, <2>2 DEF reconnectExpired
<1>18. CASE startProgram
  <2>1. /\ \A ip \in IP : isolations'[ip] = None
        /\ \A s \in Session : call'[s].phase = "free"
        /\ \A r \in Reconnector : release'[r].phase = "idle"
    BY <1>18 DEF startProgram, MapMatchesSessions, DeadIsEmpty, Free, Idle
  <2>. QED BY <2>1, NobodyRelies
<1>19. CASE crash
  <2>1. /\ \A ip \in IP : isolations'[ip] = None
        /\ \A s \in Session : call'[s].phase = "free"
        /\ \A r \in Reconnector : release'[r].phase = "idle"
    BY <1>19 DEF crash, Free, Idle
  <2>. QED BY <2>1, NobodyRelies
<1>20. CASE startSecondInstance \/ flushRules
  BY <1>20 DEF NobodyElse, startSecondInstance, flushRules
<1>21. CASE collectExpired \/ UNCHANGED vars
  BY <1>16, <1>21 DEF collectExpired, vars, kernel
<1>22. ASSUME NEW ip \in IP, arpAges(ip) PROVE RulesSuffice'
  BY <1>16, <1>22 DEF arpAges, kernel
<1>. QED
  BY <1>1, <1>2, <1>3, <1>4, <1>5, <1>6, <1>7, <1>8, <1>9, <1>10, <1>11, <1>12,
     <1>13, <1>14, <1>15, <1>17, <1>18, <1>19, <1>20, <1>21, <1>22
  DEF Next, SessionStep, blockStep, unblockStep, watcherStep, EnvironmentStep

-----------------------------------------------------------------------------
(* Theorems about the block *)

\* As long as only this program writes the FORWARD chain, its bookkeeping and
\* the count of rules survive every interleaving of any number of orders,
\* reconnections and deadlines, and every failing command.
THEOREM BlockInvariant == ASSUME NobodyElse PROVE Spec => []BlockInv
<1>1. Init => BlockInv
  BY InitType, InitMap, InitRules DEF BlockInv
<1>2. BlockInv /\ [Next]_vars => BlockInv'
  BY NextType, NextMap, NextRules, NobodyElse DEF BlockInv
<1>. QED BY <1>1, <1>2, PTL DEF Spec

\* What the dashboard calls isolated is blocked in the kernel, in both directions.
THEOREM IsolationBlocks == ASSUME NobodyElse PROVE Spec => []IsolatedIsBlocked
<1>1. BlockInv => IsolatedIsBlocked
  <2>. SUFFICES ASSUME BlockInv, NEW ip \in IP, isolations[ip] # None
                PROVE  src[ip] > 0 /\ dst[ip] > 0
    BY DEF IsolatedIsBlocked
  <2>. DEFINE s == isolations[ip]
  <2>1. s \in SourceSessions(ip) /\ s \in DestSessions(ip)
    BY DEF BlockInv, TypeOK, MapMatchesSessions, MapNamesLive, SourceSessions, DestSessions
  <2>2. Cardinality(SourceSessions(ip)) > 0 /\ Cardinality(DestSessions(ip)) > 0
    BY <2>1, CountsAreNaturals, FS_EmptySet
  <2>3. src[ip] \in Nat /\ dst[ip] \in Nat
    BY DEF BlockInv, TypeOK
  <2>. QED BY <2>2, <2>3, CountsAreNaturals DEF BlockInv, RulesSuffice
<1>. QED BY <1>1, BlockInvariant, PTL

-----------------------------------------------------------------------------
(* The engine keeps the promise of Quarantine *)

\* Only the rules of one address change, and the map does not.
LEMMA ArmOrDisarm ==
  ASSUME IsolatedIsBlocked', NEW ip \in IP, UNCHANGED isolations,
         \A i \in IP \ {ip} : src'[i] = src[i] /\ dst'[i] = dst[i]
  PROVE  [Promise!Next]_<<held, blocked>>
<1>1. held' = held
  BY DEF held
<1>2. blocked' = blocked \/ blocked' = blocked \cup {ip} \/ blocked' = blocked \ {ip}
  BY DEF blocked
<1>3. CASE blocked' = blocked \cup {ip} /\ ip \notin blocked
  BY <1>1, <1>3 DEF Promise!Next, Promise!Arm
<1>4. CASE blocked' = blocked \ {ip} /\ ip \in blocked
  <2>1. ip \notin held
    BY <1>4 DEF IsolatedIsBlocked, held, blocked
  <2>. QED BY <1>1, <1>4, <2>1 DEF Promise!Next, Promise!Disarm
<1>5. CASE blocked' = blocked
  BY <1>1, <1>5
<1>. QED BY <1>2, <1>3, <1>4, <1>5

\* Taking an entry out of the map is the abstract release of that device.
LEMMA ReleaseIsPromised ==
  ASSUME TypeOK, NEW r \in Reconnector, NEW ip \in IP, isolations[ip] # None,
         Take(r, ip), UNCHANGED <<src, dst>>
  PROVE  [Promise!Next]_<<held, blocked>>
<1>1. held' = held \ {ip} /\ ip \in held
  BY DEF Take, TypeOK, held
<1>2. blocked' = blocked
  BY DEF blocked
<1>. QED BY <1>1, <1>2 DEF Promise!Next, Promise!Release

\* Every step of the engine is a step of Quarantine, or changes nothing it shows.
LEMMA StepIsPromised ==
  TypeOK /\ MapMatchesSessions /\ IsolatedIsBlocked' /\ NobodyElse /\ [Next]_vars
    => [Promise!Next]_<<held, blocked>>
<1>. SUFFICES ASSUME TypeOK, MapMatchesSessions, IsolatedIsBlocked', NobodyElse, [Next]_vars
              PROVE  [Promise!Next]_<<held, blocked>>
  OBVIOUS
<1>1. ASSUME UNCHANGED <<isolations, src, dst>> PROVE [Promise!Next]_<<held, blocked>>
  BY <1>1 DEF held, blocked
<1>2. ASSUME NEW s \in Session, blockSource(s) PROVE [Promise!Next]_<<held, blocked>>
  <2>1. /\ call[s].ip \in IP /\ UNCHANGED <<isolations, dst>>
        /\ \A i \in IP \ {call[s].ip} : src'[i] = src[i]
    BY <1>2 DEF blockSource, Inserted, TypeOK, MapMatchesSessions, Addressed
  <2>. QED BY <2>1, ArmOrDisarm
<1>3. ASSUME NEW s \in Session, blockDest(s) PROVE [Promise!Next]_<<held, blocked>>
  <2>1. /\ call[s].ip \in IP /\ UNCHANGED <<isolations, src>>
        /\ \A i \in IP \ {call[s].ip} : dst'[i] = dst[i]
    BY <1>3 DEF blockDest, Inserted, TypeOK, MapMatchesSessions, Addressed
  <2>. QED BY <2>1, ArmOrDisarm
<1>4. ASSUME NEW s \in Session, undoSource(s) PROVE [Promise!Next]_<<held, blocked>>
  <2>1. /\ call[s].ip \in IP /\ UNCHANGED <<isolations, dst>>
    BY <1>4 DEF undoSource, MapMatchesSessions, Addressed
  <2>2. \A i \in IP \ {call[s].ip} : src'[i] = src[i]
    BY <1>4, <2>1, DeleteOutcomeLoses DEF undoSource, TypeOK
  <2>. QED BY <2>1, <2>2, ArmOrDisarm
<1>5. ASSUME NEW s \in Session, publish(s) PROVE [Promise!Next]_<<held, blocked>>
  <2>. DEFINE ip == call[s].ip
  <2>1. /\ ip \in IP /\ UNCHANGED <<src, dst>>
        /\ isolations' = [isolations EXCEPT ![ip] = s]
    BY <1>5 DEF publish, kernel, MapMatchesSessions, Addressed
  <2>2. /\ held' = held \cup {ip} /\ isolations'[ip] # None
        /\ blocked' = blocked
    BY <2>1, AddressAssumption DEF held, blocked, TypeOK
  <2>3. ip \in blocked
    BY <2>1, <2>2 DEF IsolatedIsBlocked, blocked
  <2>. QED BY <2>1, <2>2, <2>3 DEF Promise!Next, Promise!Hold
<1>6. ASSUME NEW u \in User, NEW ip \in IP, reconnectDevice(u, ip)
      PROVE  [Promise!Next]_<<held, blocked>>
  BY <1>6, ReleaseIsPromised DEF reconnectDevice, Reconnector, kernel
<1>7. ASSUME NEW ip \in IP, reconnectExpired(ip) PROVE [Promise!Next]_<<held, blocked>>
  BY <1>1, <1>7, ReleaseIsPromised DEF reconnectExpired, Reconnector, kernel
<1>8. ASSUME NEW r \in Reconnector, unblockSource(r) PROVE [Promise!Next]_<<held, blocked>>
  <2>1. /\ release[r].ip \in IP /\ UNCHANGED <<isolations, dst>>
    BY <1>8 DEF unblockSource, MapMatchesSessions, Addressed
  <2>2. \A i \in IP \ {release[r].ip} : src'[i] = src[i]
    BY <1>8, <2>1, DeleteOutcomeLoses DEF unblockSource, TypeOK
  <2>. QED BY <2>1, <2>2, ArmOrDisarm
<1>9. ASSUME NEW r \in Reconnector, unblockDest(r) PROVE [Promise!Next]_<<held, blocked>>
  <2>1. /\ release[r].ip \in IP /\ UNCHANGED <<isolations, src>>
    BY <1>9 DEF unblockDest, MapMatchesSessions, Addressed
  <2>2. \A i \in IP \ {release[r].ip} : dst'[i] = dst[i]
    BY <1>9, <2>1, DeleteOutcomeLoses DEF unblockDest, TypeOK
  <2>. QED BY <2>1, <2>2, ArmOrDisarm
<1>10. CASE startProgram
  <2>1. held = {} /\ held' = {}
    BY <1>10 DEF startProgram, MapMatchesSessions, DeadIsEmpty, held
  <2>2. \A ip \in IP : src'[ip] <= src[ip] /\ dst'[ip] <= dst[ip]
    BY <1>10, RemainingType DEF startProgram, cleanOrphanRules, TypeOK
  <2>3. \A ip \in IP : {src[ip], src'[ip], dst[ip], dst'[ip]} \subseteq Nat
    BY <1>10, RemainingType DEF startProgram, cleanOrphanRules, TypeOK
  <2>4. blocked' \subseteq blocked
    BY <2>2, <2>3 DEF blocked
  <2>. QED BY <2>1, <2>4 DEF Promise!Next, Promise!Startup
<1>11. CASE crash
  <2>1. held' = {} /\ blocked' = blocked
    BY <1>11 DEF crash, held, blocked, kernel
  <2>. QED BY <2>1 DEF Promise!Next, Promise!Crash
<1>12. CASE startSecondInstance \/ flushRules
  BY <1>12 DEF NobodyElse, startSecondInstance, flushRules
<1>13. ASSUME NEW s \in Session,
              \/ \E ip \in IP, mac \in MAC, timed \in BOOLEAN : isolateDevice(s, ip, mac, timed)
              \/ blockMAC(s) \/ spoofRound(s) \/ stopSpoofing(s) \/ restoreARP(s)
              \/ deadlinePasses(s)
       PROVE  UNCHANGED <<isolations, src, dst>>
  BY <1>13 DEF isolateDevice, blockMAC, spoofRound, stopSpoofing, restoreARP, deadlinePasses,
               kernel
<1>14. ASSUME NEW r \in Reconnector, cancel(r) \/ unblockMAC(r)
       PROVE  UNCHANGED <<isolations, src, dst>>
  BY <1>14 DEF cancel, unblockMAC, kernel
<1>15. CASE collectExpired \/ UNCHANGED vars
  BY <1>1, <1>15 DEF collectExpired, vars, kernel
<1>16. ASSUME NEW ip \in IP, arpAges(ip) PROVE UNCHANGED <<isolations, src, dst>>
  BY <1>16 DEF arpAges, kernel
<1>. QED
  BY <1>1, <1>2, <1>3, <1>4, <1>5, <1>6, <1>7, <1>8, <1>9, <1>10, <1>11, <1>12, <1>13,
     <1>14, <1>15, <1>16
  DEF Next, SessionStep, blockStep, unblockStep, watcherStep, EnvironmentStep

\* The engine implements Quarantine: a device is blocked before it is shown as
\* isolated, and shown as released before its block goes.
THEOREM PromiseKept == ASSUME NobodyElse PROVE Spec => KeepsPromise
<1>1. Init => Promise!Init
  BY DEF Init, Promise!Init, held, blocked
<1>2. BlockInv /\ IsolatedIsBlocked' /\ [Next]_vars => [Promise!Next]_<<held, blocked>>
  BY StepIsPromised, NobodyElse DEF BlockInv
<1>. QED
  BY <1>1, <1>2, BlockInvariant, IsolationBlocks, PTL DEF Spec, KeepsPromise, Promise!Spec

-----------------------------------------------------------------------------
(* The gateway and this machine *)

\* No session is ever about a protected address.
ProtectInv ==
  /\ \A ip \in {GatewayIP, OwnIP} : src[ip] = 0 /\ dst[ip] = 0 /\ forged[ip] = {}
  /\ \A mac \in {GatewayMAC, OwnMAC} : v6[mac] = 0
  /\ \A s \in Session : call[s].phase # "free" => ~ forbiddenTarget(call[s].ip, call[s].mac)

\* No step puts a rule, a forged entry or an isolation on a protected device.
LEMMA NextProtect == TypeOK /\ TypeOK' /\ ProtectInv /\ [Next]_vars => ProtectInv'
<1>. SUFFICES ASSUME TypeOK, TypeOK', ProtectInv, [Next]_vars PROVE ProtectInv'
  OBVIOUS
<1>. USE AddressAssumption
<1>1. ASSUME NEW s \in Session, UNCHANGED <<src, dst, v6, forged>>,
             \A t \in Session \ {s} : call'[t] = call[t],
             call'[s].phase # "free" => ~ forbiddenTarget(call'[s].ip, call'[s].mac)
      PROVE  ProtectInv'
  BY <1>1 DEF ProtectInv, forbiddenTarget
<1>2. ASSUME NEW s \in Session, call[s].phase # "free"
      PROVE  call[s].ip \notin {GatewayIP, OwnIP} /\ call[s].mac \notin {GatewayMAC, OwnMAC}
  BY <1>2 DEF ProtectInv, forbiddenTarget
<1>3. ASSUME NEW s \in Session, call[s].phase # "free",
             \A t \in Session \ {s} : call'[t] = call[t],
             \/ call'[s] = Free
             \/ call'[s].ip = call[s].ip /\ call'[s].mac = call[s].mac
      PROVE  \A t \in Session :
               call'[t].phase # "free" => ~ forbiddenTarget(call'[t].ip, call'[t].mac)
  BY <1>3 DEF ProtectInv, forbiddenTarget, Free
<1>4. ASSUME NEW s \in Session, NEW ip \in IP, NEW mac \in MAC, NEW timed \in BOOLEAN,
             isolateDevice(s, ip, mac, timed)
      PROVE  ProtectInv'
  <2>1. /\ call'[s].ip = ip /\ call'[s].mac = mac /\ ~ forbiddenTarget(ip, mac)
        /\ \A t \in Session \ {s} : call'[t] = call[t]
        /\ UNCHANGED <<src, dst, v6, forged>>
    BY <1>4 DEF isolateDevice, Free, TypeOK, kernel
  <2>. QED BY <1>1, <2>1 DEF forbiddenTarget
<1>5. ASSUME NEW s \in Session, blockSource(s) PROVE ProtectInv'
  <2>1. /\ call[s].phase # "free" /\ \A t \in Session \ {s} : call'[t] = call[t]
        /\ UNCHANGED <<dst, v6, forged>>
        /\ src' = Inserted(src, call[s].ip) \/ UNCHANGED src
    BY <1>5 DEF blockSource, TypeOK
  <2>2. \/ call'[s] = Free
        \/ call'[s].ip = call[s].ip /\ call'[s].mac = call[s].mac
    BY <1>5 DEF blockSource, TypeOK, CallState
  <2>. QED BY <1>2, <1>3, <2>1, <2>2 DEF ProtectInv, Inserted, TypeOK
<1>6. ASSUME NEW s \in Session, blockDest(s) PROVE ProtectInv'
  <2>1. /\ call[s].phase # "free" /\ \A t \in Session \ {s} : call'[t] = call[t]
        /\ call'[s].ip = call[s].ip /\ call'[s].mac = call[s].mac
        /\ UNCHANGED <<src, v6, forged>>
        /\ dst' = Inserted(dst, call[s].ip) \/ UNCHANGED dst
    BY <1>6 DEF blockDest, TypeOK, CallState
  <2>. QED BY <1>2, <1>3, <2>1 DEF ProtectInv, Inserted, TypeOK
<1>7. ASSUME NEW s \in Session, blockMAC(s) PROVE ProtectInv'
  <2>1. /\ call[s].phase # "free" /\ \A t \in Session \ {s} : call'[t] = call[t]
        /\ call'[s].ip = call[s].ip /\ call'[s].mac = call[s].mac
        /\ UNCHANGED <<src, dst, forged>>
        /\ v6' = Inserted(v6, call[s].mac) \/ UNCHANGED v6
    BY <1>7 DEF blockMAC, TypeOK, CallState
  <2>. QED BY <1>2, <1>3, <2>1 DEF ProtectInv, Inserted, TypeOK
<1>8. ASSUME NEW K, NEW chain \in [K -> Nat], NEW k, NEW outcome \in DeleteOutcome(chain, k),
             NEW j \in K, chain[j] = 0
      PROVE  outcome[j] = 0
  BY <1>8 DEF DeleteOutcome, Deleted
<1>9. ASSUME NEW s \in Session, undoSource(s) PROVE ProtectInv'
  <2>1. /\ call[s].phase # "free" /\ \A t \in Session \ {s} : call'[t] = call[t]
        /\ call'[s] = Free
        /\ UNCHANGED <<dst, v6, forged>>
    BY <1>9 DEF undoSource, TypeOK
  <2>2. \A ip \in {GatewayIP, OwnIP} : src'[ip] = 0
    BY <1>8, <1>9 DEF undoSource, TypeOK, ProtectInv
  <2>. QED BY <1>3, <2>1, <2>2 DEF ProtectInv
<1>10. ASSUME NEW s \in Session, publish(s) PROVE ProtectInv'
  <2>1. /\ call[s].phase # "free" /\ \A t \in Session \ {s} : call'[t] = call[t]
        /\ call'[s].ip = call[s].ip /\ call'[s].mac = call[s].mac
        /\ UNCHANGED <<src, dst, v6, forged>>
    BY <1>10 DEF publish, TypeOK, CallState, kernel
  <2>. QED BY <1>3, <2>1 DEF ProtectInv
<1>11. ASSUME NEW s \in Session, spoofRound(s) PROVE ProtectInv'
  <2>1. /\ call[s].phase # "free" /\ \A t \in Session \ {s} : call'[t] = call[t]
        /\ call'[s].ip = call[s].ip /\ call'[s].mac = call[s].mac
        /\ UNCHANGED <<src, dst, v6>>
    BY <1>11 DEF spoofRound, TypeOK, CallState, Running, kernel
  <2>2. \A i \in IP : i # call[s].ip => forged'[i] = forged[i]
    BY <1>11 DEF spoofRound, TypeOK
  <2>. QED BY <1>2, <1>3, <2>1, <2>2 DEF ProtectInv
<1>12. ASSUME NEW s \in Session, stopSpoofing(s) PROVE ProtectInv'
  <2>1. /\ call[s].phase # "free" /\ \A t \in Session \ {s} : call'[t] = call[t]
        /\ call'[s] = [call[s] EXCEPT !.phase = "restore", !.rounds = RestoreRounds]
        /\ call[s] \in CallState
        /\ UNCHANGED <<src, dst, v6, forged>>
    BY <1>12 DEF stopSpoofing, TypeOK, kernel
  <2>2. call'[s].ip = call[s].ip /\ call'[s].mac = call[s].mac
    BY <2>1 DEF CallState
  <2>. QED BY <1>3, <2>1, <2>2 DEF ProtectInv
<1>13. ASSUME NEW s \in Session, restoreARP(s) PROVE ProtectInv'
  <2>1. /\ call[s].phase # "free" /\ \A t \in Session \ {s} : call'[t] = call[t]
        /\ UNCHANGED <<src, dst, v6>>
    BY <1>13 DEF restoreARP, TypeOK, kernel
  <2>3. \/ call'[s] = Free
        \/ call'[s].ip = call[s].ip /\ call'[s].mac = call[s].mac
    BY <1>13 DEF restoreARP, TypeOK, CallState
  <2>2. \A i \in IP : i # call[s].ip => forged'[i] = forged[i]
    BY <1>13 DEF restoreARP, TypeOK
  <2>. QED BY <1>2, <1>3, <2>1, <2>2, <2>3 DEF ProtectInv
<1>14. ASSUME NEW s \in Session, deadlinePasses(s) PROVE ProtectInv'
  <2>1. /\ \A t \in Session : /\ call'[t].phase = call[t].phase
                              /\ call'[t].ip = call[t].ip /\ call'[t].mac = call[t].mac
        /\ UNCHANGED <<src, dst, v6, forged>>
    BY <1>14 DEF deadlinePasses, TypeOK, CallState, kernel
  <2>. QED BY <2>1 DEF ProtectInv, forbiddenTarget
<1>15. ASSUME NEW r \in Reconnector, cancel(r) PROVE ProtectInv'
  <2>1. /\ \A t \in Session : /\ call'[t].phase = call[t].phase
                              /\ call'[t].ip = call[t].ip /\ call'[t].mac = call[t].mac
        /\ UNCHANGED <<src, dst, v6, forged>>
    BY <1>15 DEF cancel, TypeOK, CallState, kernel
  <2>. QED BY <2>1 DEF ProtectInv, forbiddenTarget
<1>16. ASSUME NEW r \in Reconnector, unblockSource(r) \/ unblockDest(r) \/ unblockMAC(r)
       PROVE  ProtectInv'
  <2>1. UNCHANGED <<call, forged>>
    BY <1>16 DEF unblockSource, unblockDest, unblockMAC
  <2>2. /\ UNCHANGED src \/ src' \in DeleteOutcome(src, release[r].ip)
        /\ UNCHANGED dst \/ dst' \in DeleteOutcome(dst, release[r].ip)
        /\ UNCHANGED v6 \/ v6' \in DeleteOutcome(v6, release[r].mac)
    BY <1>16 DEF unblockSource, unblockDest, unblockMAC
  <2>3. \A ip \in {GatewayIP, OwnIP} : src'[ip] = 0 /\ dst'[ip] = 0
    BY <1>8, <2>2 DEF TypeOK, ProtectInv
  <2>4. \A mac \in {GatewayMAC, OwnMAC} : v6'[mac] = 0
    BY <1>8, <2>2 DEF TypeOK, ProtectInv
  <2>. QED BY <2>1, <2>3, <2>4 DEF ProtectInv, forbiddenTarget
<1>17. ASSUME UNCHANGED <<call, src, dst, v6, forged>> PROVE ProtectInv'
  BY <1>17 DEF ProtectInv, forbiddenTarget
<1>18. CASE startProgram
  BY <1>18, RemainingType DEF startProgram, cleanOrphanRules, ProtectInv, TypeOK
<1>19. CASE startSecondInstance
  BY <1>19 DEF startSecondInstance, Deleted, ProtectInv, forbiddenTarget, TypeOK
<1>20. CASE crash
  BY <1>20 DEF crash, ProtectInv, kernel, Free
<1>21. CASE flushRules
  BY <1>21 DEF flushRules, ProtectInv, forbiddenTarget
<1>22. ASSUME NEW ip \in IP, arpAges(ip) PROVE ProtectInv'
  BY <1>22 DEF arpAges, ProtectInv, forbiddenTarget, kernel, TypeOK
<1>23. ASSUME NEW u \in User, NEW ip \in IP, reconnectDevice(u, ip) PROVE ProtectInv'
  BY <1>17, <1>23 DEF reconnectDevice, kernel
<1>24. ASSUME NEW ip \in IP, reconnectExpired(ip) PROVE ProtectInv'
  BY <1>17, <1>24 DEF reconnectExpired, kernel
<1>25. CASE collectExpired \/ UNCHANGED vars
  BY <1>17, <1>25 DEF collectExpired, vars, kernel
<1>. QED
  BY <1>4, <1>5, <1>6, <1>7, <1>9, <1>10, <1>11, <1>12, <1>13, <1>14, <1>15, <1>16,
     <1>18, <1>19, <1>20, <1>21, <1>22, <1>23, <1>24, <1>25
  DEF Next, SessionStep, blockStep, unblockStep, watcherStep, EnvironmentStep

\* Neither the gateway nor this machine is ever cut off, whatever fails, races
\* or is flushed from outside.
THEOREM ProtectedStayFree == Spec => []NeverContainsProtected
<1>1. Init => ProtectInv /\ MapMatchesSessions
  <2>1. Init => ProtectInv
    BY AddressAssumption DEF Init, ProtectInv, Free
  <2>. QED BY <2>1, InitMap
<1>2. TypeOK /\ TypeOK' /\ ProtectInv /\ MapMatchesSessions /\ [Next]_vars
        => ProtectInv' /\ MapMatchesSessions'
  BY NextMap, NextProtect
<1>3. TypeOK /\ ProtectInv /\ MapMatchesSessions => NeverContainsProtected
  <2>. SUFFICES ASSUME TypeOK, ProtectInv, MapMatchesSessions PROVE NeverContainsProtected
    OBVIOUS
  <2>1. ASSUME NEW ip \in IP, isolations[ip] # None
        PROVE  ~ forbiddenTarget(ip, call[isolations[ip]].mac)
    <3>1. /\ isolations[ip] \in Session /\ call[isolations[ip]].ip = ip
          /\ call[isolations[ip]].phase # "free"
      BY <2>1 DEF TypeOK, MapMatchesSessions, MapNamesLive, Running
    <3>. QED BY <3>1 DEF ProtectInv
  <2>. QED BY <2>1 DEF ProtectInv, NeverContainsProtected
<1>. QED BY <1>1, <1>2, <1>3, TypeCorrect, PTL DEF Spec

-----------------------------------------------------------------------------
(* A released device is free.  The other direction of the same count, for a   *)
(* program whose orders do not overlap and whose deletions do not fail; the   *)
(* chain may be flushed and another instance started.                         *)

Serial == MaxOrders = 1 /\ "delete" \notin Fault

\* The rules of one chain are no more than those who are to delete them.
Within(chain, sessions, releases) ==
  chain <= Cardinality(sessions) + Cardinality(releases)

SourceWithin(ip) == Within(src[ip], SourceSessions(ip), SourceReleases(ip))
DestWithin(ip) == Within(dst[ip], DestSessions(ip), DestReleases(ip))

\* A step that lets nobody off and inserts no rule.
LEMMA WithinKept ==
  ASSUME NEW c \in Nat, NEW S, NEW R, Within(c, S, R), NEW d \in Nat, d <= c,
         NEW T, NEW Q, IsFiniteSet(T), IsFiniteSet(Q), S \subseteq T, R \subseteq Q
  PROVE  Within(d, T, Q)
<1>1. /\ Cardinality(S) \in Nat /\ Cardinality(S) <= Cardinality(T)
      /\ Cardinality(R) \in Nat /\ Cardinality(R) <= Cardinality(Q)
  BY CountPart
<1>2. Cardinality(T) \in Nat /\ Cardinality(Q) \in Nat
  BY FS_CardinalityType
<1>. QED BY <1>1, <1>2 DEF Within

\* A step that inserts a rule for one new session.
LEMMA WithinGrows ==
  ASSUME NEW c \in Nat, NEW S, NEW R, Within(c, S, R),
         NEW T, NEW Q, IsFiniteSet(T), IsFiniteSet(Q), NEW x \in T,
         S \subseteq T \ {x}, R \subseteq Q
  PROVE  Within(c + 1, T, Q)
<1>1. /\ Cardinality(S) \in Nat /\ Cardinality(S) <= Cardinality(T) - 1
      /\ Cardinality(R) \in Nat /\ Cardinality(R) <= Cardinality(Q)
  BY CountPart, CountShrinks
<1>2. Cardinality(T) \in Nat /\ Cardinality(Q) \in Nat
  BY FS_CardinalityType
<1>. QED BY <1>1, <1>2 DEF Within

\* A step that deletes one rule, if there is one, for a session that leaves.
LEMMA WithinShrinks ==
  ASSUME NEW c \in Nat, NEW S, NEW R, Within(c, S, R), NEW d \in Nat, d = 0 \/ d = c - 1,
         NEW T, NEW Q, IsFiniteSet(T), IsFiniteSet(Q), NEW x \in S,
         S \subseteq T \cup {x}, R \subseteq Q
  PROVE  Within(d, T, Q)
<1>1. /\ Cardinality(S) \in Nat /\ Cardinality(S) <= Cardinality(T) + 1
      /\ Cardinality(R) \in Nat /\ Cardinality(R) <= Cardinality(Q)
  BY CountPart, CountGrows
<1>2. Cardinality(T) \in Nat /\ Cardinality(Q) \in Nat
  BY FS_CardinalityType
<1>. QED BY <1>1, <1>2 DEF Within

\* A step that deletes one rule, if there is one, for a reconnection.
LEMMA WithinRepaid ==
  ASSUME NEW c \in Nat, NEW S, NEW R, Within(c, S, R), NEW d \in Nat, d = 0 \/ d = c - 1,
         NEW T, NEW Q, IsFiniteSet(T), IsFiniteSet(Q), NEW x \in R,
         S \subseteq T, R \subseteq Q \cup {x}
  PROVE  Within(d, T, Q)
<1>1. /\ Cardinality(S) \in Nat /\ Cardinality(S) <= Cardinality(T)
      /\ Cardinality(R) \in Nat /\ Cardinality(R) <= Cardinality(Q) + 1
  BY CountPart, CountGrows
<1>2. Cardinality(T) \in Nat /\ Cardinality(Q) \in Nat
  BY FS_CardinalityType
<1>. QED BY <1>1, <1>2 DEF Within

\* A step that hands a rule over from a session to a reconnection.
LEMMA WithinMoves ==
  ASSUME NEW c \in Nat, NEW S, NEW R, Within(c, S, R),
         NEW T, NEW Q, IsFiniteSet(T), IsFiniteSet(Q), NEW x \in S, NEW y \in Q,
         S \subseteq T \cup {x}, R \subseteq Q \ {y}
  PROVE  Within(c, T, Q)
<1>1. /\ Cardinality(S) \in Nat /\ Cardinality(S) <= Cardinality(T) + 1
      /\ Cardinality(R) \in Nat /\ Cardinality(R) <= Cardinality(Q) - 1
  BY CountGrows, CountShrinks
<1>2. Cardinality(T) \in Nat /\ Cardinality(Q) \in Nat
  BY FS_CardinalityType
<1>. QED BY <1>1, <1>2 DEF Within

\* Those who rely on a rule after a step can be counted too.
LEMMA CountedAfter ==
  ASSUME NEW ip
  PROVE  /\ IsFiniteSet(SourceSessions(ip)') /\ IsFiniteSet(SourceReleases(ip)')
         /\ IsFiniteSet(DestSessions(ip)') /\ IsFiniteSet(DestReleases(ip)')
<1>1. /\ SourceSessions(ip)' \subseteq Session /\ DestSessions(ip)' \subseteq Session
      /\ SourceReleases(ip)' \subseteq Reconnector /\ DestReleases(ip)' \subseteq Reconnector
  BY DEF SourceSessions, DestSessions, SourceReleases, DestReleases
<1>. QED BY <1>1, Finite, FS_Subset

\* A -D that does not fail takes one rule of its own address, if there is one.
LEMMA DeleteTakes ==
  ASSUME Serial, NEW K, NEW chain \in [K -> Nat], NEW k \in K,
         NEW outcome \in DeleteOutcome(chain, k)
  PROVE  /\ outcome[k] = 0 \/ outcome[k] = chain[k] - 1
         /\ \A j \in K \ {k} : outcome[j] = chain[j]
BY DEF Serial, DeleteOutcome, Deleted

\* NoRuleTooMany, address by address and chain by chain.
LEMMA EachWithin ==
  ASSUME up, NoRuleTooMany, NEW ip \in IP
  PROVE  SourceWithin(ip) /\ DestWithin(ip)
BY DEF NoRuleTooMany, SourceWithin, DestWithin, Within

\* Whoever relied on a rule still does, and no rule came.
LEMMA StillOwed ==
  ASSUME TypeOK, TypeOK', NoRuleTooMany, up,
         \A ip \in IP : /\ SourceSessions(ip) \subseteq SourceSessions(ip)'
                        /\ DestSessions(ip) \subseteq DestSessions(ip)'
                        /\ SourceReleases(ip) \subseteq SourceReleases(ip)'
                        /\ DestReleases(ip) \subseteq DestReleases(ip)'
                        /\ src'[ip] <= src[ip] /\ dst'[ip] <= dst[ip]
  PROVE  NoRuleTooMany'
<1>. SUFFICES ASSUME NEW ip \in IP PROVE SourceWithin(ip)' /\ DestWithin(ip)'
  BY DEF NoRuleTooMany, SourceWithin, DestWithin, Within
<1>1. src[ip] \in Nat /\ src'[ip] \in Nat /\ dst[ip] \in Nat /\ dst'[ip] \in Nat
  BY DEF TypeOK
<1>2. SourceWithin(ip) /\ DestWithin(ip)
  BY EachWithin
<1>3. SourceWithin(ip)'
  BY <1>1, <1>2, WithinKept, CountedAfter DEF SourceWithin
<1>4. DestWithin(ip)'
  BY <1>1, <1>2, WithinKept, CountedAfter DEF DestWithin
<1>. QED BY <1>3, <1>4

\* Only one address is concerned, and its rules are within the count.
LEMMA OneAddress ==
  ASSUME NoRuleTooMany, up, NEW ip \in IP, SourceWithin(ip)', DestWithin(ip)',
         \A i \in IP \ {ip} : /\ SourceSessions(i)' = SourceSessions(i)
                              /\ DestSessions(i)' = DestSessions(i)
                              /\ SourceReleases(i)' = SourceReleases(i)
                              /\ DestReleases(i)' = DestReleases(i)
                              /\ src'[i] = src[i] /\ dst'[i] = dst[i]
  PROVE  NoRuleTooMany'
<1>. SUFFICES ASSUME NEW i \in IP \ {ip} PROVE SourceWithin(i)' /\ DestWithin(i)'
  BY DEF NoRuleTooMany, SourceWithin, DestWithin, Within
<1>1. SourceWithin(i) /\ DestWithin(i)
  BY EachWithin
<1>. QED BY <1>1 DEF SourceWithin, DestWithin

\* A session that leaves the map alone and keeps what it relied on.
LEMMA SessionOwesAsMuch ==
  ASSUME TypeOK, TypeOK', NoRuleTooMany, up, NEW s \in Session,
         UNCHANGED <<isolations, release, src, dst>>,
         \A t \in Session \ {s} : call'[t] = call[t],
         \/ call'[s].ip = call[s].ip
         \/ /\ \A ip \in IP : isolations[ip] # s
            /\ call[s].phase \notin {"dst", "undo", "v6", "publish"},
         call[s].phase \in {"dst", "undo", "v6", "publish"} =>
           call'[s].phase \in {"dst", "undo", "v6", "publish"},
         call[s].phase \in {"v6", "publish"} => call'[s].phase \in {"v6", "publish"}
  PROVE  NoRuleTooMany'
<1>1. ASSUME NEW ip \in IP
      PROVE  /\ SourceSessions(ip) \subseteq SourceSessions(ip)'
             /\ DestSessions(ip) \subseteq DestSessions(ip)'
  BY DEF SourceSessions, DestSessions
<1>2. \A ip \in IP : /\ SourceReleases(ip) \subseteq SourceReleases(ip)'
                     /\ DestReleases(ip) \subseteq DestReleases(ip)'
  BY DEF SourceReleases, DestReleases
<1>3. \A ip \in IP : src'[ip] <= src[ip] /\ dst'[ip] <= dst[ip]
  BY DEF TypeOK
<1>. QED BY <1>1, <1>2, <1>3, StillOwed

\* A reconnector takes an entry: it has the rules of the session from now on.
LEMMA TakeWithin ==
  ASSUME TypeOK, TypeOK', MapMatchesSessions, NoRuleTooMany,
         NEW r \in Reconnector, NEW ip \in IP,
         release[r] = Idle, isolations[ip] # None, Take(r, ip), UNCHANGED <<call, src, dst>>
  PROVE  NoRuleTooMany'
<1>. DEFINE s == isolations[ip]
<1>1. /\ s \in Session /\ call[s].ip = ip /\ call[s].phase \in Running /\ up
  BY UnderWayIsUp DEF TypeOK, MapMatchesSessions, MapNamesLive
<1>2. /\ isolations'[ip] = None
      /\ \A i \in IP \ {ip} : isolations'[i] = isolations[i]
      /\ release'[r].phase = "cancel" /\ release'[r].ip = ip
      /\ release[r].phase = "idle"
      /\ \A q \in Reconnector \ {r} : release'[q] = release[q]
  BY DEF Take, TypeOK, Idle
<1>3. src[ip] \in Nat /\ src'[ip] = src[ip] /\ dst[ip] \in Nat /\ dst'[ip] = dst[ip]
  BY DEF TypeOK
<1>4. SourceWithin(ip) /\ DestWithin(ip)
  BY <1>1, EachWithin
<1>5. /\ SourceSessions(ip) \subseteq SourceSessions(ip)' \cup {s}
      /\ DestSessions(ip) \subseteq DestSessions(ip)' \cup {s}
      /\ s \in SourceSessions(ip) /\ s \in DestSessions(ip)
  BY <1>1, <1>2, AddressAssumption DEF SourceSessions, DestSessions
<1>6. /\ SourceReleases(ip) \subseteq SourceReleases(ip)' \ {r} /\ r \in SourceReleases(ip)'
      /\ DestReleases(ip) \subseteq DestReleases(ip)' \ {r} /\ r \in DestReleases(ip)'
  BY <1>2 DEF SourceReleases, DestReleases
<1>7. SourceWithin(ip)'
  <2>1. Within(src[ip], SourceSessions(ip), SourceReleases(ip))
    BY <1>4 DEF SourceWithin
  <2>2. IsFiniteSet(SourceSessions(ip)') /\ IsFiniteSet(SourceReleases(ip)')
    BY CountedAfter
  <2>3. Within(src[ip], SourceSessions(ip)', SourceReleases(ip)')
    BY <1>3, <1>5, <1>6, <2>1, <2>2, WithinMoves
  <2>. QED BY <1>3, <2>3 DEF SourceWithin
<1>8. DestWithin(ip)'
  <2>1. Within(dst[ip], DestSessions(ip), DestReleases(ip))
    BY <1>4 DEF DestWithin
  <2>2. IsFiniteSet(DestSessions(ip)') /\ IsFiniteSet(DestReleases(ip)')
    BY CountedAfter
  <2>3. Within(dst[ip], DestSessions(ip)', DestReleases(ip)')
    BY <1>3, <1>5, <1>6, <2>1, <2>2, WithinMoves
  <2>. QED BY <1>3, <2>3 DEF DestWithin
<1>9. ASSUME NEW i \in IP \ {ip}
      PROVE  /\ SourceSessions(i)' = SourceSessions(i) /\ DestSessions(i)' = DestSessions(i)
             /\ SourceReleases(i)' = SourceReleases(i) /\ DestReleases(i)' = DestReleases(i)
  <2>1. SourceSessions(i)' = SourceSessions(i) /\ DestSessions(i)' = DestSessions(i)
    BY <1>2 DEF SourceSessions, DestSessions
  <2>2. SourceReleases(i)' = SourceReleases(i) /\ DestReleases(i)' = DestReleases(i)
    BY <1>2 DEF SourceReleases, DestReleases
  <2>. QED BY <2>1, <2>2
<1>. QED BY <1>1, <1>7, <1>8, <1>9, OneAddress

\* Every step leaves each rule somebody who is to delete it.
LEMMA NextWithin ==
  Serial /\ TypeOK /\ TypeOK' /\ NeverContainsProtected /\ MapMatchesSessions
      /\ NoRuleTooMany /\ OrdersAlone /\ [Next]_vars
    => NoRuleTooMany'
<1>. SUFFICES ASSUME Serial, TypeOK, TypeOK', NeverContainsProtected, MapMatchesSessions,
                     NoRuleTooMany, OrdersAlone, [Next]_vars
              PROVE  NoRuleTooMany'
  OBVIOUS
<1>. USE UnderWayIsUp
<1>0. ASSUME NEW s \in Session, call[s].phase \notin Running
      PROVE  \A ip \in IP : isolations[ip] # s
  BY <1>0, AddressAssumption DEF MapMatchesSessions, MapNamesLive
<1>1. ASSUME NEW s \in Session, NEW ip \in IP, NEW mac \in MAC, NEW timed \in BOOLEAN,
             isolateDevice(s, ip, mac, timed)
      PROVE  NoRuleTooMany'
  <2>1. /\ UNCHANGED <<isolations, release, src, dst>> /\ up /\ call[s].phase = "free"
        /\ \A t \in Session \ {s} : call'[t] = call[t]
    BY <1>1 DEF isolateDevice, Free, TypeOK, kernel
  <2>2. \A i \in IP : isolations[i] # s
    BY <1>0, <2>1 DEF Running
  <2>. QED BY <2>1, <2>2, SessionOwesAsMuch
<1>2. ASSUME NEW s \in Session, blockSource(s) PROVE NoRuleTooMany'
  <2>. PICK ip \in IP : ip = call[s].ip
    BY <1>2 DEF blockSource, MapMatchesSessions, Addressed
  <2>1. /\ call[s].phase = "src" /\ ip \in IP /\ up
        /\ UNCHANGED <<isolations, release, dst>>
        /\ \A t \in Session \ {s} : call'[t] = call[t]
    BY <1>2 DEF blockSource, TypeOK, MapMatchesSessions, Addressed
  <2>2. \A i \in IP : isolations[i] # s
    BY <1>0, <2>1 DEF Running
  <2>3. CASE src' = Inserted(src, ip) /\ call' = [call EXCEPT ![s].phase = "dst"]
    <3>1. call'[s].phase = "dst" /\ call'[s].ip = ip
      BY <2>3 DEF TypeOK, CallState
    <3>2. /\ src'[ip] = src[ip] + 1 /\ \A i \in IP \ {ip} : src'[i] = src[i]
          /\ src[ip] \in Nat /\ dst[ip] \in Nat
      BY <2>1, <2>3 DEF TypeOK, Inserted
    <3>3. /\ \A i \in IP : /\ SourceReleases(i)' = SourceReleases(i)
                           /\ DestReleases(i)' = DestReleases(i)
                           /\ DestSessions(i)' = DestSessions(i)
          /\ \A i \in IP \ {ip} : SourceSessions(i)' = SourceSessions(i)
          /\ s \in SourceSessions(ip)' /\ SourceSessions(ip) \subseteq SourceSessions(ip)' \ {s}
      <4>1. \A i \in IP : /\ SourceReleases(i)' = SourceReleases(i)
                          /\ DestReleases(i)' = DestReleases(i)
        BY <2>1 DEF SourceReleases, DestReleases
      <4>2. \A i \in IP : DestSessions(i)' = DestSessions(i)
        BY <2>1, <2>2, <3>1 DEF DestSessions
      <4>3. /\ \A i \in IP \ {ip} : SourceSessions(i)' = SourceSessions(i)
            /\ s \in SourceSessions(ip)' /\ SourceSessions(ip) \subseteq SourceSessions(ip)' \ {s}
        BY <2>1, <2>2, <3>1 DEF SourceSessions
      <4>. QED BY <4>1, <4>2, <4>3
    <3>4. SourceWithin(ip) /\ DestWithin(ip)
      BY <2>1, EachWithin
    <3>5. Within(src[ip] + 1, SourceSessions(ip)', SourceReleases(ip)')
      <4>1. Within(src[ip], SourceSessions(ip), SourceReleases(ip))
        BY <3>4 DEF SourceWithin
      <4>2. /\ IsFiniteSet(SourceSessions(ip)') /\ IsFiniteSet(SourceReleases(ip)')
            /\ SourceReleases(ip) \subseteq SourceReleases(ip)'
        BY <2>1, <3>3, CountedAfter
      <4>. QED BY <3>2, <3>3, <4>1, <4>2, WithinGrows
    <3>6. SourceWithin(ip)' /\ DestWithin(ip)'
      BY <2>1, <3>2, <3>3, <3>4, <3>5 DEF SourceWithin, DestWithin
    <3>. QED BY <2>1, <3>2, <3>3, <3>6, OneAddress
  <2>4. CASE call' = [call EXCEPT ![s] = Free] /\ UNCHANGED src
    BY <2>1, <2>2, <2>4, SessionOwesAsMuch
  <2>. QED BY <1>2, <2>3, <2>4 DEF blockSource
<1>3. ASSUME NEW s \in Session, blockDest(s) PROVE NoRuleTooMany'
  <2>. PICK ip \in IP : ip = call[s].ip
    BY <1>3 DEF blockDest, MapMatchesSessions, Addressed
  <2>1. /\ call[s].phase = "dst" /\ ip \in IP /\ up
        /\ UNCHANGED <<isolations, release, src>>
        /\ \A t \in Session \ {s} : call'[t] = call[t]
        /\ call'[s].ip = ip
    BY <1>3 DEF blockDest, TypeOK, MapMatchesSessions, Addressed, CallState
  <2>2. \A i \in IP : isolations[i] # s
    BY <1>0, <2>1 DEF Running
  <2>3. CASE dst' = Inserted(dst, ip) /\ call' = [call EXCEPT ![s].phase = "v6"]
    <3>1. call'[s].phase = "v6"
      BY <2>3 DEF TypeOK, CallState
    <3>2. /\ dst'[ip] = dst[ip] + 1 /\ \A i \in IP \ {ip} : dst'[i] = dst[i]
          /\ src[ip] \in Nat /\ dst[ip] \in Nat
      BY <2>1, <2>3 DEF TypeOK, Inserted
    <3>3. /\ \A i \in IP : /\ SourceReleases(i)' = SourceReleases(i)
                           /\ DestReleases(i)' = DestReleases(i)
                           /\ SourceSessions(i)' = SourceSessions(i)
          /\ \A i \in IP \ {ip} : DestSessions(i)' = DestSessions(i)
          /\ s \in DestSessions(ip)' /\ DestSessions(ip) \subseteq DestSessions(ip)' \ {s}
      <4>1. \A i \in IP : /\ SourceReleases(i)' = SourceReleases(i)
                          /\ DestReleases(i)' = DestReleases(i)
        BY <2>1 DEF SourceReleases, DestReleases
      <4>2. \A i \in IP : SourceSessions(i)' = SourceSessions(i)
        BY <2>1, <3>1 DEF SourceSessions
      <4>3. /\ \A i \in IP \ {ip} : DestSessions(i)' = DestSessions(i)
            /\ s \in DestSessions(ip)' /\ DestSessions(ip) \subseteq DestSessions(ip)' \ {s}
        BY <2>1, <2>2, <3>1 DEF DestSessions
      <4>. QED BY <4>1, <4>2, <4>3
    <3>4. SourceWithin(ip) /\ DestWithin(ip)
      BY <2>1, EachWithin
    <3>5. Within(dst[ip] + 1, DestSessions(ip)', DestReleases(ip)')
      <4>1. Within(dst[ip], DestSessions(ip), DestReleases(ip))
        BY <3>4 DEF DestWithin
      <4>2. /\ IsFiniteSet(DestSessions(ip)') /\ IsFiniteSet(DestReleases(ip)')
            /\ DestReleases(ip) \subseteq DestReleases(ip)'
        BY <2>1, <3>3, CountedAfter
      <4>. QED BY <3>2, <3>3, <4>1, <4>2, WithinGrows
    <3>6. SourceWithin(ip)' /\ DestWithin(ip)'
      BY <2>1, <3>2, <3>3, <3>4, <3>5 DEF SourceWithin, DestWithin
    <3>. QED BY <2>1, <3>2, <3>3, <3>6, OneAddress
  <2>4. CASE call' = [call EXCEPT ![s].phase = "undo"] /\ UNCHANGED dst
    <3>1. call'[s].phase = "undo"
      BY <2>4 DEF TypeOK, CallState
    <3>. QED BY <2>1, <2>2, <2>4, <3>1, SessionOwesAsMuch
  <2>. QED BY <1>3, <2>3, <2>4 DEF blockDest
<1>4. ASSUME NEW s \in Session, undoSource(s) PROVE NoRuleTooMany'
  <2>. PICK ip \in IP : ip = call[s].ip
    BY <1>4 DEF undoSource, MapMatchesSessions, Addressed
  <2>1. /\ call[s].phase = "undo" /\ ip \in IP /\ up
        /\ UNCHANGED <<isolations, release, dst>>
        /\ \A t \in Session \ {s} : call'[t] = call[t]
        /\ call'[s].phase = "free"
    BY <1>4 DEF undoSource, TypeOK, MapMatchesSessions, Addressed, Free
  <2>2. \A i \in IP : isolations[i] # s
    BY <1>0, <2>1 DEF Running
  <2>3. /\ src'[ip] = 0 \/ src'[ip] = src[ip] - 1
        /\ \A i \in IP \ {ip} : src'[i] = src[i]
        /\ src[ip] \in Nat /\ src'[ip] \in Nat /\ dst[ip] \in Nat
    BY <1>4, <2>1, DeleteTakes DEF undoSource, TypeOK
  <2>4. \A i \in IP : /\ SourceReleases(i)' = SourceReleases(i)
                      /\ DestReleases(i)' = DestReleases(i)
                      /\ DestSessions(i)' = DestSessions(i)
    <3>1. \A i \in IP : /\ SourceReleases(i)' = SourceReleases(i)
                        /\ DestReleases(i)' = DestReleases(i)
      BY <2>1 DEF SourceReleases, DestReleases
    <3>2. \A i \in IP : DestSessions(i)' = DestSessions(i)
      BY <2>1, <2>2 DEF DestSessions
    <3>. QED BY <3>1, <3>2
  <2>5. /\ \A i \in IP \ {ip} : SourceSessions(i)' = SourceSessions(i)
        /\ SourceSessions(ip) \subseteq SourceSessions(ip)' \cup {s} /\ s \in SourceSessions(ip)
    BY <2>1, <2>2 DEF SourceSessions
  <2>6. SourceWithin(ip) /\ DestWithin(ip)
    BY <2>1, EachWithin
  <2>7. Within(src'[ip], SourceSessions(ip)', SourceReleases(ip)')
    <3>1. Within(src[ip], SourceSessions(ip), SourceReleases(ip))
      BY <2>6 DEF SourceWithin
    <3>2. IsFiniteSet(SourceSessions(ip)') /\ IsFiniteSet(SourceReleases(ip)')
      BY CountedAfter
    <3>3. /\ SourceSessions(ip) \subseteq SourceSessions(ip)' \cup {s} /\ s \in SourceSessions(ip)
          /\ SourceReleases(ip) \subseteq SourceReleases(ip)'
      BY <2>1, <2>4, <2>5
    <3>. QED BY <2>3, <3>1, <3>2, <3>3, WithinShrinks
  <2>8. SourceWithin(ip)' /\ DestWithin(ip)'
    BY <2>1, <2>4, <2>6, <2>7 DEF SourceWithin, DestWithin
  <2>. QED BY <2>1, <2>3, <2>4, <2>5, <2>8, OneAddress
<1>5. ASSUME NEW s \in Session, blockMAC(s) PROVE NoRuleTooMany'
  <2>1. /\ UNCHANGED <<isolations, release, src, dst>> /\ call[s].phase = "v6" /\ up
        /\ call'[s].phase = "publish" /\ call'[s].ip = call[s].ip
        /\ \A t \in Session \ {s} : call'[t] = call[t]
    BY <1>5 DEF blockMAC, TypeOK, CallState
  <2>. QED BY <2>1, SessionOwesAsMuch
<1>6. ASSUME NEW s \in Session, publish(s) PROVE NoRuleTooMany'
  <2>. DEFINE ip == call[s].ip
  <2>1. /\ UNCHANGED <<release, src, dst>> /\ call[s].phase = "publish" /\ ip \in IP /\ up
        /\ isolations' = [isolations EXCEPT ![ip] = s]
        /\ call'[s].phase = "start" /\ call'[s].ip = ip
        /\ \A t \in Session \ {s} : call'[t] = call[t]
    BY <1>6 DEF publish, TypeOK, CallState, MapMatchesSessions, Addressed, kernel
  <2>2. isolations[ip] = None
    BY <2>1 DEF OrdersAlone, UnderWay, Setup
  <2>3. /\ isolations'[ip] = s
        /\ \A i \in IP \ {ip} : isolations'[i] = isolations[i]
    BY <2>1 DEF TypeOK
  <2>4. ASSUME NEW i \in IP
        PROVE  /\ SourceSessions(i) \subseteq SourceSessions(i)'
               /\ DestSessions(i) \subseteq DestSessions(i)'
    BY <2>1, <2>2, <2>3, AddressAssumption DEF SourceSessions, DestSessions
  <2>5. \A i \in IP : /\ SourceReleases(i) \subseteq SourceReleases(i)'
                      /\ DestReleases(i) \subseteq DestReleases(i)'
    BY <2>1 DEF SourceReleases, DestReleases
  <2>6. \A i \in IP : src'[i] <= src[i] /\ dst'[i] <= dst[i]
    BY <2>1 DEF TypeOK
  <2>. QED BY <2>1, <2>4, <2>5, <2>6, StillOwed
<1>7. ASSUME NEW s \in Session, spoofRound(s) PROVE NoRuleTooMany'
  <2>1. /\ UNCHANGED <<isolations, release, src, dst>> /\ up /\ call[s].phase \in Running
        /\ call'[s].phase = "spoof" /\ call'[s].ip = call[s].ip
        /\ \A t \in Session \ {s} : call'[t] = call[t]
    BY <1>7 DEF spoofRound, TypeOK, CallState, Running, kernel
  <2>. QED BY <2>1, SessionOwesAsMuch DEF Running
<1>8. ASSUME NEW s \in Session, stopSpoofing(s) PROVE NoRuleTooMany'
  <2>1. /\ UNCHANGED <<isolations, release, src, dst>> /\ up /\ call[s].phase = "spoof"
        /\ call'[s] = [call[s] EXCEPT !.phase = "restore", !.rounds = RestoreRounds]
        /\ \A t \in Session \ {s} : call'[t] = call[t]
        /\ call[s] \in CallState
    BY <1>8 DEF stopSpoofing, TypeOK, kernel
  <2>2. call'[s].ip = call[s].ip
    BY <2>1 DEF CallState
  <2>. QED BY <2>1, <2>2, SessionOwesAsMuch
<1>9. ASSUME NEW s \in Session, restoreARP(s) PROVE NoRuleTooMany'
  <2>1. /\ UNCHANGED <<isolations, release, src, dst>> /\ call[s].phase = "restore" /\ up
        /\ \A t \in Session \ {s} : call'[t] = call[t]
    BY <1>9 DEF restoreARP, TypeOK, kernel
  <2>2. \A i \in IP : isolations[i] # s
    BY <1>0, <2>1 DEF Running
  <2>. QED BY <2>1, <2>2, SessionOwesAsMuch
<1>10. ASSUME NEW s \in Session, deadlinePasses(s) PROVE NoRuleTooMany'
  <2>1. /\ UNCHANGED <<isolations, release, src, dst>>
        /\ call'[s].phase = call[s].phase /\ call'[s].ip = call[s].ip
        /\ \A t \in Session \ {s} : call'[t] = call[t]
    BY <1>10 DEF deadlinePasses, TypeOK, CallState, kernel
  <2>2. up
    BY <1>10, AddressAssumption DEF deadlinePasses
  <2>. QED BY <2>1, <2>2, SessionOwesAsMuch
<1>11. ASSUME NEW u \in User, NEW ip \in IP, reconnectDevice(u, ip) PROVE NoRuleTooMany'
  BY <1>11, TakeWithin DEF reconnectDevice, Reconnector, kernel
<1>12. ASSUME NEW r \in Reconnector, cancel(r) PROVE NoRuleTooMany'
  <2>. DEFINE s == release[r].session
  <2>1. /\ UNCHANGED <<isolations, src, dst>> /\ release[r].phase = "cancel" /\ up
        /\ s \in Session
    BY <1>12 DEF cancel, kernel, MapMatchesSessions, ReleasesOwn
  <2>2. \A t \in Session : call'[t].phase = call[t].phase /\ call'[t].ip = call[t].ip
    BY <1>12, <2>1 DEF cancel, TypeOK, CallState
  <2>3. /\ release'[r].phase = "src" /\ release'[r].ip = release[r].ip
        /\ \A q \in Reconnector \ {r} : release'[q] = release[q]
    BY <1>12 DEF cancel, TypeOK, ReleaseState
  <2>4. ASSUME NEW i \in IP
        PROVE  /\ SourceSessions(i) \subseteq SourceSessions(i)'
               /\ DestSessions(i) \subseteq DestSessions(i)'
               /\ SourceReleases(i) \subseteq SourceReleases(i)'
               /\ DestReleases(i) \subseteq DestReleases(i)'
    BY <2>1, <2>2, <2>3 DEF SourceSessions, DestSessions, SourceReleases, DestReleases
  <2>5. \A i \in IP : src'[i] <= src[i] /\ dst'[i] <= dst[i]
    BY <2>1 DEF TypeOK
  <2>. QED BY <2>1, <2>4, <2>5, StillOwed
<1>13. ASSUME NEW r \in Reconnector, unblockSource(r) PROVE NoRuleTooMany'
  <2>. PICK ip \in IP : ip = release[r].ip
    BY <1>13 DEF unblockSource, MapMatchesSessions, Addressed
  <2>1. /\ UNCHANGED <<isolations, call, dst>> /\ release[r].phase = "src" /\ ip \in IP /\ up
        /\ release'[r].phase = "dst" /\ release'[r].ip = ip
        /\ \A q \in Reconnector \ {r} : release'[q] = release[q]
    BY <1>13 DEF unblockSource, TypeOK, ReleaseState, MapMatchesSessions, Addressed
  <2>2. /\ src'[ip] = 0 \/ src'[ip] = src[ip] - 1
        /\ \A i \in IP \ {ip} : src'[i] = src[i]
        /\ src[ip] \in Nat /\ src'[ip] \in Nat /\ dst[ip] \in Nat
    BY <1>13, <2>1, DeleteTakes DEF unblockSource, TypeOK
  <2>3. \A i \in IP : /\ SourceSessions(i)' = SourceSessions(i)
                      /\ DestSessions(i)' = DestSessions(i)
                      /\ DestReleases(i)' = DestReleases(i)
    <3>1. \A i \in IP : /\ SourceSessions(i)' = SourceSessions(i)
                        /\ DestSessions(i)' = DestSessions(i)
      BY <2>1 DEF SourceSessions, DestSessions
    <3>2. \A i \in IP : DestReleases(i)' = DestReleases(i)
      BY <2>1 DEF DestReleases
    <3>. QED BY <3>1, <3>2
  <2>4. /\ \A i \in IP \ {ip} : SourceReleases(i)' = SourceReleases(i)
        /\ SourceReleases(ip) \subseteq SourceReleases(ip)' \cup {r} /\ r \in SourceReleases(ip)
    BY <2>1 DEF SourceReleases
  <2>5. SourceWithin(ip) /\ DestWithin(ip)
    BY <2>1, EachWithin
  <2>6. Within(src'[ip], SourceSessions(ip)', SourceReleases(ip)')
    <3>1. Within(src[ip], SourceSessions(ip), SourceReleases(ip))
      BY <2>5 DEF SourceWithin
    <3>2. IsFiniteSet(SourceSessions(ip)') /\ IsFiniteSet(SourceReleases(ip)')
      BY CountedAfter
    <3>3. /\ SourceSessions(ip) \subseteq SourceSessions(ip)'
          /\ SourceReleases(ip) \subseteq SourceReleases(ip)' \cup {r} /\ r \in SourceReleases(ip)
      BY <2>1, <2>3, <2>4
    <3>. QED BY <2>2, <3>1, <3>2, <3>3, WithinRepaid
  <2>7. SourceWithin(ip)' /\ DestWithin(ip)'
    BY <2>1, <2>3, <2>5, <2>6 DEF SourceWithin, DestWithin
  <2>. QED BY <2>1, <2>2, <2>3, <2>4, <2>7, OneAddress
<1>14. ASSUME NEW r \in Reconnector, unblockDest(r) PROVE NoRuleTooMany'
  <2>. PICK ip \in IP : ip = release[r].ip
    BY <1>14 DEF unblockDest, MapMatchesSessions, Addressed
  <2>1. /\ UNCHANGED <<isolations, call, src>> /\ release[r].phase = "dst" /\ ip \in IP /\ up
        /\ release'[r].phase = "v6" /\ release'[r].ip = ip
        /\ \A q \in Reconnector \ {r} : release'[q] = release[q]
    BY <1>14 DEF unblockDest, TypeOK, ReleaseState, MapMatchesSessions, Addressed
  <2>2. /\ dst'[ip] = 0 \/ dst'[ip] = dst[ip] - 1
        /\ \A i \in IP \ {ip} : dst'[i] = dst[i]
        /\ src[ip] \in Nat /\ dst[ip] \in Nat /\ dst'[ip] \in Nat
    BY <1>14, <2>1, DeleteTakes DEF unblockDest, TypeOK
  <2>3. \A i \in IP : /\ SourceSessions(i)' = SourceSessions(i)
                      /\ DestSessions(i)' = DestSessions(i)
                      /\ SourceReleases(i)' = SourceReleases(i)
    <3>1. \A i \in IP : /\ SourceSessions(i)' = SourceSessions(i)
                        /\ DestSessions(i)' = DestSessions(i)
      BY <2>1 DEF SourceSessions, DestSessions
    <3>2. \A i \in IP : SourceReleases(i)' = SourceReleases(i)
      BY <2>1 DEF SourceReleases
    <3>. QED BY <3>1, <3>2
  <2>4. /\ \A i \in IP \ {ip} : DestReleases(i)' = DestReleases(i)
        /\ DestReleases(ip) \subseteq DestReleases(ip)' \cup {r} /\ r \in DestReleases(ip)
    BY <2>1 DEF DestReleases
  <2>5. SourceWithin(ip) /\ DestWithin(ip)
    BY <2>1, EachWithin
  <2>6. Within(dst'[ip], DestSessions(ip)', DestReleases(ip)')
    <3>1. Within(dst[ip], DestSessions(ip), DestReleases(ip))
      BY <2>5 DEF DestWithin
    <3>2. IsFiniteSet(DestSessions(ip)') /\ IsFiniteSet(DestReleases(ip)')
      BY CountedAfter
    <3>3. /\ DestSessions(ip) \subseteq DestSessions(ip)'
          /\ DestReleases(ip) \subseteq DestReleases(ip)' \cup {r} /\ r \in DestReleases(ip)
      BY <2>1, <2>3, <2>4
    <3>. QED BY <2>2, <3>1, <3>2, <3>3, WithinRepaid
  <2>7. SourceWithin(ip)' /\ DestWithin(ip)'
    BY <2>1, <2>3, <2>5, <2>6 DEF SourceWithin, DestWithin
  <2>. QED BY <2>1, <2>2, <2>3, <2>4, <2>7, OneAddress
<1>15. ASSUME NEW r \in Reconnector, unblockMAC(r) PROVE NoRuleTooMany'
  <2>1. /\ UNCHANGED <<isolations, call, src, dst>> /\ release[r].phase = "v6" /\ up
        /\ \A q \in Reconnector \ {r} : release'[q] = release[q]
    BY <1>15 DEF unblockMAC, TypeOK
  <2>2. ASSUME NEW i \in IP
        PROVE  /\ SourceSessions(i) \subseteq SourceSessions(i)'
               /\ DestSessions(i) \subseteq DestSessions(i)'
               /\ SourceReleases(i) \subseteq SourceReleases(i)'
               /\ DestReleases(i) \subseteq DestReleases(i)'
    BY <2>1 DEF SourceSessions, DestSessions, SourceReleases, DestReleases
  <2>3. \A i \in IP : src'[i] <= src[i] /\ dst'[i] <= dst[i]
    BY <2>1 DEF TypeOK
  <2>. QED BY <2>1, <2>2, <2>3, StillOwed
<1>16. ASSUME UNCHANGED <<up, isolations, call, release, src, dst>> PROVE NoRuleTooMany'
  BY <1>16
  DEF NoRuleTooMany, SourceSessions, DestSessions, SourceReleases, DestReleases
<1>17. ASSUME NEW ip \in IP, reconnectExpired(ip) PROVE NoRuleTooMany'
  <2>1. CASE isolations[ip] # None /\ Take(Watcher, ip)
    BY <1>17, <2>1, TakeWithin DEF reconnectExpired, Reconnector, kernel
  <2>2. CASE isolations[ip] = None /\ UNCHANGED <<isolations, release>>
    BY <1>16, <1>17, <2>2 DEF reconnectExpired, kernel
  <2>. QED BY <1>17, <2>1, <2>2 DEF reconnectExpired
<1>18. CASE startProgram
  <2>1. ASSUME NEW ip \in IP PROVE src'[ip] = 0 /\ dst'[ip] = 0
    <3>1. src' \in Remaining(src) /\ dst' \in Remaining(dst)
      BY <1>18 DEF startProgram, cleanOrphanRules
    <3>2. CASE ip \in Orphan
      BY <3>1, <3>2 DEF Remaining, Serial
    <3>3. CASE ip \notin Orphan
      <4>1. src'[ip] = src[ip] /\ dst'[ip] = dst[ip]
        BY <3>1, <3>3 DEF Remaining
      <4>2. src[ip] = 0 /\ dst[ip] = 0
        BY <3>3 DEF Orphan, TypeOK, NeverContainsProtected
      <4>. QED BY <4>1, <4>2
    <3>. QED BY <3>2, <3>3
  <2>2. ASSUME NEW ip \in IP
        PROVE  /\ Cardinality(SourceSessions(ip)') \in Nat
               /\ Cardinality(SourceReleases(ip)') \in Nat
               /\ Cardinality(DestSessions(ip)') \in Nat
               /\ Cardinality(DestReleases(ip)') \in Nat
    BY CountedAfter, FS_CardinalityType
  <2>. QED BY <2>1, <2>2 DEF NoRuleTooMany
<1>19. CASE crash
  BY <1>19 DEF crash, NoRuleTooMany
<1>20. ASSUME up, UNCHANGED <<isolations, call, release>>,
              \A ip \in IP : src'[ip] <= src[ip] /\ dst'[ip] <= dst[ip]
       PROVE  NoRuleTooMany'
  <2>1. ASSUME NEW i \in IP
        PROVE  /\ SourceSessions(i) \subseteq SourceSessions(i)'
               /\ DestSessions(i) \subseteq DestSessions(i)'
               /\ SourceReleases(i) \subseteq SourceReleases(i)'
               /\ DestReleases(i) \subseteq DestReleases(i)'
    BY <1>20 DEF SourceSessions, DestSessions, SourceReleases, DestReleases
  <2>. QED BY <1>20, <2>1, StillOwed
<1>21. CASE startSecondInstance
  <2>1. \A ip \in IP : src'[ip] <= src[ip] /\ dst'[ip] <= dst[ip]
    BY <1>21 DEF startSecondInstance, Deleted, TypeOK
  <2>. QED BY <1>20, <1>21, <2>1 DEF startSecondInstance
<1>22. CASE flushRules
  <2>1. \A ip \in IP : src'[ip] <= src[ip] /\ dst'[ip] <= dst[ip]
    BY <1>22 DEF flushRules, TypeOK
  <2>2. CASE up
    BY <1>20, <1>22, <2>1, <2>2 DEF flushRules
  <2>3. CASE ~ up
    BY <1>22, <2>3 DEF flushRules, NoRuleTooMany
  <2>. QED BY <2>2, <2>3
<1>23. CASE collectExpired \/ UNCHANGED vars
  BY <1>16, <1>23 DEF collectExpired, vars, kernel
<1>24. ASSUME NEW ip \in IP, arpAges(ip) PROVE NoRuleTooMany'
  BY <1>16, <1>24 DEF arpAges, kernel
<1>. QED
  BY <1>1, <1>2, <1>3, <1>4, <1>5, <1>6, <1>7, <1>8, <1>9, <1>10, <1>11, <1>12,
     <1>13, <1>14, <1>15, <1>17, <1>18, <1>19, <1>21, <1>22, <1>23, <1>24
  DEF Next, SessionStep, blockStep, unblockStep, watcherStep, EnvironmentStep

\* A step that begins no order, starts no goroutine and leaves the map and the
\* reconnections alone.
LEMMA NobodyNew ==
  ASSUME MapMatchesSessions, OrdersAlone, ForgersKnown, UNCHANGED <<isolations, release>>,
         \A t \in Session : call'[t].phase \in Setup =>
           call[t].phase \in Setup /\ call'[t].ip = call[t].ip,
         \A t \in Session : call'[t].phase \in Running /\ ~ call'[t].cancelled =>
           call[t].phase \in Running /\ ~ call[t].cancelled /\ call'[t].ip = call[t].ip
  PROVE  OrdersAlone' /\ ForgersKnown'
<1>1. OrdersAlone'
  BY DEF OrdersAlone, UnderWay
<1>2. ForgersKnown'
  BY DEF ForgersKnown
<1>. QED BY <1>1, <1>2

\* One session goes on within an order, or within its goroutine, or ends.
LEMMA OneGoesOn ==
  ASSUME TypeOK, MapMatchesSessions, OrdersAlone, ForgersKnown,
         UNCHANGED <<isolations, release>>, NEW s \in Session,
         \A t \in Session \ {s} : call'[t] = call[t],
         \/ call'[s] = Free
         \/ call'[s].phase = "restore"
         \/ /\ call'[s].ip = call[s].ip /\ call'[s].cancelled = call[s].cancelled
            /\ \/ call[s].phase \in Setup /\ call'[s].phase \in Setup
               \/ call[s].phase \in Running /\ call'[s].phase \in Running
  PROVE  OrdersAlone' /\ ForgersKnown'
<1>1. \A t \in Session : call'[t].phase \in Setup =>
        call[t].phase \in Setup /\ call'[t].ip = call[t].ip
  BY DEF Setup, Running, Free
<1>2. \A t \in Session : call'[t].phase \in Running /\ ~ call'[t].cancelled =>
        call[t].phase \in Running /\ ~ call[t].cancelled /\ call'[t].ip = call[t].ip
  BY DEF Setup, Running, Free
<1>. QED BY <1>1, <1>2, NobodyNew

\* A reconnector takes an entry: it is about to cancel the session the map named.
LEMMA TakeKnown ==
  ASSUME TypeOK, MapMatchesSessions, OrdersAlone, ForgersKnown,
         NEW r \in Reconnector, NEW ip \in IP,
         release[r] = Idle, isolations[ip] # None, Take(r, ip), UNCHANGED call
  PROVE  OrdersAlone' /\ ForgersKnown'
<1>. DEFINE s == isolations[ip]
<1>1. s \in Session /\ call[s].ip = ip
  BY DEF TypeOK, MapMatchesSessions, MapNamesLive
<1>2. /\ isolations'[ip] = None
      /\ \A i \in IP \ {ip} : isolations'[i] = isolations[i]
      /\ release'[r].phase = "cancel" /\ release'[r].ip = ip /\ release'[r].session = s
      /\ release[r].phase = "idle"
      /\ \A q \in Reconnector \ {r} : release'[q] = release[q]
  BY DEF Take, TypeOK, Idle
<1>3. OrdersAlone'
  <2>1. \A t \in UnderWay : call[t].ip \in IP
    BY DEF UnderWay, Setup, MapMatchesSessions, Addressed
  <2>. QED BY <1>2, <2>1 DEF OrdersAlone, UnderWay
<1>4. ForgersKnown'
  <2>. SUFFICES ASSUME NEW t \in Session, call[t].phase \in Running, ~ call[t].cancelled
                PROVE  \/ isolations'[call[t].ip] = t
                       \/ \E q \in Reconnector : /\ release'[q].phase = "cancel"
                                                 /\ release'[q].session = t
                                                 /\ release'[q].ip = call[t].ip
    BY DEF ForgersKnown
  <2>1. call[t].ip \in IP
    BY DEF MapMatchesSessions, Addressed, Running
  <2>2. CASE \E q \in Reconnector : /\ release[q].phase = "cancel"
                                    /\ release[q].session = t
                                    /\ release[q].ip = call[t].ip
    <3>1. PICK q \in Reconnector : /\ release[q].phase = "cancel"
                                   /\ release[q].session = t
                                   /\ release[q].ip = call[t].ip
      BY <2>2
    <3>2. q # r
      BY <1>2, <3>1
    <3>. QED BY <1>2, <3>1, <3>2
  <2>3. CASE isolations[call[t].ip] = t
    BY <1>2, <2>1, <2>3
  <2>. QED BY <2>2, <2>3 DEF ForgersKnown
<1>. QED BY <1>3, <1>4

\* Every step leaves at most one order under way and every forger known.
LEMMA NextKnown ==
  Serial /\ TypeOK /\ MapMatchesSessions /\ OrdersAlone /\ ForgersKnown /\ [Next]_vars
    => OrdersAlone' /\ ForgersKnown'
<1>. SUFFICES ASSUME Serial, TypeOK, MapMatchesSessions, OrdersAlone, ForgersKnown, [Next]_vars
              PROVE  OrdersAlone' /\ ForgersKnown'
  OBVIOUS
<1>1. ASSUME NEW s \in Session, NEW ip \in IP, NEW mac \in MAC, NEW timed \in BOOLEAN,
             isolateDevice(s, ip, mac, timed)
      PROVE  OrdersAlone' /\ ForgersKnown'
  <2>1. /\ UNCHANGED <<isolations, release>> /\ isolations[ip] = None
        /\ call[s].phase = "free"
        /\ \A t \in Session \ {s} : call'[t] = call[t]
        /\ call'[s].ip = ip /\ call'[s].phase = "src"
        /\ Cardinality(UnderWay) < MaxOrders
    BY <1>1 DEF isolateDevice, Free, TypeOK
  <2>2. UnderWay = {}
    <3>1. IsFiniteSet(UnderWay) /\ Cardinality(UnderWay) \in Nat
      BY Finite, FS_Subset, FS_CardinalityType DEF UnderWay
    <3>2. Cardinality(UnderWay) = 0
      BY <2>1, <3>1 DEF Serial
    <3>. QED BY <3>1, <3>2, FS_EmptySet
  <2>3. UnderWay' = {s}
    BY <2>1, <2>2 DEF UnderWay, Setup
  <2>4. OrdersAlone'
    BY <2>1, <2>3 DEF OrdersAlone
  <2>5. ForgersKnown'
    BY <2>1 DEF ForgersKnown, Running
  <2>. QED BY <2>4, <2>5
<1>2. ASSUME NEW s \in Session, blockSource(s) PROVE OrdersAlone' /\ ForgersKnown'
  <2>1. /\ UNCHANGED <<isolations, release>> /\ call[s].phase = "src"
        /\ \A t \in Session \ {s} : call'[t] = call[t]
        /\ \/ call'[s] = Free
           \/ /\ call'[s].phase = "dst"
              /\ call'[s].ip = call[s].ip /\ call'[s].cancelled = call[s].cancelled
    BY <1>2 DEF blockSource, TypeOK, CallState
  <2>. QED BY <2>1, OneGoesOn DEF Setup
<1>3. ASSUME NEW s \in Session, blockDest(s) PROVE OrdersAlone' /\ ForgersKnown'
  <2>1. /\ UNCHANGED <<isolations, release>> /\ call[s].phase = "dst"
        /\ \A t \in Session \ {s} : call'[t] = call[t]
        /\ call'[s].phase \in {"v6", "undo"}
        /\ call'[s].ip = call[s].ip /\ call'[s].cancelled = call[s].cancelled
    BY <1>3 DEF blockDest, TypeOK, CallState
  <2>. QED BY <2>1, OneGoesOn DEF Setup
<1>4. ASSUME NEW s \in Session, undoSource(s) PROVE OrdersAlone' /\ ForgersKnown'
  <2>1. /\ UNCHANGED <<isolations, release>> /\ call'[s] = Free
        /\ \A t \in Session \ {s} : call'[t] = call[t]
    BY <1>4 DEF undoSource, TypeOK
  <2>. QED BY <2>1, OneGoesOn
<1>5. ASSUME NEW s \in Session, blockMAC(s) PROVE OrdersAlone' /\ ForgersKnown'
  <2>1. /\ UNCHANGED <<isolations, release>> /\ call[s].phase = "v6"
        /\ \A t \in Session \ {s} : call'[t] = call[t]
        /\ call'[s].phase = "publish"
        /\ call'[s].ip = call[s].ip /\ call'[s].cancelled = call[s].cancelled
    BY <1>5 DEF blockMAC, TypeOK, CallState
  <2>. QED BY <2>1, OneGoesOn DEF Setup
<1>6. ASSUME NEW s \in Session, publish(s) PROVE OrdersAlone' /\ ForgersKnown'
  <2>. DEFINE ip == call[s].ip
  <2>1. /\ UNCHANGED release /\ call[s].phase = "publish" /\ ip \in IP
        /\ isolations' = [isolations EXCEPT ![ip] = s]
        /\ call'[s].phase = "start" /\ call'[s].ip = ip
        /\ \A t \in Session \ {s} : call'[t] = call[t]
    BY <1>6 DEF publish, TypeOK, CallState, MapMatchesSessions, Addressed
  <2>2. UnderWay = {s} /\ isolations[ip] = None
    BY <2>1 DEF OrdersAlone, UnderWay, Setup
  <2>3. isolations'[ip] = s /\ \A i \in IP \ {ip} : isolations'[i] = isolations[i]
    BY <2>1 DEF TypeOK
  <2>4. UnderWay' = {}
    BY <2>1, <2>2 DEF UnderWay, Setup
  <2>5. ASSUME NEW t \in Session, call'[t].phase \in Running, ~ call'[t].cancelled
        PROVE  \/ isolations'[call'[t].ip] = t
               \/ \E r \in Reconnector : /\ release'[r].phase = "cancel"
                                         /\ release'[r].session = t
                                         /\ release'[r].ip = call'[t].ip
    <3>1. CASE t = s
      BY <2>1, <2>3, <3>1
    <3>2. CASE t # s
      <4>1. call'[t] = call[t] /\ call[t].ip \in IP
        BY <2>1, <2>5, <3>2 DEF MapMatchesSessions, Addressed, Running
      <4>2. isolations[call[t].ip] = t => call[t].ip # ip
        BY <2>2, AddressAssumption
      <4>. QED BY <2>1, <2>3, <2>5, <4>1, <4>2 DEF ForgersKnown
    <3>. QED BY <3>1, <3>2
  <2>. QED BY <2>4, <2>5 DEF OrdersAlone, ForgersKnown
<1>7. ASSUME NEW s \in Session, spoofRound(s) PROVE OrdersAlone' /\ ForgersKnown'
  <2>1. /\ UNCHANGED <<isolations, release>> /\ call[s].phase \in Running
        /\ \A t \in Session \ {s} : call'[t] = call[t]
        /\ call'[s].phase = "spoof"
        /\ call'[s].ip = call[s].ip /\ call'[s].cancelled = call[s].cancelled
    BY <1>7 DEF spoofRound, TypeOK, CallState
  <2>. QED BY <2>1, OneGoesOn DEF Running
<1>8. ASSUME NEW s \in Session, stopSpoofing(s) PROVE OrdersAlone' /\ ForgersKnown'
  <2>1. /\ UNCHANGED <<isolations, release>>
        /\ \A t \in Session \ {s} : call'[t] = call[t]
        /\ call'[s] = [call[s] EXCEPT !.phase = "restore", !.rounds = RestoreRounds]
        /\ call[s] \in CallState
    BY <1>8 DEF stopSpoofing, TypeOK
  <2>2. call'[s].phase = "restore"
    BY <2>1 DEF CallState
  <2>. QED BY <2>1, <2>2, OneGoesOn
<1>9. ASSUME NEW s \in Session, restoreARP(s) PROVE OrdersAlone' /\ ForgersKnown'
  <2>1. /\ UNCHANGED <<isolations, release>>
        /\ \A t \in Session \ {s} : call'[t] = call[t]
        /\ call'[s] = Free \/ call'[s].phase = "restore"
    BY <1>9 DEF restoreARP, TypeOK, CallState
  <2>. QED BY <2>1, OneGoesOn
<1>10. ASSUME NEW s \in Session, deadlinePasses(s) PROVE OrdersAlone' /\ ForgersKnown'
  <2>1. /\ UNCHANGED <<isolations, release>>
        /\ \A t \in Session : /\ call'[t].phase = call[t].phase /\ call'[t].ip = call[t].ip
                              /\ call'[t].cancelled = call[t].cancelled
    BY <1>10 DEF deadlinePasses, TypeOK, CallState
  <2>. QED BY <2>1, NobodyNew
<1>11. ASSUME NEW u \in User, NEW ip \in IP, reconnectDevice(u, ip)
       PROVE  OrdersAlone' /\ ForgersKnown'
  BY <1>11, TakeKnown DEF reconnectDevice, Reconnector
<1>12. ASSUME NEW r \in Reconnector, cancel(r) PROVE OrdersAlone' /\ ForgersKnown'
  <2>. DEFINE s == release[r].session
  <2>1. /\ UNCHANGED isolations /\ release[r].phase = "cancel" /\ s \in Session
    BY <1>12 DEF cancel, MapMatchesSessions, ReleasesOwn
  <2>2. /\ \A t \in Session \ {s} : call'[t] = call[t]
        /\ call'[s].phase = call[s].phase /\ call'[s].ip = call[s].ip
        /\ call'[s].cancelled = TRUE
    BY <1>12, <2>1 DEF cancel, TypeOK, CallState
  <2>3. \A q \in Reconnector \ {r} : release'[q] = release[q]
    BY <1>12 DEF cancel, TypeOK
  <2>4. OrdersAlone'
    BY <2>1, <2>2 DEF OrdersAlone, UnderWay
  <2>5. ForgersKnown'
    BY <2>1, <2>2, <2>3 DEF ForgersKnown
  <2>. QED BY <2>4, <2>5
<1>13. ASSUME NEW r \in Reconnector, UNCHANGED <<isolations, call>>,
              release[r].phase # "cancel", \A q \in Reconnector \ {r} : release'[q] = release[q]
       PROVE  OrdersAlone' /\ ForgersKnown'
  <2>1. OrdersAlone'
    BY <1>13 DEF OrdersAlone, UnderWay
  <2>2. ForgersKnown'
    BY <1>13 DEF ForgersKnown
  <2>. QED BY <2>1, <2>2
<1>14. ASSUME NEW r \in Reconnector, unblockSource(r) \/ unblockDest(r) \/ unblockMAC(r)
       PROVE  OrdersAlone' /\ ForgersKnown'
  <2>1. /\ UNCHANGED <<isolations, call>> /\ release[r].phase # "cancel"
        /\ \A q \in Reconnector \ {r} : release'[q] = release[q]
    BY <1>14 DEF unblockSource, unblockDest, unblockMAC, TypeOK
  <2>. QED BY <1>13, <2>1
<1>15. ASSUME UNCHANGED <<isolations, call, release>> PROVE OrdersAlone' /\ ForgersKnown'
  BY <1>15, NobodyNew
<1>16. ASSUME NEW ip \in IP, reconnectExpired(ip) PROVE OrdersAlone' /\ ForgersKnown'
  <2>1. CASE isolations[ip] # None /\ Take(Watcher, ip)
    BY <1>16, <2>1, TakeKnown DEF reconnectExpired, Reconnector
  <2>2. CASE isolations[ip] = None /\ UNCHANGED <<isolations, release>>
    BY <1>15, <1>16, <2>2 DEF reconnectExpired
  <2>. QED BY <1>16, <2>1, <2>2 DEF reconnectExpired
<1>17. CASE crash
  <2>1. \A s \in Session : call'[s].phase = "free"
    BY <1>17 DEF crash, Free
  <2>. QED BY <2>1 DEF OrdersAlone, ForgersKnown, UnderWay, Setup, Running
<1>18. CASE startProgram \/ startSecondInstance \/ flushRules \/ collectExpired \/ UNCHANGED vars
  BY <1>15, <1>18 DEF startProgram, startSecondInstance, flushRules, collectExpired, vars
<1>19. ASSUME NEW ip \in IP, arpAges(ip) PROVE OrdersAlone' /\ ForgersKnown'
  BY <1>15, <1>19 DEF arpAges
<1>. QED
  BY <1>1, <1>2, <1>3, <1>4, <1>5, <1>6, <1>7, <1>8, <1>9, <1>10, <1>11, <1>12,
     <1>14, <1>16, <1>17, <1>18, <1>19
  DEF Next, SessionStep, blockStep, unblockStep, watcherStep, EnvironmentStep

\* As long as orders do not overlap and deletions do not fail, whatever crashes, is
\* flushed or fails to be inserted, every rule has somebody who is to delete it
\* (isolation.go, blockForwarding, unblockForwarding).
THEOREM FreeInvariant == ASSUME Serial PROVE Spec => []FreeInv
<1>1. Init => MapMatchesSessions /\ NoRuleTooMany /\ OrdersAlone /\ ForgersKnown
  <2>1. Init => \A s \in Session : call[s].phase = "free"
    BY DEF Init, Free
  <2>. QED
    BY <2>1, InitMap
    DEF Init, NoRuleTooMany, OrdersAlone, ForgersKnown, UnderWay, Setup, Running
<1>2. MapMatchesSessions /\ NoRuleTooMany /\ OrdersAlone /\ ForgersKnown
          /\ TypeOK /\ TypeOK' /\ NeverContainsProtected /\ [Next]_vars
        => MapMatchesSessions' /\ NoRuleTooMany' /\ OrdersAlone' /\ ForgersKnown'
  BY Serial, NextMap, NextWithin, NextKnown
<1>. QED BY <1>1, <1>2, TypeCorrect, ProtectedStayFree, PTL DEF Spec, FreeInv

\* Then a device that is not isolated and that nobody is handling is free: no rule
\* drops its traffic, and whoever still forges for it has been told to stop.
THEOREM ReleaseFrees == ASSUME Serial PROVE Spec => []ReleasedIsFree
<1>1. FreeInv => ReleasedIsFree
  <2>. SUFFICES ASSUME FreeInv, up, NEW ip \in IP, Quiet(ip)
                PROVE  /\ src[ip] = 0 /\ dst[ip] = 0
                       /\ \A s \in Session :
                            call[s].ip = ip /\ call[s].phase \in Running => call[s].cancelled
    BY DEF ReleasedIsFree
  <2>1. /\ SourceSessions(ip) = {} /\ DestSessions(ip) = {}
        /\ SourceReleases(ip) = {} /\ DestReleases(ip) = {}
    BY AddressAssumption DEF Quiet, Setup, SourceSessions, DestSessions, SourceReleases,
                             DestReleases
  <2>2. src[ip] = 0 /\ dst[ip] = 0
    <3>1. src[ip] <= 0 + 0 /\ dst[ip] <= 0 + 0
      BY <2>1, FS_EmptySet DEF FreeInv, NoRuleTooMany
    <3>. QED BY <3>1 DEF FreeInv, TypeOK
  <2>3. ASSUME NEW s \in Session, call[s].ip = ip, call[s].phase \in Running
        PROVE  call[s].cancelled
    BY <2>3, AddressAssumption DEF FreeInv, ForgersKnown, Quiet
  <2>. QED BY <2>2, <2>3
<1>. QED BY <1>1, FreeInvariant, PTL

-----------------------------------------------------------------------------
(* Whoever is poisoned is being looked after.  A goroutine ends only after its *)
(* last round of true replies, so as long as replies arrive and the program    *)
(* does not die, no forged entry outlives the goroutines of its address.       *)

Reliable == "loss" \notin Fault /\ "crash" \notin Fault

Handles(s, ip) == call[s].ip = ip /\ call[s].phase \in Running \cup {"restore"}

ForgedIsHandled ==
  \A ip \in IP : forged[ip] # {} => \E s \in Session : Handles(s, ip)

\* A step that forges nothing new and ends nobody's care.
LEMMA StillHandled ==
  ASSUME ForgedIsHandled,
         \A ip \in IP : forged'[ip] \subseteq forged[ip],
         \A s \in Session, ip \in IP : Handles(s, ip) /\ forged'[ip] # {} => Handles(s, ip)'
  PROVE  ForgedIsHandled'
BY DEF ForgedIsHandled

\* Every step leaves each forged entry to a goroutine of its address.
LEMMA NextHandled ==
  Reliable /\ TypeOK /\ TypeOK' /\ MapMatchesSessions /\ ForgedIsHandled /\ [Next]_vars
    => ForgedIsHandled'
<1>. SUFFICES ASSUME Reliable, TypeOK, TypeOK', MapMatchesSessions, ForgedIsHandled,
                     [Next]_vars
              PROVE  ForgedIsHandled'
  OBVIOUS
<1>0. Arriving = {Side}
  BY DEF Arriving, Reliable
<1>1. ASSUME NEW s \in Session, UNCHANGED forged,
             \A t \in Session \ {s} : call'[t] = call[t],
             call[s].phase \notin Running \cup {"restore"}
      PROVE  ForgedIsHandled'
  BY <1>1, StillHandled DEF Handles
<1>2. ASSUME NEW s \in Session, UNCHANGED forged,
             \A t \in Session \ {s} : call'[t] = call[t],
             call'[s].ip = call[s].ip, call'[s].phase \in Running \cup {"restore"}
      PROVE  ForgedIsHandled'
  BY <1>2, StillHandled DEF Handles
<1>3. ASSUME NEW s \in Session, NEW ip \in IP, NEW mac \in MAC, NEW timed \in BOOLEAN,
             isolateDevice(s, ip, mac, timed)
      PROVE  ForgedIsHandled'
  <2>1. /\ UNCHANGED forged /\ call[s].phase = "free"
        /\ \A t \in Session \ {s} : call'[t] = call[t]
    BY <1>3 DEF isolateDevice, Free, TypeOK
  <2>. QED BY <1>1, <2>1 DEF Running
<1>4. ASSUME NEW s \in Session, blockStep(s) PROVE ForgedIsHandled'
  <2>1. /\ UNCHANGED forged /\ call[s].phase \in {"src", "dst", "undo", "v6"}
        /\ \A t \in Session \ {s} : call'[t] = call[t]
    BY <1>4 DEF blockStep, blockSource, blockDest, undoSource, blockMAC, TypeOK
  <2>. QED BY <1>1, <2>1 DEF Running
<1>5. ASSUME NEW s \in Session, publish(s) PROVE ForgedIsHandled'
  <2>1. /\ UNCHANGED forged /\ call[s].phase = "publish"
        /\ \A t \in Session \ {s} : call'[t] = call[t]
    BY <1>5 DEF publish, TypeOK
  <2>. QED BY <1>1, <2>1 DEF Running
<1>6. ASSUME NEW s \in Session, spoofRound(s) PROVE ForgedIsHandled'
  <2>. PICK ip \in IP : ip = call[s].ip
    BY <1>6 DEF spoofRound, MapMatchesSessions, Addressed, Running
  <2>1. /\ \A t \in Session \ {s} : call'[t] = call[t]
        /\ call[s].phase \in Running
        /\ call'[s].ip = ip /\ call'[s].phase = "spoof"
    BY <1>6 DEF spoofRound, TypeOK, CallState
  <2>2. Handles(s, ip)'
    BY <2>1 DEF Handles, Running
  <2>3. \A i \in IP \ {ip} : forged'[i] = forged[i]
    BY <1>6 DEF spoofRound, TypeOK
  <2>4. \A t \in Session, i \in IP \ {ip} : Handles(t, i) => Handles(t, i)'
    BY <2>1 DEF Handles
  <2>. QED BY <2>2, <2>3, <2>4 DEF ForgedIsHandled
<1>7. ASSUME NEW s \in Session, stopSpoofing(s) PROVE ForgedIsHandled'
  <2>1. /\ UNCHANGED forged /\ call[s].phase = "spoof"
        /\ \A t \in Session \ {s} : call'[t] = call[t]
        /\ call[s] \in CallState
        /\ call'[s] = [call[s] EXCEPT !.phase = "restore", !.rounds = RestoreRounds]
    BY <1>7 DEF stopSpoofing, TypeOK
  <2>2. call'[s].ip = call[s].ip /\ call'[s].phase = "restore"
    BY <2>1 DEF CallState
  <2>. QED BY <1>2, <2>1, <2>2
<1>8. ASSUME NEW s \in Session, restoreARP(s) PROVE ForgedIsHandled'
  <2>1. /\ call[s].ip \in IP /\ \A t \in Session \ {s} : call'[t] = call[t]
        /\ forged' = [forged EXCEPT ![call[s].ip] = @ \ Side]
    BY <1>0, <1>8 DEF restoreARP, TypeOK, MapMatchesSessions, Addressed
  <2>2. /\ forged'[call[s].ip] = {}
        /\ \A i \in IP \ {call[s].ip} : forged'[i] = forged[i]
    BY <2>1 DEF TypeOK
  <2>. QED BY <2>1, <2>2, StillHandled DEF Handles
<1>9. ASSUME NEW s \in Session, deadlinePasses(s) PROVE ForgedIsHandled'
  <2>1. /\ UNCHANGED forged
        /\ \A t \in Session : /\ call'[t].ip = call[t].ip
                              /\ call'[t].phase = call[t].phase
    BY <1>9 DEF deadlinePasses, TypeOK, CallState
  <2>. QED BY <2>1 DEF ForgedIsHandled, Handles
<1>10. ASSUME NEW r \in Reconnector, unblockStep(r) PROVE ForgedIsHandled'
  <2>1. CASE cancel(r)
    <3>1. /\ UNCHANGED forged
          /\ \A t \in Session : /\ call'[t].ip = call[t].ip
                                /\ call'[t].phase = call[t].phase
      BY <2>1 DEF cancel, TypeOK, CallState
    <3>. QED BY <3>1 DEF ForgedIsHandled, Handles
  <2>2. CASE unblockSource(r) \/ unblockDest(r) \/ unblockMAC(r)
    BY <2>2 DEF unblockSource, unblockDest, unblockMAC, ForgedIsHandled, Handles
  <2>. QED BY <1>10, <2>1, <2>2 DEF unblockStep
<1>11. ASSUME UNCHANGED call, \A ip \in IP : forged'[ip] \subseteq forged[ip]
       PROVE  ForgedIsHandled'
  BY <1>11, StillHandled DEF Handles
<1>12. ASSUME NEW ip \in IP,
              arpAges(ip) \/ reconnectExpired(ip) \/ \E u \in User : reconnectDevice(u, ip)
       PROVE  ForgedIsHandled'
  <2>1. UNCHANGED call /\ \A i \in IP : forged'[i] \subseteq forged[i]
    BY <1>12 DEF arpAges, reconnectExpired, reconnectDevice, TypeOK
  <2>. QED BY <1>11, <2>1
<1>13. CASE startProgram \/ startSecondInstance \/ flushRules \/ collectExpired \/ UNCHANGED vars
  <2>1. UNCHANGED <<call, forged>>
    BY <1>13 DEF startProgram, startSecondInstance, flushRules, collectExpired, vars
  <2>. QED BY <1>11, <2>1
<1>14. ~ crash
  BY DEF crash, Reliable
<1>. QED
  BY <1>3, <1>4, <1>5, <1>6, <1>7, <1>8, <1>9, <1>10, <1>12, <1>13, <1>14
  DEF Next, SessionStep, watcherStep, EnvironmentStep

\* While replies arrive and the program lives, a forged ARP entry always has a
\* goroutine of its address that is still forging or already sending the true
\* mapping: restoreARP never leaves a cache behind (isolation.go, isolateDevice),
\* however orders, reconnections and deadlines overlap.
THEOREM ForgedEntriesHandled == ASSUME Reliable PROVE Spec => []ForgedIsHandled
<1>1. Init => ForgedIsHandled
  BY DEF Init, ForgedIsHandled
<1>2. Init => MapMatchesSessions
  BY InitMap
<1>3. TypeOK /\ TypeOK' /\ MapMatchesSessions /\ ForgedIsHandled /\ [Next]_vars
        => ForgedIsHandled' /\ MapMatchesSessions'
  BY Reliable, NextHandled, NextMap
<1>. QED BY <1>1, <1>2, <1>3, TypeCorrect, PTL DEF Spec

-----------------------------------------------------------------------------
(* The rules by MAC.  ip6tables is never listed, counted or cleaned: a rule by  *)
(* MAC goes only with the reconnection of the device it was inserted for, so    *)
(* what holds of it is again a count, of devices and not of addresses.          *)

\* The sessions of a MAC whose rule no reconnection has taken charge of yet.
MACSessions(m) ==
  {s \in Session : /\ call[s].mac = m
                   /\ \/ call[s].phase = "publish"
                      \/ \E ip \in IP : isolations[ip] = s}

\* The reconnections that have yet to delete a rule of a MAC, their last command.
MACReleases(m) ==
  {r \in Reconnector : release[r].mac = m /\ release[r].phase # "idle"}

MACCovered(m) == Covered(v6[m], MACSessions(m), MACReleases(m))
MACWithin(m) == Within(v6[m], MACSessions(m), MACReleases(m))

\* Those who rely on a rule by MAC can be counted.
LEMMA MACCounts ==
  \A m \in MAC : /\ IsFiniteSet(MACSessions(m)) /\ IsFiniteSet(MACSessions(m)')
                 /\ IsFiniteSet(MACReleases(m)) /\ IsFiniteSet(MACReleases(m)')
BY Finite, FS_Subset DEF MACSessions, MACReleases

\* What a step can do to the rules of one MAC and to those who rely on them.
MACIdle(m) ==
  v6'[m] = v6[m] /\ MACSessions(m)' = MACSessions(m) /\ MACReleases(m)' = MACReleases(m)

\* blockMAC, whose insertion is best effort.
MACBlocked(m) ==
  \E s \in Session \ MACSessions(m) :
    /\ \/ v6'[m] = v6[m] + 1
       \/ "insert" \in Fault /\ v6'[m] = v6[m]
    /\ MACSessions(m)' = MACSessions(m) \cup {s}
    /\ MACReleases(m)' = MACReleases(m)

\* publish, which forgets whom the map named before.
MACOverwritten(m) ==
  /\ v6'[m] = v6[m]
  /\ MACSessions(m)' \subseteq MACSessions(m)
  /\ MACReleases(m)' = MACReleases(m)
  /\ OrdersAlone => MACSessions(m)' = MACSessions(m)

\* Take, by a user's reconnection or by the watcher's.
MACTaken(m) ==
  \E s \in MACSessions(m), r \in Reconnector \ MACReleases(m) :
    /\ v6'[m] = v6[m]
    /\ MACSessions(m)' = MACSessions(m) \ {s}
    /\ MACReleases(m)' = MACReleases(m) \cup {r}

\* unblockMAC, which may delete nothing.
MACUnblocked(m) ==
  \E r \in MACReleases(m) :
    /\ \/ v6'[m] = IF v6[m] > 0 THEN v6[m] - 1 ELSE 0
       \/ "delete" \in Fault /\ v6'[m] = v6[m]
    /\ MACSessions(m)' = MACSessions(m)
    /\ MACReleases(m)' = MACReleases(m) \ {r}

\* A crash: the rules stay, and nobody is left to delete them.
MACAbandoned(m) ==
  "crash" \in Fault /\ v6'[m] = v6[m] /\ MACSessions(m)' = {} /\ MACReleases(m)' = {}

MACStep(m) ==
  \/ MACIdle(m) \/ MACBlocked(m) \/ MACOverwritten(m)
  \/ MACTaken(m) \/ MACUnblocked(m) \/ MACAbandoned(m)

\* A session that changes neither who the map names nor whether it is to publish.
LEMMA MACSessionKept ==
  ASSUME NEW s \in Session, UNCHANGED <<isolations, release, v6>>,
         \A t \in Session \ {s} : call'[t] = call[t],
         \/ /\ call'[s].mac = call[s].mac
            /\ call'[s].phase = "publish" <=> call[s].phase = "publish"
         \/ /\ \A ip \in IP : isolations[ip] # s
            /\ call'[s].phase # "publish" /\ call[s].phase # "publish"
  PROVE  \A m \in MAC : MACIdle(m)
<1>. TAKE m \in MAC
<1>1. MACSessions(m)' = MACSessions(m)
  BY DEF MACSessions
<1>2. MACReleases(m)' = MACReleases(m)
  BY DEF MACReleases
<1>. QED BY <1>1, <1>2 DEF MACIdle

\* A reconnection that only moves on to its next command.
LEMMA MACReleaseKept ==
  ASSUME NEW r \in Reconnector, UNCHANGED <<isolations, v6>>,
         \A s \in Session : call'[s].mac = call[s].mac /\ call'[s].phase = call[s].phase,
         release[r].phase # "idle", release'[r].phase # "idle",
         release'[r].mac = release[r].mac,
         \A q \in Reconnector \ {r} : release'[q] = release[q]
  PROVE  \A m \in MAC : MACIdle(m)
<1>. TAKE m \in MAC
<1>1. MACSessions(m)' = MACSessions(m)
  BY DEF MACSessions
<1>2. MACReleases(m)' = MACReleases(m)
  BY DEF MACReleases
<1>. QED BY <1>1, <1>2 DEF MACIdle

\* A reconnector takes the entry of a device and with it the rule of its MAC.
LEMMA TakeMAC ==
  ASSUME TypeOK, MapMatchesSessions, NEW r \in Reconnector, NEW ip \in IP,
         release[r] = Idle, isolations[ip] # None, Take(r, ip), UNCHANGED <<call, v6>>,
         NEW m \in MAC
  PROVE  MACStep(m)
<1>. DEFINE s == isolations[ip]
<1>1. /\ s \in Session /\ call[s].mac \in MAC /\ call[s].phase # "publish"
      /\ \A i \in IP \ {ip} : isolations[i] # s
  BY AddressAssumption DEF TypeOK, MapMatchesSessions, MapNamesLive, Addressed, Running
<1>2. /\ isolations'[ip] = None
      /\ \A i \in IP \ {ip} : isolations'[i] = isolations[i]
      /\ release'[r].phase = "cancel" /\ release'[r].mac = call[s].mac
      /\ release[r].phase = "idle"
      /\ \A q \in Reconnector \ {r} : release'[q] = release[q]
  BY DEF Take, TypeOK, Idle
<1>3. v6'[m] = v6[m]
  OBVIOUS
<1>4. CASE call[s].mac = m
  <2>1. s \in MACSessions(m) /\ r \in Reconnector \ MACReleases(m)
    BY <1>1, <1>2, <1>4 DEF MACSessions, MACReleases
  <2>2. MACSessions(m)' = MACSessions(m) \ {s}
    BY <1>1, <1>2, AddressAssumption DEF MACSessions
  <2>3. MACReleases(m)' = MACReleases(m) \cup {r}
    BY <1>2, <1>4 DEF MACReleases
  <2>. QED BY <1>3, <2>1, <2>2, <2>3 DEF MACStep, MACTaken
<1>5. CASE call[s].mac # m
  <2>1. MACSessions(m)' = MACSessions(m)
    BY <1>1, <1>2, <1>5, AddressAssumption DEF MACSessions
  <2>2. MACReleases(m)' = MACReleases(m)
    BY <1>2, <1>5 DEF MACReleases
  <2>. QED BY <1>3, <2>1, <2>2 DEF MACStep, MACIdle
<1>. QED BY <1>4, <1>5

\* Every step of every goroutine and of the world is one of these, for every MAC.
LEMMA EveryMACStep ==
  ASSUME TypeOK, TypeOK', MapMatchesSessions, [Next]_vars, NEW m \in MAC
  PROVE  MACStep(m)
<1>0. ASSUME NEW s \in Session, call[s].phase \notin Running
      PROVE  \A ip \in IP : isolations[ip] # s
  BY <1>0, AddressAssumption DEF MapMatchesSessions, MapNamesLive
<1>. SUFFICES ASSUME ~ MACIdle(m) PROVE MACStep(m)
  BY DEF MACStep
<1>1. ASSUME NEW s \in Session, NEW ip \in IP, NEW mac \in MAC, NEW timed \in BOOLEAN,
             isolateDevice(s, ip, mac, timed)
      PROVE  MACStep(m)
  <2>1. /\ UNCHANGED <<isolations, release, v6>>
        /\ call[s].phase = "free" /\ call'[s].phase = "src"
        /\ \A t \in Session \ {s} : call'[t] = call[t]
    BY <1>1 DEF isolateDevice, Free, TypeOK, kernel
  <2>. QED BY <1>0, <2>1, MACSessionKept DEF Running
<1>2. ASSUME NEW s \in Session, blockSource(s) \/ blockDest(s) \/ undoSource(s)
      PROVE  MACStep(m)
  <2>1. /\ UNCHANGED <<isolations, release, v6>>
        /\ call[s].phase \in {"src", "dst", "undo"}
        /\ \A t \in Session \ {s} : call'[t] = call[t]
    BY <1>2 DEF blockSource, blockDest, undoSource, TypeOK
  <2>2. call'[s].phase # "publish"
    BY <1>2 DEF blockSource, blockDest, undoSource, TypeOK, CallState, Free
  <2>. QED BY <1>0, <2>1, <2>2, MACSessionKept DEF Running
<1>3. ASSUME NEW s \in Session, blockMAC(s) PROVE MACStep(m)
  <2>1. /\ UNCHANGED <<isolations, release>> /\ call[s].phase = "v6"
        /\ \A t \in Session \ {s} : call'[t] = call[t]
        /\ call'[s].phase = "publish" /\ call'[s].mac = call[s].mac
        /\ call[s].mac \in MAC
    BY <1>3 DEF blockMAC, TypeOK, CallState, MapMatchesSessions, Addressed
  <2>2. \A ip \in IP : isolations[ip] # s
    BY <1>0, <2>1 DEF Running
  <2>3. MACReleases(m)' = MACReleases(m)
    BY <2>1 DEF MACReleases
  <2>4. CASE call[s].mac = m
    <3>1. s \notin MACSessions(m) /\ MACSessions(m)' = MACSessions(m) \cup {s}
      BY <2>1, <2>2, <2>4 DEF MACSessions
    <3>2. \/ v6'[m] = v6[m] + 1
          \/ "insert" \in Fault /\ v6'[m] = v6[m]
      BY <1>3, <2>4 DEF blockMAC, Inserted, TypeOK
    <3>. QED BY <2>3, <3>1, <3>2 DEF MACStep, MACBlocked
  <2>5. CASE call[s].mac # m
    <3>1. MACSessions(m)' = MACSessions(m)
      BY <2>1, <2>5 DEF MACSessions
    <3>2. v6'[m] = v6[m]
      BY <1>3, <2>5 DEF blockMAC, Inserted, TypeOK
    <3>. QED BY <2>3, <3>1, <3>2 DEF MACIdle
  <2>. QED BY <2>4, <2>5
<1>4. ASSUME NEW s \in Session, publish(s) PROVE MACStep(m)
  <2>. PICK ip \in IP : ip = call[s].ip
    BY <1>4 DEF publish, MapMatchesSessions, Addressed
  <2>1. /\ UNCHANGED <<release, v6>> /\ call[s].phase = "publish"
        /\ \A t \in Session \ {s} : call'[t] = call[t]
        /\ call'[s].phase = "start" /\ call'[s].mac = call[s].mac
        /\ isolations'[ip] = s
        /\ \A i \in IP \ {ip} : isolations'[i] = isolations[i]
    BY <1>4 DEF publish, TypeOK, CallState, kernel
  <2>2. MACSessions(m)' \subseteq MACSessions(m)
    BY <2>1 DEF MACSessions
  <2>3. MACReleases(m)' = MACReleases(m)
    BY <2>1 DEF MACReleases
  <2>4. ASSUME OrdersAlone PROVE MACSessions(m) \subseteq MACSessions(m)'
    <3>1. isolations[ip] = None /\ \A t \in Session \ {s} : call[t].phase # "publish"
      BY <2>1, <2>4 DEF OrdersAlone, UnderWay, Setup
    <3>. QED BY <2>1, <3>1, AddressAssumption DEF MACSessions
  <2>. QED BY <2>1, <2>2, <2>3, <2>4 DEF MACStep, MACOverwritten
<1>5. ASSUME NEW s \in Session, spoofRound(s) \/ stopSpoofing(s) PROVE MACStep(m)
  <2>1. /\ UNCHANGED <<isolations, release, v6>> /\ call[s] \in CallState
        /\ call[s].phase \in Running
        /\ \A t \in Session \ {s} : call'[t] = call[t]
    BY <1>5 DEF spoofRound, stopSpoofing, TypeOK, kernel, Running
  <2>2. \/ call'[s] = [call[s] EXCEPT !.phase = "spoof"]
        \/ call'[s] = [call[s] EXCEPT !.phase = "restore", !.rounds = RestoreRounds]
    BY <1>5 DEF spoofRound, stopSpoofing, TypeOK
  <2>3. call'[s].mac = call[s].mac /\ call'[s].phase # "publish" /\ call[s].phase # "publish"
    BY <2>1, <2>2 DEF CallState, Running
  <2>. QED BY <2>1, <2>3, MACSessionKept
<1>6. ASSUME NEW s \in Session, restoreARP(s) PROVE MACStep(m)
  <2>1. /\ UNCHANGED <<isolations, release, v6>>
        /\ call[s].phase = "restore"
        /\ \A t \in Session \ {s} : call'[t] = call[t]
    BY <1>6 DEF restoreARP, TypeOK, kernel
  <2>2. call'[s].phase # "publish"
    BY <1>6 DEF restoreARP, TypeOK, CallState, Free
  <2>. QED BY <1>0, <2>1, <2>2, MACSessionKept DEF Running
<1>7. ASSUME NEW s \in Session, deadlinePasses(s) PROVE MACStep(m)
  <2>1. /\ UNCHANGED <<isolations, release, v6>>
        /\ call'[s].mac = call[s].mac /\ call'[s].phase = call[s].phase
        /\ \A t \in Session \ {s} : call'[t] = call[t]
    BY <1>7 DEF deadlinePasses, TypeOK, CallState, kernel
  <2>. QED BY <2>1, MACSessionKept
<1>8. ASSUME NEW r \in Reconnector, cancel(r) PROVE MACStep(m)
  <2>1. /\ UNCHANGED <<isolations, v6>>
        /\ \A s \in Session : call'[s].mac = call[s].mac /\ call'[s].phase = call[s].phase
    BY <1>8 DEF cancel, TypeOK, CallState, kernel
  <2>2. /\ release[r].phase # "idle" /\ release'[r].phase # "idle"
        /\ release'[r].mac = release[r].mac
        /\ \A q \in Reconnector \ {r} : release'[q] = release[q]
    BY <1>8 DEF cancel, TypeOK, ReleaseState
  <2>. QED BY <2>1, <2>2, MACReleaseKept
<1>9. ASSUME NEW r \in Reconnector, unblockSource(r) \/ unblockDest(r) PROVE MACStep(m)
  <2>1. /\ UNCHANGED <<isolations, v6, call>>
        /\ release[r].phase # "idle" /\ release'[r].phase # "idle"
        /\ release'[r].mac = release[r].mac
        /\ \A q \in Reconnector \ {r} : release'[q] = release[q]
    BY <1>9 DEF unblockSource, unblockDest, TypeOK, ReleaseState
  <2>. QED BY <2>1, MACReleaseKept
<1>10. ASSUME NEW r \in Reconnector, unblockMAC(r) PROVE MACStep(m)
  <2>1. /\ UNCHANGED <<isolations, call>> /\ release[r].phase = "v6"
        /\ release'[r].phase = "idle"
        /\ \A q \in Reconnector \ {r} : release'[q] = release[q]
        /\ v6' \in DeleteOutcome(v6, release[r].mac) /\ release[r].mac \in MAC
    BY <1>10 DEF unblockMAC, TypeOK, Idle, MapMatchesSessions, Addressed
  <2>2. MACSessions(m)' = MACSessions(m)
    BY <2>1 DEF MACSessions
  <2>3. CASE release[r].mac = m
    <3>1. r \in MACReleases(m) /\ MACReleases(m)' = MACReleases(m) \ {r}
      BY <2>1, <2>3 DEF MACReleases
    <3>2. \/ v6'[m] = IF v6[m] > 0 THEN v6[m] - 1 ELSE 0
          \/ "delete" \in Fault /\ v6'[m] = v6[m]
      BY <2>1, <2>3 DEF DeleteOutcome, Deleted, TypeOK
    <3>. QED BY <2>2, <3>1, <3>2 DEF MACStep, MACUnblocked
  <2>4. CASE release[r].mac # m
    <3>1. MACReleases(m)' = MACReleases(m)
      BY <2>1, <2>4 DEF MACReleases
    <3>2. v6'[m] = v6[m]
      BY <2>1, <2>4 DEF DeleteOutcome, Deleted, TypeOK
    <3>. QED BY <2>2, <3>1, <3>2 DEF MACIdle
  <2>. QED BY <2>3, <2>4
<1>11. ASSUME NEW u \in User, NEW ip \in IP, reconnectDevice(u, ip) PROVE MACStep(m)
  BY <1>11, TakeMAC DEF reconnectDevice, Reconnector, kernel
<1>12. ASSUME UNCHANGED <<isolations, call, release, v6>> PROVE MACStep(m)
  BY <1>12 DEF MACIdle, MACSessions, MACReleases
<1>13. ASSUME NEW ip \in IP, reconnectExpired(ip) PROVE MACStep(m)
  <2>1. CASE isolations[ip] # None /\ Take(Watcher, ip)
    BY <1>13, <2>1, TakeMAC DEF reconnectExpired, Reconnector, kernel
  <2>2. CASE isolations[ip] = None /\ UNCHANGED <<isolations, release>>
    BY <1>12, <1>13, <2>2 DEF reconnectExpired, kernel
  <2>. QED BY <1>13, <2>1, <2>2 DEF reconnectExpired
<1>14. CASE crash
  <2>1. MACSessions(m)' = {}
    BY <1>14, AddressAssumption DEF crash, MACSessions, Free
  <2>2. MACReleases(m)' = {}
    BY <1>14 DEF crash, MACReleases, Idle
  <2>. QED BY <1>14, <2>1, <2>2 DEF crash, kernel, MACStep, MACAbandoned
<1>15. CASE \/ startProgram \/ startSecondInstance \/ flushRules \/ collectExpired
            \/ UNCHANGED vars
  BY <1>12, <1>15
  DEF startProgram, cleanOrphanRules, startSecondInstance, flushRules, collectExpired, vars,
      kernel
<1>16. ASSUME NEW ip \in IP, arpAges(ip) PROVE MACStep(m)
  BY <1>12, <1>16 DEF arpAges, kernel
<1>. QED
  BY <1>1, <1>2, <1>3, <1>4, <1>5, <1>6, <1>7, <1>8, <1>9, <1>10, <1>11, <1>13, <1>14,
     <1>15, <1>16
  DEF Next, SessionStep, blockStep, unblockStep, watcherStep, EnvironmentStep

\* Nobody relies on a rule by MAC before the program starts, and there is none.
LEMMA InitMAC ==
  Init => \A m \in MAC : v6[m] = 0 /\ MACSessions(m) = {} /\ MACReleases(m) = {}
<1>. SUFFICES ASSUME Init, NEW m \in MAC
              PROVE  v6[m] = 0 /\ MACSessions(m) = {} /\ MACReleases(m) = {}
  OBVIOUS
<1>1. /\ \A ip \in IP : isolations[ip] = None
      /\ \A s \in Session : call[s].phase = "free"
      /\ \A r \in Reconnector : release[r].phase = "idle"
  BY DEF Init, Free, Idle
<1>. QED BY <1>1, AddressAssumption DEF Init, MACSessions, MACReleases

\* As long as insertions succeed, whoever relies on a rule by MAC has one.
LEMMA NextMACCovered ==
  ASSUME "insert" \notin Fault, TypeOK, TypeOK', NEW m \in MAC, MACStep(m), MACCovered(m)
  PROVE  MACCovered(m)'
<1>. DEFINE S == MACSessions(m)
            R == MACReleases(m)
<1>1. /\ v6[m] \in Nat /\ v6'[m] \in Nat
      /\ IsFiniteSet(S) /\ IsFiniteSet(S') /\ IsFiniteSet(R) /\ IsFiniteSet(R')
      /\ Covered(v6[m], S, R)
  BY MACCounts DEF TypeOK, MACCovered
<1>2. SUFFICES Covered(v6'[m], S', R')
  BY DEF MACCovered
<1>. HIDE DEF S, R
<1>3. CASE MACIdle(m) \/ MACOverwritten(m)
  <2>1. v6'[m] = v6[m] /\ S' \subseteq S /\ R' \subseteq R
    BY <1>3 DEF MACIdle, MACOverwritten, S, R
  <2>. QED BY <1>1, <2>1, CoveredKept
<1>4. CASE MACBlocked(m)
  <2>1. PICK s \in Session :
          v6'[m] = v6[m] + 1 /\ S' \subseteq S \cup {s} /\ R' \subseteq R
    BY <1>4 DEF MACBlocked, S, R
  <2>2. Covered(v6[m] + 1, S', R')
    BY <1>1, <2>1, CoveredGrows
  <2>. QED BY <2>1, <2>2
<1>5. CASE MACTaken(m)
  <2>1. PICK s \in S, r \in Reconnector :
          v6'[m] = v6[m] /\ S' \subseteq S \ {s} /\ R' \subseteq R \cup {r}
    BY <1>5 DEF MACTaken, S, R
  <2>2. Cardinality(S') \in Nat /\ Cardinality(S') <= Cardinality(S) - 1
    BY <1>1, <2>1, CountShrinks
  <2>3. Cardinality(R') \in Nat /\ Cardinality(R') <= Cardinality(R) + 1
    BY <1>1, <2>1, CountGrows
  <2>4. Cardinality(S) \in Nat /\ Cardinality(R) \in Nat
    BY <1>1, FS_CardinalityType
  <2>. QED BY <1>1, <2>1, <2>2, <2>3, <2>4 DEF Covered
<1>6. CASE MACUnblocked(m)
  <2>1. PICK r \in R : /\ v6'[m] = (IF v6[m] > 0 THEN v6[m] - 1 ELSE 0) \/ v6'[m] = v6[m]
                       /\ S' \subseteq S /\ R' \subseteq R \ {r}
    BY <1>6 DEF MACUnblocked, S, R
  <2>2. v6'[m] >= v6[m] - 1
    BY <1>1, <2>1
  <2>. QED BY <1>1, <2>1, <2>2, CoveredRepaid
<1>7. CASE MACAbandoned(m)
  <2>1. v6'[m] = v6[m] /\ S' \subseteq S /\ R' \subseteq R
    BY <1>7 DEF MACAbandoned, S, R
  <2>. QED BY <1>1, <2>1, CoveredKept
<1>. QED BY <1>3, <1>4, <1>5, <1>6, <1>7 DEF MACStep

\* As long as insertions succeed, an isolated device has a rule by MAC, so IPv6 gives
\* it no way round the block: neither a failing deletion, nor a flush of the IPv4
\* rules, nor a crash, nor another isolation of the same device takes it away
\* (isolation.go, blockMAC against unblockMAC).
IsolatedHasMACRule ==
  \A ip \in IP : isolations[ip] # None => v6[call[isolations[ip]].mac] > 0

\* That rule is there whatever else fails, for the count of those who rely on it never
\* exceeds the rules (isolation.go, blockMAC, publish and unblockMAC).
THEOREM IsolationBlocksMAC == ASSUME "insert" \notin Fault PROVE Spec => []IsolatedHasMACRule
<1>. DEFINE Inv == MapMatchesSessions /\ \A m \in MAC : MACCovered(m)
<1>1. Init => Inv
  <2>1. Init => \A m \in MAC : MACCovered(m)
    BY InitMAC, FS_EmptySet DEF MACCovered, Covered
  <2>. QED BY <2>1, InitMap
<1>2. TypeOK /\ TypeOK' /\ Inv /\ [Next]_vars => Inv'
  BY NextMap, EveryMACStep, NextMACCovered
<1>3. TypeOK /\ Inv => IsolatedHasMACRule
  <2>. SUFFICES ASSUME TypeOK, Inv, NEW ip \in IP, isolations[ip] # None
                PROVE  v6[call[isolations[ip]].mac] > 0
    BY DEF IsolatedHasMACRule
  <2>. DEFINE s == isolations[ip]
              m == call[s].mac
  <2>1. s \in Session /\ m \in MAC
    BY DEF TypeOK, MapMatchesSessions, MapNamesLive, Addressed, Running
  <2>2. s \in MACSessions(m) /\ IsFiniteSet(MACSessions(m)) /\ IsFiniteSet(MACReleases(m))
    BY <2>1, MACCounts DEF MACSessions
  <2>3. /\ Cardinality(MACSessions(m)) \in Nat \ {0} /\ Cardinality(MACReleases(m)) \in Nat
    BY <2>2, FS_CardinalityType, FS_EmptySet
  <2>4. v6[m] \in Nat /\ v6[m] >= Cardinality(MACSessions(m)) + Cardinality(MACReleases(m))
    BY <2>1 DEF TypeOK, MACCovered, Covered
  <2>. QED BY <2>3, <2>4
<1>. HIDE DEF Inv
<1>. QED BY <1>1, <1>2, <1>3, TypeCorrect, PTL DEF Spec

\* When orders do not overlap, deletions do not fail and the program lives, every
\* rule by MAC is somebody's to delete.
LEMMA NextMACWithin ==
  ASSUME Serial, "crash" \notin Fault, TypeOK, TypeOK', OrdersAlone,
         NEW m \in MAC, MACStep(m), MACWithin(m)
  PROVE  MACWithin(m)'
<1>. DEFINE S == MACSessions(m)
            R == MACReleases(m)
<1>1. /\ v6[m] \in Nat /\ v6'[m] \in Nat
      /\ IsFiniteSet(S) /\ IsFiniteSet(S') /\ IsFiniteSet(R) /\ IsFiniteSet(R')
      /\ Within(v6[m], S, R)
  BY MACCounts DEF TypeOK, MACWithin
<1>2. SUFFICES Within(v6'[m], S', R')
  BY DEF MACWithin
<1>. HIDE DEF S, R
<1>3. CASE MACIdle(m) \/ MACOverwritten(m)
  <2>1. v6'[m] <= v6[m] /\ S \subseteq S' /\ R \subseteq R'
    BY <1>1, <1>3 DEF MACIdle, MACOverwritten, S, R
  <2>. QED BY <1>1, <2>1, WithinKept
<1>4. CASE MACBlocked(m)
  <2>1. PICK s \in S' : /\ v6'[m] = v6[m] + 1 \/ v6'[m] = v6[m]
                        /\ S \subseteq S' \ {s} /\ R \subseteq R'
    BY <1>4 DEF MACBlocked, S, R
  <2>2. CASE v6'[m] = v6[m] + 1
    BY <1>1, <2>1, <2>2, WithinGrows
  <2>3. CASE v6'[m] = v6[m]
    <3>1. v6'[m] <= v6[m] /\ S \subseteq S'
      BY <1>1, <2>1, <2>3
    <3>. QED BY <1>1, <2>1, <3>1, WithinKept
  <2>. QED BY <2>1, <2>2, <2>3
<1>5. CASE MACTaken(m)
  <2>1. PICK s \in S, r \in R' :
          v6'[m] = v6[m] /\ S \subseteq S' \cup {s} /\ R \subseteq R' \ {r}
    BY <1>5 DEF MACTaken, S, R
  <2>. QED BY <1>1, <2>1, WithinMoves
<1>6. CASE MACUnblocked(m)
  <2>1. PICK r \in R : /\ v6'[m] = IF v6[m] > 0 THEN v6[m] - 1 ELSE 0
                       /\ S \subseteq S' /\ R \subseteq R' \cup {r}
    BY <1>6 DEF MACUnblocked, Serial, S, R
  <2>2. v6'[m] = 0 \/ v6'[m] = v6[m] - 1
    BY <2>1
  <2>. QED BY <1>1, <2>1, <2>2, WithinRepaid
<1>7. ~ MACAbandoned(m)
  BY DEF MACAbandoned
<1>. QED BY <1>3, <1>4, <1>5, <1>6, <1>7 DEF MACStep

\* A MAC that no isolation, no order and no reconnection is about has no rule: when
\* orders do not overlap and deletions do not fail, a rule by MAC outlives its device's
\* isolation only through a crash, after which nothing deletes it (isolation.go,
\* reconnectDevice and cleanOrphanRules, which never looks at ip6tables).
ForgottenMACIsFree ==
  \A m \in MAC :
    /\ \A s \in Session : call[s].mac = m =>
         call[s].phase # "publish" /\ \A ip \in IP : isolations[ip] # s
    /\ \A r \in Reconnector : release[r].phase # "idle" => release[r].mac # m
    => v6[m] = 0

\* The same count from above: whoever inserted a rule by MAC is there to delete it
\* (isolation.go, unblockMAC).
THEOREM ReleaseFreesMAC ==
  ASSUME Serial, "crash" \notin Fault PROVE Spec => []ForgottenMACIsFree
<1>. DEFINE Inv == \A m \in MAC : MACWithin(m)
<1>1. Init => Inv
  BY InitMAC, FS_EmptySet DEF MACWithin, Within
<1>2. FreeInv /\ FreeInv' /\ Inv /\ [Next]_vars => Inv'
  BY Serial, EveryMACStep, NextMACWithin DEF FreeInv
<1>3. FreeInv /\ Inv => ForgottenMACIsFree
  <2>. SUFFICES ASSUME FreeInv, Inv, NEW m \in MAC,
                       \A s \in Session : call[s].mac = m =>
                         call[s].phase # "publish" /\ \A ip \in IP : isolations[ip] # s,
                       \A r \in Reconnector : release[r].phase # "idle" => release[r].mac # m
                PROVE  v6[m] = 0
    BY DEF ForgottenMACIsFree
  <2>1. MACSessions(m) = {} /\ MACReleases(m) = {}
    BY DEF MACSessions, MACReleases
  <2>2. v6[m] \in Nat /\ v6[m] <= 0 + 0
    BY <2>1, FS_EmptySet DEF MACWithin, Within, FreeInv, TypeOK
  <2>. QED BY <2>2
<1>. HIDE DEF Inv
<1>. QED BY <1>1, <1>2, <1>3, FreeInvariant, PTL DEF Spec

=============================================================================
