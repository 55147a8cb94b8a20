----------------------------- MODULE AgentsProofs -----------------------------
(***************************************************************************)
(* Theorems about the distributed mode, for any number of agents, devices, *)
(* orders and faults: the types, that what the central's user is told      *)
(* agrees with what the agent did, and that the list the central shows has *)
(* no device of an agent that it reports as failing.                       *)
(***************************************************************************)
EXTENDS Agents, TLAPS

-----------------------------------------------------------------------------
(* Lists *)

\* A list with what another says of an agent's devices is a list (refreshCache,
\* refreshAgents).
LEMMA MergedType ==
  ASSUME NEW list \in [Device -> Status], NEW a, NEW other \in [Device -> Status]
  PROVE  Merged(list, a, other) \in [Device -> Status]
  BY DEF Merged

\* What a scan finds is a list, and never None (scanNetwork).
LEMMA FoundType ==
  ASSUME NEW a
  PROVE  Found(a) \in [Device -> Status]
  BY DEF Found, Status

\* The empty list is a list.
LEMMA UnlistedType == Unlisted \in [Device -> Status]
  BY DEF Unlisted, Status

\* An order that has not been given has the shape of an order.
LEMMA NoOrderType == NoOrder \in OrderState
  BY DEF NoOrder, OrderState

\* A poll that has not begun has the shape of a poll.
LEMMA NoPollType == NoPoll \in PollState
  BY UnlistedType DEF NoPoll, PollState

-----------------------------------------------------------------------------
(* Types *)

\* The initial state has the types (the variables of agent.go before main starts
\* the loops).
LEMMA InitType == Init => TypeOK
  BY UnlistedType, NoOrderType, NoPollType, BoundAssumption DEF Init, TypeOK

\* Every step keeps the types (all handlers and loops of agent.go).
LEMMA NextType == TypeOK /\ [Next]_vars => TypeOK'
<1> SUFFICES ASSUME TypeOK, [Next]_vars PROVE TypeOK'
  OBVIOUS
<1> USE DEF TypeOK, agentSide, central
<1>1. ASSUME NEW a \in Agent, loopScans(a) PROVE TypeOK'
  BY <1>1, FoundType DEF loopScans
<1>2. ASSUME NEW a \in Agent, loopPublishes(a) PROVE TypeOK'
  <2>1. scan[a] \in [Device -> Status]
    BY <1>2 DEF loopPublishes
  <2>2. cache' \in [Device -> Status]
    BY <1>2, <2>1, MergedType DEF loopPublishes
  <2> QED BY <1>2, <2>2 DEF loopPublishes
<1>3. CASE refreshAgents
  BY <1>3, UnlistedType DEF refreshAgents, PollState
<1>4. ASSUME NEW a \in Agent, fetchAgent(a) PROVE TypeOK'
  <2>1. Merged(poll.merged, a, cache) \in [Device -> Status]
    BY MergedType DEF PollState
  <2> QED BY <1>4, <2>1 DEF fetchAgent, PollState
<1>5. ASSUME NEW a \in Agent, fetchFails(a) PROVE TypeOK'
  <2>1. poll' \in PollState
    BY <1>5 DEF fetchFails, PollState
  <2>2. changes' \in 0 .. MaxChanges
    BY <1>5, BoundAssumption DEF fetchFails
  <2> QED BY <1>5, <2>1, <2>2 DEF fetchFails
<1>6. CASE pollEnds
  BY <1>6, NoPollType DEF pollEnds, PollState, Listed
<1>7. ASSUME NEW o \in Order, NEW kind \in {"isolar", "reconectar"}, NEW d \in Device,
             submit(o, kind, d)
      PROVE  TypeOK'
  <2>1. order' \in [Order -> OrderState]
    BY <1>7 DEF submit, OrderState
  <2> QED BY <1>7, <2>1 DEF submit
<1>8. ASSUME NEW o \in Order, serve(o) PROVE TypeOK'
  <2> DEFINE scanning == [order[o] EXCEPT !.server = "scanning", !.applied = TRUE]
             refused == [order[o] EXCEPT !.server = "refused"]
  <2>a. scanning \in OrderState /\ refused \in OrderState
    BY DEF OrderState
  <2>b. order' = [order EXCEPT ![o] = scanning] \/ order' = [order EXCEPT ![o] = refused]
    BY <1>8 DEF serve
  <2> HIDE DEF scanning, refused
  <2>1. order' \in [Order -> OrderState]
    BY <2>a, <2>b
  <2>2. isolations' \subseteq Device
    BY <1>8 DEF serve, Accepted, Contained
  <2> QED BY <1>8, <2>1, <2>2 DEF serve
<1>9. ASSUME NEW o \in Order, serverScans(o) PROVE TypeOK'
  BY <1>9, FoundType DEF serverScans
<1>10. ASSUME NEW o \in Order, serverPublishes(o) PROVE TypeOK'
  <2>1. scan[o] \in [Device -> Status]
    BY <1>10 DEF serverPublishes
  <2>2. cache' \in [Device -> Status]
    BY <1>10, <2>1, MergedType DEF serverPublishes
  <2>3. order' \in [Order -> OrderState]
    BY <1>10 DEF serverPublishes, OrderState
  <2> QED BY <1>10, <2>2, <2>3 DEF serverPublishes
<1>11. ASSUME NEW o \in Order, answer(o) PROVE TypeOK'
  <2>1. order' \in [Order -> OrderState]
    BY <1>11 DEF answer, Outcome, OrderState
  <2> QED BY <1>11, <2>1 DEF answer
<1>12. ASSUME NEW o \in Order, timeout(o) PROVE TypeOK'
  <2> DEFINE failed == [order[o] EXCEPT !.client = "failed"]
  <2>a. failed \in OrderState
    BY DEF OrderState
  <2>b. order' = [order EXCEPT ![o] = failed]
    BY <1>12 DEF timeout
  <2> HIDE DEF failed
  <2>1. order' \in [Order -> OrderState]
    BY <2>a, <2>b
  <2> QED BY <1>12, <2>1 DEF timeout
<1>13. ASSUME NEW o \in Order, drop(o) PROVE TypeOK'
  <2>1. order' \in [Order -> OrderState]
    BY <1>13 DEF drop, OrderState
  <2> QED BY <1>13, <2>1 DEF drop
<1>14. ASSUME NEW o \in Order, close(o) PROVE TypeOK'
  BY <1>14, NoOrderType DEF close
<1>15. ASSUME NEW a \in Agent, agentStops(a) PROVE TypeOK'
  <2>1. cache' \in [Device -> Status]
    BY <1>15, MergedType, UnlistedType DEF agentStops
  <2>a. \A o \in Order : [order[o] EXCEPT !.server = "none"] \in OrderState
    BY DEF OrderState
  <2>2. order' \in [Order -> OrderState]
    BY <1>15, <2>a DEF agentStops
  <2>3. scan' \in [Agent \cup Order -> [Device -> Status] \cup {None}]
    BY <1>15 DEF agentStops
  <2> QED BY <1>15, <2>1, <2>2, <2>3, BoundAssumption DEF agentStops, Happens
<1>16. ASSUME NEW a \in Agent, agentStarts(a) PROVE TypeOK'
  BY <1>16, BoundAssumption DEF agentStarts, Happens
<1>17. ASSUME NEW d \in Device, agentActs(d) PROVE TypeOK'
  BY <1>17, BoundAssumption DEF agentActs, Happens
<1>18. ASSUME NEW d \in Device, deviceMoves(d) PROVE TypeOK'
  BY <1>18, BoundAssumption DEF deviceMoves, Happens
<1>19. CASE UNCHANGED vars
  BY <1>19 DEF vars
<1> QED
  BY <1>1, <1>2, <1>3, <1>4, <1>5, <1>6, <1>7, <1>8, <1>9, <1>10, <1>11, <1>12, <1>13,
     <1>14, <1>15, <1>16, <1>17, <1>18, <1>19 DEF Next, agentStep, ask, serveStep

\* In every reachable state every variable of agent.go has its type.
THEOREM TypeCorrect == Spec => []TypeOK
<1>1. Init => TypeOK
  BY InitType
<1>2. TypeOK /\ [Next]_vars => TypeOK'
  BY NextType
<1> QED BY <1>1, <1>2, PTL DEF Spec

-----------------------------------------------------------------------------
(* Answers *)

\* An answer read by the user is that of the request, which is over by then: what
\* the server says so far agrees with the map, no request outlives its answer, and
\* only a request that was accepted is followed by a scan (proxyAction,
\* registerAgentAPI).
Agrees(call, scanned) ==
  /\ scanned # None => call.server = "scanning"
  /\ call.server \in {"scanning", "done"} => call.applied
  /\ call.server \in {"coming", "refused"} => ~ call.applied
  /\ call.client = "ok" => call.applied
  /\ call.client \in {"refused", "local"} => ~ call.applied
  /\ call.client \in {"idle", "ok", "refused", "local"} => call.server = "none"

OrderInv == \A o \in Order : Agrees(order[o], scan[o])

\* Every step keeps the agreement of the two sides of an order (the handlers of
\* both sides, the time limit, and the death of the agent).
LEMMA OrderStep == TypeOK /\ OrderInv /\ [Next]_vars => OrderInv'
<1> SUFFICES ASSUME TypeOK, OrderInv, [Next]_vars PROVE OrderInv'
  OBVIOUS
<1> USE DEF TypeOK, OrderState, OrderInv, Agrees
<1>1. ASSUME NEW o \in Order, NEW kind \in {"isolar", "reconectar"}, NEW d \in Device,
             submit(o, kind, d)
      PROVE  OrderInv'
  <2>1. order[o].server = "none"
    BY <1>1 DEF submit, NoOrder
  <2>2. PICK call \in {[kind |-> kind, device |-> d, applied |-> FALSE,
                       client |-> "waiting", server |-> "coming"],
                      [kind |-> kind, device |-> d, applied |-> FALSE,
                       client |-> "local", server |-> "none"]} :
          order' = [order EXCEPT ![o] = call]
    BY <1>1, Zenon DEF submit
  <2>3. Agrees(call, scan[o])
    BY <2>1
  <2> QED BY <1>1, <2>2, <2>3 DEF submit
<1>2. ASSUME NEW o \in Order, serve(o) PROVE OrderInv'
  <2> DEFINE scanning == [order[o] EXCEPT !.server = "scanning", !.applied = TRUE]
             refused == [order[o] EXCEPT !.server = "refused"]
  <2>1. Agrees(scanning, scan[o]) /\ Agrees(refused, scan[o])
    BY <1>2 DEF serve
  <2>2. order' = [order EXCEPT ![o] = scanning] \/ order' = [order EXCEPT ![o] = refused]
    BY <1>2 DEF serve
  <2> HIDE DEF scanning, refused
  <2> QED BY <1>2, <2>1, <2>2 DEF serve
<1>3. ASSUME NEW o \in Order, serverPublishes(o) PROVE OrderInv'
  BY <1>3 DEF serverPublishes
<1>4. ASSUME NEW o \in Order, answer(o) PROVE OrderInv'
  BY <1>4 DEF answer, Outcome
<1>5. ASSUME NEW o \in Order, timeout(o) PROVE OrderInv'
  BY <1>5 DEF timeout
<1>6. ASSUME NEW o \in Order, drop(o) PROVE OrderInv'
  BY <1>6 DEF drop
<1>7. ASSUME NEW o \in Order, close(o) PROVE OrderInv'
  BY <1>7 DEF close, NoOrder
<1>8. ASSUME NEW a \in Agent, agentStops(a) PROVE OrderInv'
  BY <1>8 DEF agentStops
<1>9. ASSUME NEW a \in Agent, loopScans(a) \/ loopPublishes(a) PROVE OrderInv'
  BY <1>9, ProcessAssumption DEF loopScans, loopPublishes
<1>10. ASSUME NEW o \in Order, serverScans(o) PROVE OrderInv'
  BY <1>10 DEF serverScans
<1>11. CASE UNCHANGED <<order, scan>>
  BY <1>11
<1>12. ASSUME NEW a \in Agent, ask(a) \/ agentStarts(a) PROVE OrderInv'
  BY <1>11, <1>12 DEF ask, fetchAgent, fetchFails, agentStarts
<1>13. ASSUME NEW d \in Device, agentActs(d) \/ deviceMoves(d) PROVE OrderInv'
  BY <1>11, <1>13 DEF agentActs, deviceMoves
<1>14. CASE refreshAgents \/ pollEnds \/ UNCHANGED vars
  BY <1>11, <1>14 DEF refreshAgents, pollEnds, vars
<1> HIDE DEF TypeOK, OrderState, OrderInv, Agrees
<1> QED
  BY <1>1, <1>2, <1>3, <1>4, <1>5, <1>6, <1>7, <1>8, <1>9, <1>10, <1>12, <1>13, <1>14
  DEF Next, agentStep, serveStep

\* The central's user is told of a success only when the agent did what was ordered,
\* and of a refusal only when it did not, though the agent may die, the answer may
\* come too late and the agent may act on its own (proxyAction, registerAgentAPI).
THEOREM AnswersCorrect == Spec => []AnswersAgree
<1>1. Init => OrderInv
  BY DEF Init, NoOrder, OrderInv, Agrees
<1>2. TypeOK /\ OrderInv /\ [Next]_vars => OrderInv'
  BY OrderStep
<1>3. OrderInv => AnswersAgree
  BY DEF OrderInv, Agrees, AnswersAgree
<1> QED BY <1>1, <1>2, <1>3, TypeCorrect, PTL DEF Spec

-----------------------------------------------------------------------------
(* The contract *)

\* What is told and done of one order changes with its record, and of no other.
LEMMA OneOrder ==
  ASSUME TypeOK, NEW o \in Order, NEW call \in OrderState, order' = [order EXCEPT ![o] = call]
  PROVE  /\ told' = [told EXCEPT ![o] = ToldOf(call)]
         /\ done' = [done EXCEPT ![o] = call.applied]
         /\ call.applied = order[o].applied => done' = done
         /\ ToldOf(call) = ToldOf(order[o]) => told' = told
  BY DEF TypeOK, told, done

\* A step that neither tells the user nor carries out anything is none of Delegation's.
LEMMA Silent ==
  ASSUME \A o \in Order : /\ order'[o].client = order[o].client
                          /\ order'[o].applied = order[o].applied
  PROVE  UNCHANGED <<told, done>>
  BY DEF told, done, ToldOf

\* Every step of the central and of the agents is one of Delegation's or none of them
\* (proxyAction, registerAgentAPI, the time limit and the death of the agent).
LEMMA StepIsAgreed == TypeOK /\ OrderInv /\ [Next]_vars => [Contract!Next]_<<told, done>>
<1> SUFFICES ASSUME TypeOK, OrderInv, [Next]_vars PROVE [Contract!Next]_<<told, done>>
  OBVIOUS
<1>1. ASSUME NEW o \in Order, NEW kind \in {"isolar", "reconectar"}, NEW d \in Device,
             submit(o, kind, d)
      PROVE  [Contract!Next]_<<told, done>>
  <2>1. order[o] = NoOrder
    BY <1>1 DEF submit
  <2>2. told[o] = "idle" /\ done[o] = FALSE
    BY <2>1 DEF told, done, ToldOf, NoOrder
  <2>3. PICK call \in {[kind |-> kind, device |-> d, applied |-> FALSE,
                       client |-> "waiting", server |-> "coming"],
                      [kind |-> kind, device |-> d, applied |-> FALSE,
                       client |-> "local", server |-> "none"]} :
          order' = [order EXCEPT ![o] = call]
    BY <1>1, Zenon DEF submit
  <2>4. /\ ToldOf(call) \in {"waiting", "refused"}
        /\ call.applied = order[o].applied /\ call \in OrderState
    <3>1. call \in OrderState
      <4>1. \A client \in {"waiting", "local"}, server \in {"coming", "none"} :
              [kind |-> kind, device |-> d, applied |-> FALSE,
               client |-> client, server |-> server] \in OrderState
        BY DEF OrderState
      <4> QED BY <2>3, <4>1
    <3>2. ToldOf(call) \in {"waiting", "refused"} /\ call.applied = FALSE
      BY <2>3 DEF ToldOf
    <3>3. order[o].applied = FALSE
      BY <2>1 DEF NoOrder
    <3> QED BY <3>1, <3>2, <3>3
  <2>5. told' = [told EXCEPT ![o] = ToldOf(call)] /\ done' = done
    BY <2>3, <2>4, OneOrder
  <2>6. Contract!Give(o) \/ Contract!Reject(o)
    BY <2>2, <2>4, <2>5 DEF Contract!Give, Contract!Reject
  <2> QED BY <2>6 DEF Contract!Next
<1>2. ASSUME NEW o \in Order, serve(o) PROVE [Contract!Next]_<<told, done>>
  <2> DEFINE scanning == [order[o] EXCEPT !.server = "scanning", !.applied = TRUE]
             refused == [order[o] EXCEPT !.server = "refused"]
  <2>1. CASE order' = [order EXCEPT ![o] = scanning]
    <3>1. /\ scanning \in OrderState /\ scanning.applied = TRUE
          /\ ToldOf(scanning) = ToldOf(order[o])
      BY DEF TypeOK, OrderState, ToldOf
    <3>2. order[o].client \in {"waiting", "failed"} /\ order[o].applied = FALSE
      BY <1>2 DEF serve, OrderInv, Agrees, TypeOK, OrderState
    <3>3. told[o] \in {"waiting", "failed"} /\ done[o] = FALSE
      BY <3>2 DEF told, done, ToldOf
    <3> HIDE DEF scanning
    <3>4. told' = told /\ done' = [done EXCEPT ![o] = TRUE]
      BY <2>1, <3>1, OneOrder
    <3> QED BY <3>3, <3>4 DEF Contract!Next, Contract!CarryOut
  <2>2. CASE order' = [order EXCEPT ![o] = refused]
    BY <2>2, Silent DEF TypeOK, OrderState
  <2>3. order' = [order EXCEPT ![o] = scanning] \/ order' = [order EXCEPT ![o] = refused]
    BY <1>2 DEF serve
  <2> QED BY <2>1, <2>2, <2>3
<1>3. ASSUME NEW o \in Order, answer(o) PROVE [Contract!Next]_<<told, done>>
  <2>1. CASE order[o].client # "waiting"
    BY <1>3, <2>1, Silent DEF answer, TypeOK, OrderState
  <2>2. CASE order[o].client = "waiting"
    <3>1. Outcome(o) = IF order[o].applied THEN "ok" ELSE "refused"
      BY <1>3 DEF answer, Outcome, OrderInv, Agrees, TypeOK, OrderState
    <3>2. told[o] = "waiting" /\ Outcome(o) = IF done[o] THEN "ok" ELSE "refused"
      BY <2>2, <3>1 DEF told, done, ToldOf
    <3>3. PICK call : /\ order' = [order EXCEPT ![o] = call]
                      /\ call = [order[o] EXCEPT !.client = Outcome(o), !.server = "none"]
      BY <1>3, <2>2 DEF answer
    <3>4. /\ call.applied = order[o].applied /\ ToldOf(call) = Outcome(o)
          /\ call \in OrderState
      BY <3>3, <3>1 DEF ToldOf, TypeOK, OrderState
    <3>5. told' = [told EXCEPT ![o] = Outcome(o)] /\ done' = done
      BY <3>3, <3>4, OneOrder
    <3> QED BY <3>2, <3>5 DEF Contract!Next, Contract!Answer
  <2> QED BY <2>1, <2>2
<1>4. ASSUME NEW o \in Order, timeout(o) PROVE [Contract!Next]_<<told, done>>
  <2>1. PICK call : /\ order' = [order EXCEPT ![o] = call]
                    /\ call = [order[o] EXCEPT !.client = "failed"]
    BY <1>4 DEF timeout
  <2>2. /\ call.applied = order[o].applied /\ ToldOf(call) = "failed"
        /\ call \in OrderState
    BY <2>1 DEF ToldOf, TypeOK, OrderState
  <2>3. told[o] = "waiting"
    BY <1>4 DEF timeout, told, ToldOf
  <2>4. told' = [told EXCEPT ![o] = "failed"] /\ done' = done
    BY <2>1, <2>2, OneOrder
  <2> QED BY <2>3, <2>4 DEF Contract!Next, Contract!GiveUp
<1>5. ASSUME NEW o \in Order, close(o) PROVE [Contract!Next]_<<told, done>>
  <2>1. told[o] \in {"ok", "refused", "failed"}
    BY <1>5 DEF close, told, ToldOf, TypeOK, OrderState
  <2>2. ToldOf(NoOrder) = "idle" /\ NoOrder.applied = FALSE
    BY DEF ToldOf, NoOrder
  <2>3. told' = [told EXCEPT ![o] = "idle"] /\ done' = [done EXCEPT ![o] = FALSE]
    BY <1>5, <2>2, NoOrderType, OneOrder DEF close
  <2> QED BY <2>1, <2>3 DEF Contract!Next, Contract!Close
<1>6. ASSUME NEW o \in Order, serverScans(o) \/ serverPublishes(o) \/ drop(o)
      PROVE  UNCHANGED <<told, done>>
  BY <1>6, Silent DEF serverScans, serverPublishes, drop, TypeOK, OrderState
<1>7. ASSUME NEW a \in Agent, agentStops(a) PROVE UNCHANGED <<told, done>>
  BY <1>7, Silent DEF agentStops, TypeOK, OrderState
<1>8. ASSUME NEW a \in Agent, agentStep(a) \/ ask(a) \/ agentStarts(a)
      PROVE  UNCHANGED <<told, done>>
  BY <1>8, Silent DEF agentStep, loopScans, loopPublishes, ask, fetchAgent, fetchFails, agentStarts
<1>9. ASSUME NEW d \in Device, agentActs(d) \/ deviceMoves(d) PROVE UNCHANGED <<told, done>>
  BY <1>9, Silent DEF agentActs, deviceMoves
<1>10. CASE refreshAgents \/ pollEnds \/ UNCHANGED vars
  BY <1>10, Silent DEF refreshAgents, pollEnds, vars
<1> QED
  BY <1>1, <1>2, <1>3, <1>4, <1>5, <1>6, <1>7, <1>8, <1>9, <1>10 DEF Next, serveStep

\* The distributed mode implements Delegation: an order is carried out at most once,
\* and what its user was told stays true until the next order (proxyAction).
THEOREM ContractKept == Spec => KeepsContract
<1>1. Init => Contract!Init
  BY DEF Init, Contract!Init, told, done, ToldOf, NoOrder
<1>2. Init => OrderInv
  BY DEF Init, NoOrder, OrderInv, Agrees
<1>3. TypeOK /\ OrderInv /\ [Next]_vars => OrderInv' /\ [Contract!Next]_<<told, done>>
  BY OrderStep, StepIsAgreed
<1> QED BY <1>1, <1>2, <1>3, TypeCorrect, PTL DEF Spec, KeepsContract, Contract!Spec

-----------------------------------------------------------------------------
(* Errors *)

\* What a poll has gathered so far is of agents that have answered: none that has
\* still to, and none that has failed (refreshAgents).
PollInv ==
  /\ poll.asked \cap poll.failures = {}
  /\ \A d \in Device :
       poll.merged[d] # "absent" => Owner[d] \notin poll.asked \cup poll.failures

\* Every step keeps what the poll has gathered apart from what has failed, and the
\* list that is shown apart from the errors (refreshAgents, fetchAgent).
LEMMA PollStep ==
  TypeOK /\ PollInv /\ ErrorsHideDevices /\ [Next]_vars => PollInv' /\ ErrorsHideDevices'
<1> SUFFICES ASSUME TypeOK, PollInv, ErrorsHideDevices, [Next]_vars
             PROVE  PollInv' /\ ErrorsHideDevices'
  OBVIOUS
<1> USE DEF TypeOK, PollState, PollInv, ErrorsHideDevices, Listed
<1>1. CASE refreshAgents
  BY <1>1 DEF refreshAgents, Unlisted
<1>2. ASSUME NEW a \in Agent, fetchAgent(a) PROVE PollInv' /\ ErrorsHideDevices'
  BY <1>2 DEF fetchAgent, Merged
<1>3. ASSUME NEW a \in Agent, fetchFails(a) PROVE PollInv' /\ ErrorsHideDevices'
  BY <1>3 DEF fetchFails
<1>4. CASE pollEnds
  BY <1>4 DEF pollEnds, NoPoll, Unlisted
<1>5. CASE UNCHANGED central
  BY <1>5 DEF central
<1> QED
  BY <1>1, <1>2, <1>3, <1>4, <1>5
  DEF Next, agentStep, ask, serveStep, central, loopScans, loopPublishes, submit, serve,
      serverScans, serverPublishes, answer, timeout, drop, close, agentStops, agentStarts,
      agentActs, deviceMoves, vars

\* However many agents there are and whichever of them fail, the list and the errors
\* that the central shows are of one poll: no agent is in both (refreshAgents).
THEOREM ErrorsApart == Spec => []ErrorsHideDevices
<1>1. Init => PollInv /\ ErrorsHideDevices
  BY DEF Init, NoPoll, Unlisted, PollInv, ErrorsHideDevices, Listed
<1>2. TypeOK /\ PollInv /\ ErrorsHideDevices /\ [Next]_vars => PollInv' /\ ErrorsHideDevices'
  BY PollStep
<1> QED BY <1>1, <1>2, TypeCorrect, PTL DEF Spec

=============================================================================
