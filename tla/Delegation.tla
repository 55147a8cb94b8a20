------------------------------ MODULE Delegation ------------------------------
(***************************************************************************)
(* What the central promises to whoever gives an order through it, with no *)
(* network, scan or list in sight: the order is carried out at most once,  *)
(* the user is told one thing and never another, success means that it was *)
(* carried out, and a refusal that it was not and will not be.  Only who   *)
(* was told of a failure cannot know: the order may still be carried out.  *)
(***************************************************************************)
CONSTANT Order

VARIABLES told, done

Init == told = [o \in Order |-> "idle"] /\ done = [o \in Order |-> FALSE]

Give(o) ==
  /\ told[o] = "idle"
  /\ told' = [told EXCEPT ![o] = "waiting"]
  /\ UNCHANGED done

\* Nobody to carry it out.
Reject(o) ==
  /\ told[o] = "idle"
  /\ told' = [told EXCEPT ![o] = "refused"]
  /\ UNCHANGED done

CarryOut(o) ==
  /\ told[o] \in {"waiting", "failed"} /\ ~ done[o]
  /\ done' = [done EXCEPT ![o] = TRUE]
  /\ UNCHANGED told

Answer(o) ==
  /\ told[o] = "waiting"
  /\ told' = [told EXCEPT ![o] = IF done[o] THEN "ok" ELSE "refused"]
  /\ UNCHANGED done

GiveUp(o) ==
  /\ told[o] = "waiting"
  /\ told' = [told EXCEPT ![o] = "failed"]
  /\ UNCHANGED done

\* The user has read the outcome.
Close(o) ==
  /\ told[o] \in {"ok", "refused", "failed"}
  /\ told' = [told EXCEPT ![o] = "idle"]
  /\ done' = [done EXCEPT ![o] = FALSE]

Next ==
  \E o \in Order :
    Give(o) \/ Reject(o) \/ CarryOut(o) \/ Answer(o) \/ GiveUp(o) \/ Close(o)

Spec == Init /\ [][Next]_<<told, done>>

=============================================================================
