------------------------------ MODULE MCExposure ------------------------------
(***************************************************************************)
(* Instance of Exposure for TLC.                                           *)
(***************************************************************************)
EXTENDS Exposure

CONSTANTS a, e1

\* The run starts with devices that are there, closed and not trusted, and
\* with one mapping, to one of them.
MCInit ==
  /\ Init
  /\ device = [ip \in IP |-> [ports |-> {}, trusted |-> FALSE]]
  /\ router = <<[external |-> e1, ip |-> a]>>

MCSpec == MCInit /\ [][Next]_vars /\ Fairness

=============================================================================
