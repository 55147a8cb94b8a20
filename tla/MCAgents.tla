------------------------------- MODULE MCAgents -------------------------------
(* Agents for TLC; the .cfg gives it its agents, devices, orders and faults. *)
EXTENDS Agents, TLC

CONSTANT Busy

\* One agent has all the devices.
OneOwner == [d \in Device |-> Busy]

=============================================================================
