----------------------------- MODULE MCMonitoring -----------------------------
(* Monitoring for TLC; each .cfg gives it its devices and what may change.   *)
EXTENDS Monitoring, TLC

=============================================================================
