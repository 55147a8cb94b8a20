------------------------------ MODULE MCSpoofing ------------------------------
(***************************************************************************)
(* Instance of Spoofing for TLC.                                           *)
(***************************************************************************)
EXTENDS Spoofing

=============================================================================
