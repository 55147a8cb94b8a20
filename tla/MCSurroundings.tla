---------------------------- MODULE MCSurroundings ----------------------------
(***************************************************************************)
(* Instance of Surroundings for TLC.                                       *)
(***************************************************************************)
EXTENDS Surroundings

Network(protocols, named) == [protocols |-> protocols, named |-> named]

\* An open network, the usual one, the usual one without a name in the list, and one
\* that still accepts WEP.
MCOffered ==
  {Network({}, TRUE), Network({"WPA1", "WPA2"}, TRUE), Network({"WPA1", "WPA2"}, FALSE),
   Network({"WEP", "WPA2"}, TRUE)}

=============================================================================
