------------------------------- MODULE MCSweep -------------------------------
(***************************************************************************)
(* Instance of Sweep for TLC.                                              *)
(***************************************************************************)
EXTENDS Sweep

MCIPNet == [family |-> 4, base |-> 0, size |-> 4]

MCMaxRange == [family \in {4, 6} |-> IF family = 4 THEN 8 ELSE 32]

\* A range too large, an IPv6 one without hosts, and our own network once more, so
\* that its addresses are candidates twice.
MCREDES_EXTRAS ==
  <<[family |-> 4, base |-> 16, size |-> 16], [family |-> 6, base |-> 64, size |-> 2],
    [family |-> 4, base |-> 0, size |-> 4]>>

\* The run starts with one of the two hosts up.
MCInit == Init /\ up = {1}

MCSpec == MCInit /\ [][Next]_vars /\ Fairness

=============================================================================
