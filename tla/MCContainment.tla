---------------------------- MODULE MCContainment ----------------------------
(* Small instances of Containment for TLC: which processes are alike. *)
EXTENDS Containment, TLC

\* Sessions are interchangeable and so are the users; sound for invariants.
Alike == Permutations(Session) \cup Permutations(User)

=============================================================================
