----------------------------- MODULE MCPersistence -----------------------------
(* Persistence for TLC: handlers, recorders and devices are interchangeable. *)
EXTENDS Persistence, TLC

Symmetry ==
  Permutations(Handler) \cup Permutations(Recorder) \cup Permutations(MAC)

=============================================================================
