------------------------------ MODULE Quarantine ------------------------------
(***************************************************************************)
(* What containment promises to its user, with no goroutine, command or    *)
(* rule count in sight: a device is shown as held only while its traffic   *)
(* is blocked.  A device is blocked before it is held and is released      *)
(* before its block goes; whoever restarts the program finds nothing held. *)
(***************************************************************************)
CONSTANT Device

VARIABLES held, blocked

Init == held = {} /\ blocked = {}

\* Both rules of a device are now in the kernel.
Arm(d) == d \notin blocked /\ blocked' = blocked \cup {d} /\ UNCHANGED held

\* The dashboard shows the device as isolated.
Hold(d) ==
  /\ d \in blocked
  /\ held' = held \cup {d}
  /\ UNCHANGED blocked

Release(d) == d \in held /\ held' = held \ {d} /\ UNCHANGED blocked

\* Only a device nobody holds loses its block.
Disarm(d) == d \notin held /\ blocked' = blocked \ {d} /\ UNCHANGED held

\* The program dies: it holds nothing any more, the blocks survive it.
Crash == held' = {} /\ UNCHANGED blocked

\* The program starts: it lifts what an earlier run left blocked.
Startup == held = {} /\ blocked' \subseteq blocked /\ UNCHANGED held

Next ==
  \/ \E d \in Device : Arm(d) \/ Hold(d) \/ Release(d) \/ Disarm(d)
  \/ Crash
  \/ Startup

Spec == Init /\ [][Next]_<<held, blocked>>

=============================================================================
