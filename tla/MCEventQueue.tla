---------------------------- MODULE MCEventQueue ----------------------------
(* Instances of EventQueue for TLC. *)
EXTENDS EventQueue, TLC

CONSTANTS app1, app2

Symmetry == Permutations(App)

=============================================================================
