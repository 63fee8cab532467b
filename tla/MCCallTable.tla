------------------------------ MODULE MCCallTable ------------------------------
(* Instances of CallTable for TLC. *)
EXTENDS CallTable, TLC

CONSTANTS s1, s2, s3, c1, c2, c3, c4

Symmetry == Permutations(Slot) \cup Permutations(Callno)

=============================================================================
