----------------------------- MODULE MCConference -----------------------------
(* Instances of Conference for TLC. *)
EXTENDS Conference, TLC

CONSTANTS k1, p1, p2, m1, m2, a1, a2, a3

=============================================================================
