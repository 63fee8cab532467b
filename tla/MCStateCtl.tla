------------------------------ MODULE MCStateCtl ------------------------------
(* Instances of StateCtl for TLC. *)
EXTENDS StateCtl, TLC

CONSTANTS c1, c2, c3, n1, n2, s1, s2, s3

\* Two calls of one number: it redials.
Redial == c1 :> n1 @@ c2 :> n1

\* Two calls of one number, a third one of another
TwoOfOne == c1 :> n1 @@ c2 :> n1 @@ c3 :> n2

\* A text without its key leaves confs locked, and everybody waits from then on.
NoLeak == leaked = Nobody

=============================================================================
