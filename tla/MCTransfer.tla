------------------------------ MODULE MCTransfer ------------------------------
(* Instances of Transfer for TLC. *)
EXTENDS Transfer, TLC

CONSTANTS a1, a2, b1, A, B

\* a1 and a2 are behind one NAT, b1 is not.
MCIp == (a1 :> "A") @@ (a2 :> "A") @@ (b1 :> "B")

Symmetry == Permutations(Client)

\* No step reads out, what the relay sent in the step before.
View == <<session, addr, ready, net, bounds, relayTables>>

=============================================================================
