---------------------------- MODULE MCRelayServer ----------------------------
(* Instances of RelayServer for TLC. *)
EXTENDS RelayServer, TLC

CONSTANTS a1, a2, b1, c1, c2, t1, t2

\* a1 and a2 share an IP: two clients of one network, or one that was rebound.
MCIp == (a1 :> "A") @@ (a2 :> "A") @@ (b1 :> "B")

\* Tokens, call numbers and the ports of one IP are compared only for equality.
Symmetry == Permutations(Token) \cup Permutations(Callno) \cup Permutations({a1, a2})

\* No step reads out, the datagrams of the step before.
View == <<routes, nroutes, rti, index>>

=============================================================================
