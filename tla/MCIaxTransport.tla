---------------------------- MODULE MCIaxTransport ----------------------------
(* Instances of IaxTransport for TLC. *)
EXTENDS IaxTransport, TLC

CONSTANTS a, b

ThreeAndOne == a :> 3 @@ b :> 1
Two == a :> 2 @@ b :> 0

\* A session before the wrap of its sequence numbers, with a gap behind it; and
\* one that was transferred and has exchanged a first frame.
Sessions ==
    {[seqno |-> 254, lastvnak |-> 253, heartbeats |-> FALSE],
     [seqno |-> 1, lastvnak |-> 255, heartbeats |-> TRUE]}

\* A session that was transferred a moment ago.
Transferred == {[seqno |-> 0, lastvnak |-> 255, heartbeats |-> TRUE]}

=============================================================================
