------------------------------ MODULE FrameStream ------------------------------
(***************************************************************************)
(* What the reliable full frames of an IAX session promise, without        *)
(* sequence numbers, acknowledgements or a network: each peer writes a     *)
(* numbered stream of frames, the other one is handed a prefix of it in    *)
(* order and once, and a peer believes in the delivery of no more frames   *)
(* than were delivered (iax_send and iax_header_to_event in iax.c).        *)
(***************************************************************************)
EXTENDS Naturals, Sequences

CONSTANTS
    Peer,       \* the two ends of the session
    Other(_)    \* the end opposite to a peer

VARIABLES
    sent,       \* how many frames a peer has written to its stream
    got,        \* the frames a peer was handed, in order
    acked,      \* how many of its frames a peer believes delivered
    up          \* the peers that have not ended the session

vars == <<sent, got, acked, up>>

Init ==
    /\ sent = [p \in Peer |-> 0]
    /\ got = [p \in Peer |-> <<>>]
    /\ acked = [p \in Peer |-> 0]
    /\ up = [p \in Peer |-> TRUE]

Write(p) ==
    /\ up[p]
    /\ sent' = [sent EXCEPT ![p] = @ + 1]
    /\ UNCHANGED <<got, acked, up>>

\* A frame may bring news of the other direction with it.
Learn(p) ==
    \E n \in acked[p] .. Len(got[Other(p)]) : acked' = [acked EXCEPT ![p] = n]

\* The next frame, and no other, is handed to the application.
Deliver(p) ==
    /\ up[p]
    /\ Len(got[p]) < sent[Other(p)]
    /\ got' = [got EXCEPT ![p] = Append(@, Len(@) + 1)]
    /\ Learn(p)
    /\ UNCHANGED <<sent, up>>

Confirm(p) ==
    /\ up[p]
    /\ Learn(p)
    /\ UNCHANGED <<sent, got, up>>

End(p) ==
    /\ up[p]
    /\ up' = [up EXCEPT ![p] = FALSE]
    /\ Learn(p)
    /\ UNCHANGED <<sent, got>>

Next == \E p \in Peer : Write(p) \/ Deliver(p) \/ Confirm(p) \/ End(p)

Spec == Init /\ [][Next]_vars

=============================================================================
