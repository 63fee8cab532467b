------------------------------ MODULE IaxTransport ------------------------------
(***************************************************************************)
(* Reliable full frames between the two ends of an IAX session (iax.c:     *)
(* iax_send, iax_reliable_xmit, iax_header_to_event, iax_handle_vnak,      *)
(* iax2_vnak and the frames of schedq in iax_get_event).                   *)
(*                                                                         *)
(* Sequence numbers are bytes.  Every full frame carries its own number    *)
(* and the number its sender expects next, which acknowledges all smaller  *)
(* ones.  A frame stays in schedq until it is acknowledged or its retries  *)
(* are used up; a receiver that misses a frame asks for it with a VNAK.    *)
(* UDP loses, reorders and duplicates: what was sent stays in net and may  *)
(* be received later, again, or never.  Timers fire at any time.           *)
(* Frames without a sequence number (mini frames) are not modelled.        *)
(***************************************************************************)
EXTENDS Integers, Sequences, FiniteSets

CONSTANTS
    Peer,           \* the two ends
    MaxSend,        \* bound on the frames a peer writes, for each peer
    MaxRetries,     \* maxretries
    Starts          \* the points of a session's life at which a behaviour may begin:
                    \* the sequence numbers both ends have reached, lastvnak (255: no
                    \* gap yet), and whether it was transferred and HEARTBEATs flow

Byte == 0 .. 255

ASSUME TransportAssumption ==
    /\ Cardinality(Peer) = 2 /\ IsFiniteSet(Peer)
    /\ MaxSend \in [Peer -> 0 .. 100]   \* half the sequence space is not used up
    /\ MaxRetries \in Nat
    /\ Starts \subseteq [seqno : Byte, lastvnak : Byte, heartbeats : BOOLEAN]

Other(p) == CHOOSE q \in Peer : q # p

VARIABLES
    start,      \* where the behaviour began; never changes
    oseqno,     \* next sequence number to send
    iseqno,     \* next sequence number expected
    rseqno,     \* first sequence number not acknowledged
    lastvnak,   \* iseqno at the last VNAK sent
    schedq,     \* frames to be retransmitted, with the retries left; -1: acknowledged
    net,        \* every frame that was sent
    up,         \* the session exists
    sent,       \* frames the application has written
    got,        \* frames the application was handed
    early       \* the values of iseqno at which a frame was early

seqnos == <<oseqno, iseqno, rseqno, lastvnak>>
vars == <<start, oseqno, iseqno, rseqno, lastvnak, schedq, net, up, sent, got, early>>

Kind == {"DATA", "ACK", "VNAK", "HEARTBEAT", "HANGUP"}

\* n is the place of the frame in its sender's stream (DATA only).
Frame == [from : Peer, kind : Kind, oseqno : Byte, iseqno : Byte, n : Nat]

Dist(a, b) == (a - b) % 256

Control(p, kind, o, i) == [from |-> p, kind |-> kind, oseqno |-> o, iseqno |-> i, n |-> 0]

Ack(p, f, i) == Control(p, "ACK", f.iseqno, i)

-----------------------------------------------------------------------------
(* iax_send *)

Write(p) ==
    /\ up[p]
    /\ sent[p] < MaxSend[p]
    /\ LET f == [from |-> p, kind |-> "DATA", oseqno |-> oseqno[p],
                 iseqno |-> iseqno[p], n |-> sent[p] + 1]
       IN  /\ net' = net \cup {f}
           /\ schedq' = [schedq EXCEPT ![p] = @ \cup {[frame |-> f, retries |-> MaxRetries]}]
    /\ oseqno' = [oseqno EXCEPT ![p] = (@ + 1) % 256]
    /\ sent' = [sent EXCEPT ![p] = @ + 1]
    /\ UNCHANGED <<iseqno, rseqno, lastvnak, up, got, early>>

\* Sequence number 0, nothing acknowledged, not retransmitted.
SendHeartbeat(p) ==
    /\ up[p] /\ start.heartbeats
    /\ net' = net \cup {Control(p, "HEARTBEAT", 0, 0)}
    /\ UNCHANGED <<seqnos, schedq, up, sent, got, early>>

\* iax_hangup: the session is destroyed at once, so its last frame is sent once.
Close(p) ==
    /\ net' = net \cup {Control(p, "HANGUP", oseqno[p], iseqno[p])}
    /\ up' = [up EXCEPT ![p] = FALSE]
    /\ schedq' = [schedq EXCEPT ![p] = {}]
    /\ UNCHANGED <<seqnos, sent, got, early>>

Hangup(p) == up[p] /\ Close(p)

-----------------------------------------------------------------------------
(* iax_header_to_event: what a frame acknowledges *)

Unchecked(p, f) == f.kind # "HEARTBEAT"        \* mutant: any iseqno is believed

Confirms(p, f) ==
    /\ f.kind # "HEARTBEAT"
    /\ Dist(f.iseqno, rseqno[p]) <= Dist(oseqno[p], rseqno[p])

NewRseqno(p, f) == IF Confirms(p, f) THEN [rseqno EXCEPT ![p] = f.iseqno] ELSE rseqno

\* mutant: the frame the peer expects next is acknowledged as well
MarkAckedNext(p, f) ==
    {IF Confirms(p, f) /\ Dist(e.frame.oseqno, rseqno[p]) <= Dist(f.iseqno, rseqno[p])
     THEN [e EXCEPT !.retries = -1] ELSE e : e \in schedq[p]}

MarkAcked(p, f) ==
    {IF Confirms(p, f) /\ Dist(e.frame.oseqno, rseqno[p]) < Dist(f.iseqno, rseqno[p])
     THEN [e EXCEPT !.retries = -1] ELSE e : e \in schedq[p]}

Arrives(p, f) ==
    /\ up[p]
    /\ f \in net /\ f.from = Other(p)
    /\ rseqno' = NewRseqno(p, f)
    /\ schedq' = [schedq EXCEPT ![p] = MarkAcked(p, f)]
    /\ UNCHANGED <<oseqno, sent>>

-----------------------------------------------------------------------------
(* iax_header_to_event: order *)

Expected(p, f) ==
    \/ f.oseqno = iseqno[p]
    \/ f.kind = "HEARTBEAT" /\ iseqno[p] = 0

\* iseqno is incremented, and what is now expected is acknowledged.
Advance(p, f) ==
    /\ iseqno' = [iseqno EXCEPT ![p] = (@ + 1) % 256]
    /\ net' = net \cup {Ack(p, f, (iseqno[p] + 1) % 256)}

Deliver(p, f) ==
    /\ f.kind = "DATA" /\ Expected(p, f)
    /\ Arrives(p, f)
    /\ Advance(p, f)
    /\ got' = [got EXCEPT ![p] = Append(@, f.n)]
    /\ UNCHANGED <<lastvnak, up, early>>

SeenBefore(p, f) == Dist(iseqno[p], f.oseqno) < 128

Repeat(p, f) ==
    /\ f.kind = "DATA" /\ ~Expected(p, f) /\ SeenBefore(p, f)
    /\ Arrives(p, f)
    /\ net' = net \cup {Ack(p, f, iseqno[p])}
    /\ UNCHANGED <<iseqno, lastvnak, up, got, early>>

AlwaysTold(p) == TRUE                          \* mutant: no VNAK is ever sent

AlreadyTold(p) == Dist(lastvnak[p], iseqno[p]) < 128

\* A frame from the future: iax2_vnak asks for the missing ones.
Early(p, f) ==
    /\ f.kind = "DATA" /\ ~Expected(p, f) /\ ~SeenBefore(p, f)
    /\ Arrives(p, f)
    /\ IF AlreadyTold(p)
       THEN UNCHANGED <<lastvnak, net>>
       ELSE /\ lastvnak' = [lastvnak EXCEPT ![p] = iseqno[p]]
            /\ net' = net \cup {Control(p, "VNAK", iseqno[p], iseqno[p])}
    /\ early' = [early EXCEPT ![p] = @ \cup {iseqno[p]}]
    /\ UNCHANGED <<iseqno, up, got>>

TakeAck(p, f) ==
    /\ f.kind = "ACK"
    /\ Arrives(p, f)
    /\ UNCHANGED <<iseqno, lastvnak, net, up, got, early>>

TakeHeartbeat(p, f) ==
    /\ f.kind = "HEARTBEAT"
    /\ Arrives(p, f)
    /\ IF Expected(p, f) THEN Advance(p, f) ELSE UNCHANGED <<iseqno, net>>
    /\ UNCHANGED <<lastvnak, up, got, early>>

-----------------------------------------------------------------------------
(* iax_handle_vnak *)

\* The frames of schedq from the missing one on, acknowledged or not.  They are
\* sent in an order that net does not keep.
Resend(p, f) ==
    {e.frame : e \in {e \in MarkAcked(p, f) :
        Dist(f.iseqno, rseqno'[p]) <= Dist(e.frame.oseqno, rseqno'[p])}}

TakeVnak(p, f) ==
    /\ f.kind = "VNAK"
    /\ Arrives(p, f)
    /\ net' = net \cup Resend(p, f)
    /\ UNCHANGED <<iseqno, lastvnak, up, got, early>>

\* A HANGUP is taken out of order, too, and ends the session.
TakeHangup(p, f) ==
    /\ f.kind = "HANGUP"
    /\ up[p] /\ f \in net /\ f.from = Other(p)
    /\ rseqno' = NewRseqno(p, f)
    /\ schedq' = [schedq EXCEPT ![p] = {}]
    /\ IF Expected(p, f) THEN Advance(p, f) ELSE UNCHANGED <<iseqno, net>>
    /\ up' = [up EXCEPT ![p] = FALSE]
    /\ UNCHANGED <<oseqno, lastvnak, sent, got, early>>

Receive(p, f) ==
    \/ Deliver(p, f) \/ Repeat(p, f) \/ Early(p, f)
    \/ TakeAck(p, f) \/ TakeHeartbeat(p, f) \/ TakeVnak(p, f) \/ TakeHangup(p, f)

-----------------------------------------------------------------------------
(* iax_get_event: the timer of a frame in schedq *)

FreeAcked(p, e) ==
    /\ e.retries < 0
    /\ schedq' = [schedq EXCEPT ![p] = @ \ {e}]
    /\ UNCHANGED <<seqnos, net, up, sent, got, early>>

SameRetries(e) == e                            \* mutant: frame->retries-- is missing

OneRetryLess(e) == [e EXCEPT !.retries = @ - 1]

\* The frame is sent again as it is: what it acknowledges is not brought up to date.
Retransmit(p, e) ==
    /\ e.retries > 0
    /\ schedq' = [schedq EXCEPT ![p] = (@ \ {e}) \cup {OneRetryLess(e)}]
    /\ UNCHANGED <<seqnos, net, up, sent, got, early>>

\* IAX_EVENT_TIMEOUT makes the library hang up.
TimeOut(p, e) == e.retries = 0 /\ Close(p)

Timer(p) ==
    \E e \in schedq[p] : FreeAcked(p, e) \/ Retransmit(p, e) \/ TimeOut(p, e)

-----------------------------------------------------------------------------

Init ==
    /\ start \in Starts
    /\ oseqno = [p \in Peer |-> start.seqno]
    /\ iseqno = [p \in Peer |-> start.seqno]
    /\ rseqno = [p \in Peer |-> start.seqno]
    /\ lastvnak = [p \in Peer |-> start.lastvnak]
    /\ schedq = [p \in Peer |-> {}]
    /\ net = {}
    /\ up = [p \in Peer |-> TRUE]
    /\ sent = [p \in Peer |-> 0]
    /\ got = [p \in Peer |-> <<>>]
    /\ early = [p \in Peer |-> {}]

Next ==
    /\ UNCHANGED start
    /\ \E p \in Peer :
        \/ Write(p) \/ SendHeartbeat(p) \/ Hangup(p)
        \/ \E f \in net : Receive(p, f)
        \/ Timer(p)

Spec == Init /\ [][Next]_vars

\* The library looks at its timers every few milliseconds.  Nothing is assumed
\* of the network.
FairSpec == Spec /\ \A p \in Peer : WF_vars(Timer(p) /\ UNCHANGED start)

-----------------------------------------------------------------------------
(* Properties *)

TypeOK ==
    /\ start \in Starts
    /\ oseqno \in [Peer -> Byte] /\ iseqno \in [Peer -> Byte]
    /\ rseqno \in [Peer -> Byte] /\ lastvnak \in [Peer -> Byte]
    /\ schedq \in [Peer -> SUBSET [frame : Frame, retries : -1 .. MaxRetries]]
    /\ net \subseteq Frame
    /\ up \in [Peer -> BOOLEAN]
    /\ sent \in [Peer -> Nat] /\ \A p \in Peer : sent[p] <= MaxSend[p]
    /\ got \in [Peer -> Seq(Nat)]
    /\ early \in [Peer -> SUBSET Byte]

\* How many frames of its stream a peer believes delivered.
Acked == [p \in Peer |-> Dist(rseqno[p], start.seqno)]

Stream == INSTANCE FrameStream WITH acked <- Acked

\* Each end is handed the frames the other wrote, in order and once, and no frame
\* counts as acknowledged that was not handed over, whatever the network does.
ImplementsStream == Stream!Spec

\* A frame leaves schedq only when it was handed over or the session has ended.
NothingIsForgotten ==
    \A p \in Peer : up[p] =>
        \A n \in 1 .. sent[p] :
            \/ n <= Len(got[Other(p)])
            \/ \E e \in schedq[p] : e.frame.n = n /\ e.retries >= 0

\* Every frame is handed over or its sender learns of the failure.
FrameArrivesOrTimesOut ==
    \A p \in Peer : \A n \in 1 .. MaxSend[p] :
        sent[p] >= n ~> n <= Len(got[Other(p)]) \/ ~up[p]

\* "Send a VNAK requesting retransmission": whenever a frame is early, a
\* VNAK for the one that is missing has been sent or is sent now.
GapIsReported ==
    \A p \in Peer : \A i \in early[p] :
        \E v \in net : v.from = p /\ v.kind = "VNAK" /\ v.oseqno = i

\* "If we've already seen it, ack it": only frames that were handed over count as
\* acknowledged.
AckedWereSeen == \A p \in Peer : Acked[p] <= Len(got[Other(p)])

=============================================================================
