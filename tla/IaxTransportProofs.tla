--------------------------- MODULE IaxTransportProofs ---------------------------
(***************************************************************************)
(* Proofs about IaxTransport: its invariants, and that it implements       *)
(* FrameStream.                                                            *)
(*                                                                         *)
(* The invariant reads every sequence number as a place in one of the two  *)
(* streams, counted from the start of the session.  Two places of a stream *)
(* are less than half of the sequence space apart, so that a byte tells    *)
(* them apart, and the window of acknowledgements tells old from new.      *)
(***************************************************************************)
EXTENDS IaxTransport, FiniteSetTheorems, TLAPS

\* A HEARTBEAT has no number of its own and takes the one of the frame with number 0
\* (the run transport_heartbeat).  Sessions with HEARTBEATs are taken between two wraps.
HeartbeatsAvoidZero == \A s \in Starts : s.heartbeats => s.seqno \in 1 .. 155

\* The number of place k of either stream
NumberOf(s, k) == (s + k) % 256
At(k) == NumberOf(start.seqno, k)

\* What lastvnak is at the start does not look like the number of a gap to come.
GapsAreNews ==
    \A s \in Starts : \A k \in 0 .. 100 : Dist(s.lastvnak, NumberOf(s.seqno, k)) >= 128

\* What a peer is handed is a prefix of what the other one wrote.
PrefixInv ==
    \A p \in Peer :
        /\ Len(got[p]) <= sent[Other(p)]
        /\ \A i \in 1 .. Len(got[p]) : got[p][i] = i

\* The sequence numbers are places: what was written, and what was handed over here.
NumberInv ==
    \A p \in Peer :
        /\ oseqno[p] = At(sent[p])
        /\ up[p] => iseqno[p] = At(Len(got[p]))

\* What counts as acknowledged was handed over at the other end.
AckInv == \A p \in Peer : \E m \in 0 .. Len(got[Other(p)]) : rseqno[p] = At(m)

\* What a frame says of its sender was true when it was sent.
Honest(f) ==
    /\ f.kind = "DATA" => f.n \in 1 .. sent[f.from] /\ f.oseqno = At(f.n - 1)
    /\ f.kind # "HEARTBEAT" /\ up[Other(f.from)] =>
           \E m \in 0 .. Len(got[f.from]) : f.iseqno = At(m)
    /\ f.kind = "HEARTBEAT" => start.heartbeats /\ f.oseqno = 0
    /\ f.kind = "HANGUP" => ~up[f.from]

NetInv == \A f \in net : Honest(f)

\* schedq holds frames of the stream that were sent, and none after the session.
QueueInv ==
    \A p \in Peer : \A e \in schedq[p] :
        up[p] /\ e.frame \in net /\ e.frame.from = p /\ e.frame.kind = "DATA"

IInv ==
    /\ TypeOK /\ PrefixInv /\ NumberInv /\ AckInv /\ NetInv /\ QueueInv
    /\ NothingIsForgotten

\* lastvnak was chosen before the session began, or a VNAK says the same.
GapInv ==
    \A p \in Peer :
        \/ lastvnak[p] = start.lastvnak
        \/ \E k \in 0 .. Len(got[p]) :
               /\ lastvnak[p] = At(k)
               /\ \E v \in net : v.from = p /\ v.kind = "VNAK" /\ v.oseqno = lastvnak[p]

-----------------------------------------------------------------------------
(* Places and peers *)

\* There are two ends.
LEMMA Pair == \A p \in Peer : Other(p) \in Peer /\ Other(p) # p /\ Other(Other(p)) = p
<1> SUFFICES ASSUME NEW p \in Peer
             PROVE  Other(p) \in Peer /\ Other(p) # p /\ Other(Other(p)) = p
  OBVIOUS
<1>1. Cardinality(Peer \ {p}) = 1 /\ IsFiniteSet(Peer \ {p})
  BY TransportAssumption, FS_RemoveElement
<1>2. PICK q : Peer \ {p} = {q}
  BY <1>1, FS_Singleton
<1>3. Peer = {p, q} /\ q # p
  BY <1>2
<1> QED BY <1>3 DEF Other

\* How far place i of a stream is after place j, in bytes
Apart(i, j) == IF i >= j THEN i - j ELSE 256 + i - j

\* A byte tells numbers apart that are less than half of the sequence space apart.
LEMMA Bytes ==
    ASSUME NEW s \in Byte, NEW i \in 0 .. 101, NEW j \in 0 .. 101
    PROVE  /\ NumberOf(s, i) \in Byte
           /\ Dist(NumberOf(s, i), NumberOf(s, j)) = Apart(i, j)
BY DEF NumberOf, Dist, Byte, Apart

\* So it tells the places of a stream apart; an earlier place is far away.
LEMMA Distance ==
    ASSUME start.seqno \in Byte, NEW i \in 0 .. 101, NEW j \in 0 .. 101
    PROVE  /\ At(i) \in Byte
           /\ Dist(At(i), At(j)) = Apart(i, j)
BY Bytes, Zenon DEF At

\* Numbers are counted from the start of the session, one by one.
LEMMA Steps ==
    ASSUME NEW s \in Byte, NEW i \in 0 .. 101
    PROVE  /\ NumberOf(s, 0) = s
           /\ (NumberOf(s, i) + 1) % 256 = NumberOf(s, i + 1)
           /\ Dist(NumberOf(s, i), s) = i
BY DEF NumberOf, Dist, Byte

\* So are the places of a stream.
LEMMA Place ==
    ASSUME start.seqno \in Byte, NEW i \in 0 .. 101
    PROVE  /\ At(0) = start.seqno
           /\ (At(i) + 1) % 256 = At(i + 1)
           /\ Dist(At(i), start.seqno) = i
BY Steps DEF At

\* The facts every step uses
Basics ==
    /\ start.seqno \in Byte /\ start \in Starts
    /\ \A p \in Peer :
        /\ sent[p] \in Nat /\ sent[p] <= 100
        /\ Len(got[p]) \in Nat /\ Len(got[p]) <= sent[Other(p)] /\ Len(got[p]) <= 100

LEMMA Bounds == TypeOK /\ PrefixInv => Basics
<1> SUFFICES ASSUME TypeOK, PrefixInv PROVE Basics
  OBVIOUS
<1>1. start \in Starts /\ start.seqno \in Byte
  BY TransportAssumption DEF TypeOK
<1>2. ASSUME NEW p \in Peer PROVE sent[p] \in Nat /\ sent[p] <= 100
  <2>1. MaxSend[p] \in 0 .. 100
    BY TransportAssumption
  <2>2. sent[p] \in Nat /\ sent[p] <= MaxSend[p]
    BY DEF TypeOK
  <2> QED BY <2>1, <2>2
<1>3. ASSUME NEW p \in Peer
      PROVE  Len(got[p]) \in Nat /\ Len(got[p]) <= sent[Other(p)] /\ Len(got[p]) <= 100
  <2>1. Other(p) \in Peer
    BY Pair
  <2>2. got[p] \in Seq(Nat)
    BY DEF TypeOK
  <2>3. Len(got[p]) \in Nat
    BY <2>2
  <2>4. Len(got[p]) <= sent[Other(p)]
    BY DEF PrefixInv
  <2>5. sent[Other(p)] \in Nat /\ sent[Other(p)] <= 100
    BY <1>2, <2>1
  <2> QED BY <2>3, <2>4, <2>5
<1> QED BY <1>1, <1>2, <1>3 DEF Basics

-----------------------------------------------------------------------------
(* What a frame acknowledges *)

\* An acknowledgement moves rseqno to a later place, or leaves it where it is.
LEMMA Acknowledges ==
    ASSUME IInv, NEW p \in Peer, NEW f \in net, up[p], f.from = Other(p), Confirms(p, f),
           NEW r \in 0 .. Len(got[Other(p)]), rseqno[p] = At(r)
    PROVE  \E m \in r .. Len(got[Other(p)]) : f.iseqno = At(m)
<1>1. Basics /\ Other(p) \in Peer /\ Other(Other(p)) = p
  BY Bounds, Pair DEF IInv
<1> DEFINE L == Len(got[Other(p)])  S == sent[p]
<1>2. PICK m \in 0 .. L : f.iseqno = At(m)
  BY <1>1 DEF IInv, NetInv, Honest, Confirms
<1>3. oseqno[p] = At(S)
  BY DEF IInv, NumberInv
<1>4. L \in Nat /\ S \in Nat /\ L <= S /\ S <= 100
  BY <1>1 DEF Basics
<1>5. start.seqno \in Byte
  BY <1>1 DEF Basics
<1>6. Dist(f.iseqno, At(r)) <= Dist(At(S), At(r))
  BY <1>3 DEF Confirms
<1> HIDE DEF L, S
<1>7. r \in 0 .. 101 /\ m \in 0 .. 101 /\ S \in 0 .. 101 /\ r <= S
  BY <1>4 DEF L
<1>8. Dist(At(S), At(r)) = Apart(S, r) /\ Dist(At(m), At(r)) = Apart(m, r)
  BY <1>5, <1>7, Distance, Zenon
<1>9. Apart(m, r) <= Apart(S, r)
  BY <1>2, <1>6, <1>8
<1>10. m >= r
  BY <1>4, <1>7, <1>9 DEF Apart
<1> QED BY <1>2, <1>10 DEF L

\* The entries of schedq that are marked are those of frames that were handed over.
LEMMA Marked ==
    ASSUME IInv, NEW p \in Peer, NEW f \in net, up[p], f.from = Other(p), Confirms(p, f),
           NEW e \in schedq[p],
           Dist(e.frame.oseqno, rseqno[p]) < Dist(f.iseqno, rseqno[p])
    PROVE  e.frame.n <= Len(got[Other(p)])
<1>1. Basics /\ Other(p) \in Peer /\ Other(Other(p)) = p
  BY Bounds, Pair DEF IInv
<1> DEFINE L == Len(got[Other(p)])  S == sent[p]  n == e.frame.n  i == n - 1
<1>2. PICK r \in 0 .. L : rseqno[p] = At(r)
  BY DEF IInv, AckInv
<1>3. PICK m \in r .. L : f.iseqno = At(m)
  BY <1>2, Acknowledges
<1>4. n \in 1 .. S /\ e.frame.oseqno = At(i)
  BY DEF IInv, QueueInv, NetInv, Honest
<1>5. start.seqno \in Byte /\ L \in Nat /\ S \in Nat /\ L <= S /\ S <= 100
  BY <1>1 DEF Basics
<1>7. Dist(At(i), At(r)) < Dist(At(m), At(r))
  BY <1>2, <1>3, <1>4
<1> HIDE DEF L, S, n
<1>6. i \in 0 .. 101 /\ n = i + 1
  BY <1>4, <1>5
<1> HIDE DEF i
<1>8. r \in 0 .. 101 /\ m \in 0 .. 101 /\ m >= r
  BY <1>2, <1>3, <1>5
<1>9. Dist(At(m), At(r)) = Apart(m, r) /\ Dist(At(i), At(r)) = Apart(i, r)
  BY <1>5, <1>6, <1>8, Distance, Zenon
<1>10. Apart(i, r) < Apart(m, r)
  BY <1>7, <1>9
<1>11. i < m
  BY <1>6, <1>8, <1>10 DEF Apart
<1>12. n <= L
  BY <1>3, <1>5, <1>6, <1>8, <1>11
<1> QED BY <1>12 DEF L, n

\* A frame of the stream that has the number that is expected is the next one.
LEMMA NextFrame ==
    ASSUME IInv, NEW p \in Peer, NEW f \in net, up[p], f.from = Other(p), f.kind = "DATA",
           f.oseqno = iseqno[p]
    PROVE  f.n = Len(got[p]) + 1 /\ f.n <= sent[Other(p)]
<1>1. Basics /\ Other(p) \in Peer
  BY Bounds, Pair DEF IInv
<1> DEFINE n == f.n  i == n - 1  j == Len(got[p])  S == sent[Other(p)]
<1>2. n \in 1 .. S /\ f.oseqno = At(i)
  BY DEF IInv, NetInv, Honest
<1>3. iseqno[p] = At(j)
  BY DEF IInv, NumberInv
<1>4. start.seqno \in Byte /\ j \in Nat /\ S \in Nat /\ j <= S /\ S <= 100
  BY <1>1 DEF Basics
<1> HIDE DEF n, j, S
<1>5. i \in 0 .. 101 /\ n = i + 1 /\ j \in 0 .. 101
  BY <1>2, <1>4
<1> HIDE DEF i
<1>6. At(i) = At(j)
  BY <1>2, <1>3
<1>7. Dist(At(i), At(j)) = Apart(i, j) /\ Dist(At(j), At(j)) = Apart(j, j)
  BY <1>4, <1>5, Distance, Zenon
<1>8. Apart(i, j) = Apart(j, j)
  BY <1>6, <1>7
<1>9. i = j
  BY <1>5, <1>8 DEF Apart
<1> QED BY <1>2, <1>5, <1>9 DEF n, j, S

\* Between two wraps of the sequence numbers no HEARTBEAT is expected.
LEMMA Unexpected ==
    ASSUME HeartbeatsAvoidZero, IInv, NEW p \in Peer, NEW f \in net, up[p],
           f.kind = "HEARTBEAT"
    PROVE  ~Expected(p, f)
<1>1. Basics
  BY Bounds DEF IInv
<1>2. f.oseqno = 0 /\ start.heartbeats
  BY DEF IInv, NetInv, Honest
<1>3. start.seqno \in 1 .. 155
  BY <1>1, <1>2 DEF HeartbeatsAvoidZero, Basics
<1> DEFINE j == Len(got[p])
<1>4. j \in Nat /\ j <= 100
  BY <1>1 DEF Basics
<1>5. iseqno[p] = At(j)
  BY DEF IInv, NumberInv
<1> HIDE DEF j
<1>6. At(j) # 0
  BY <1>3, <1>4 DEF At, NumberOf
<1> QED BY <1>2, <1>5, <1>6 DEF Expected

-----------------------------------------------------------------------------
(* What every step leaves true *)

\* Streams only grow, and no session comes back.
Later ==
    /\ start' = start /\ net \subseteq net'
    /\ \A p \in Peer :
        /\ sent[p] <= sent'[p]
        /\ Len(got[p]) <= Len(got'[p])
        /\ up'[p] => up[p]

\* The lengths of the streams after a step that has its type
Lengths ==
    \A p \in Peer : sent'[p] \in Nat /\ Len(got[p]) \in Nat /\ Len(got'[p]) \in Nat

LEMMA TypedLengths == TypeOK /\ TypeOK' => Lengths
<1> SUFFICES ASSUME TypeOK, TypeOK', NEW p \in Peer
             PROVE  sent'[p] \in Nat /\ Len(got[p]) \in Nat /\ Len(got'[p]) \in Nat
  BY DEF Lengths
<1>1. sent'[p] \in Nat /\ got[p] \in Seq(Nat) /\ got'[p] \in Seq(Nat)
  BY DEF TypeOK
<1> QED BY <1>1

\* What a frame says stays true.
LEMMA StaysHonest ==
    ASSUME IInv, Later, Lengths, NEW f \in net
    PROVE  Honest(f)'
<1>1. f.from \in Peer /\ Other(f.from) \in Peer /\ Honest(f)
  BY Pair DEF IInv, TypeOK, Frame, NetInv
<1>2. sent[f.from] \in Nat /\ sent[f.from] <= sent'[f.from] /\ sent'[f.from] \in Nat
  BY <1>1 DEF IInv, TypeOK, Later, Lengths
<1>3. /\ Len(got[f.from]) \in Nat /\ Len(got'[f.from]) \in Nat
      /\ Len(got[f.from]) <= Len(got'[f.from])
  BY <1>1 DEF Later, Lengths
<1>4. start' = start /\ (up'[Other(f.from)] => up[Other(f.from)])
      /\ (up'[f.from] => up[f.from])
  BY <1>1 DEF Later
<1>5. \A k : At(k)' = At(k)
  BY <1>4 DEF At
<1>6. f.kind = "DATA" => f.n \in 1 .. sent'[f.from] /\ f.oseqno = At(f.n - 1)'
  BY <1>1, <1>2, <1>5 DEF Honest
<1>7. f.kind # "HEARTBEAT" /\ up'[Other(f.from)] =>
          \E m \in 0 .. Len(got'[f.from]) : f.iseqno = At(m)'
  <2> SUFFICES ASSUME f.kind # "HEARTBEAT", up'[Other(f.from)]
               PROVE  \E m \in 0 .. Len(got'[f.from]) : f.iseqno = At(m)'
    OBVIOUS
  <2>1. PICK m \in 0 .. Len(got[f.from]) : f.iseqno = At(m)
    BY <1>1, <1>4 DEF Honest
  <2>2. m \in 0 .. Len(got'[f.from])
    BY <1>3
  <2> QED BY <1>5, <2>1, <2>2
<1> QED BY <1>1, <1>4, <1>6, <1>7 DEF Honest

\* The network holds what it held, and frames that are true.
LEMMA NetGrows ==
    ASSUME IInv, Later, Lengths, \A f \in net' \ net : Honest(f)'
    PROVE  NetInv'
<1> SUFFICES ASSUME NEW f \in net' PROVE Honest(f)'
  BY DEF NetInv
<1>1. CASE f \in net
  BY <1>1, StaysHonest
<1>2. CASE f \notin net
  BY <1>2
<1> QED BY <1>1, <1>2

\* A frame that acknowledges what was expected is true.
LEMMA HonestControl ==
    ASSUME IInv, Later, Lengths, NEW p \in Peer, NEW o \in Byte, NEW i \in Byte,
           NEW k \in {"ACK", "VNAK", "HANGUP"}, k = "HANGUP" => ~up'[p],
           up'[Other(p)] => \E m \in 0 .. Len(got'[p]) : i = At(m)'
    PROVE  Control(p, k, o, i) \in Frame /\ Honest(Control(p, k, o, i))'
<1> DEFINE c == Control(p, k, o, i)
<1>1. c \in Frame /\ c.from = p /\ c.kind = k /\ c.iseqno = i
  BY DEF Control, Frame, Kind
<1> HIDE DEF c
<1>2. Honest(c)'
  BY <1>1 DEF Honest
<1> QED BY <1>1, <1>2 DEF c

-----------------------------------------------------------------------------
(* The sender's side of a step *)

Entry == [frame : Frame, retries : -1 .. MaxRetries]

\* An entry of schedq keeps its frame, and its retries unless it is acknowledged.
LEMMA Entries ==
    ASSUME NEW p \in Peer, NEW f, schedq[p] \subseteq Entry
    PROVE  /\ \A d \in MarkAcked(p, f) :
                  d \in Entry /\ \E e \in schedq[p] : d.frame = e.frame
           /\ \A e \in schedq[p] : \E d \in MarkAcked(p, f) :
                  /\ d.frame = e.frame
                  /\ \/ d.retries = e.retries
                     \/ /\ Confirms(p, f)
                        /\ Dist(e.frame.oseqno, rseqno[p]) < Dist(f.iseqno, rseqno[p])
<1> DEFINE C(e) == Confirms(p, f)
                       /\ Dist(e.frame.oseqno, rseqno[p]) < Dist(f.iseqno, rseqno[p])
           mark(e) == IF C(e) THEN [e EXCEPT !.retries = -1] ELSE e
<1>1. MarkAcked(p, f) = {mark(e) : e \in schedq[p]}
  BY DEF MarkAcked
<1>2. ASSUME NEW e \in schedq[p]
      PROVE  /\ mark(e) \in Entry /\ mark(e).frame = e.frame
             /\ mark(e).retries = e.retries \/ C(e)
  <2>1. e \in [frame : Frame, retries : -1 .. MaxRetries]
    BY DEF Entry
  <2>2. -1 \in -1 .. MaxRetries
    BY TransportAssumption
  <2>3. CASE C(e)
    <3>1. mark(e) = [e EXCEPT !.retries = -1]
      BY <2>3
    <3> HIDE DEF C, mark
    <3> QED BY <2>1, <2>2, <2>3, <3>1 DEF Entry
  <2>4. CASE ~C(e)
    <3>1. mark(e) = e
      BY <2>4
    <3> HIDE DEF C, mark
    <3> QED BY <3>1 DEF Entry
  <2> QED BY <2>3, <2>4
<1> HIDE DEF mark
<1> QED BY <1>1, <1>2

\* The sender's part of the invariant
SenderInv ==
    /\ rseqno \in [Peer -> Byte] /\ schedq \in [Peer -> SUBSET Entry]
    /\ AckInv /\ QueueInv /\ NothingIsForgotten

\* What a frame that arrives does to rseqno
LEMMA NewAcked ==
    ASSUME IInv, Later, Lengths, NEW p \in Peer, NEW f \in net, up[p], f.from = Other(p),
           rseqno' = NewRseqno(p, f)
    PROVE  rseqno' \in [Peer -> Byte] /\ AckInv'
<1>1. rseqno \in [Peer -> Byte] /\ f.iseqno \in Byte
  BY DEF IInv, TypeOK, Frame
<1>2. rseqno' \in [Peer -> Byte]
  BY <1>1 DEF NewRseqno
<1>3. ASSUME NEW q \in Peer
      PROVE  \E m \in 0 .. Len(got'[Other(q)]) : rseqno'[q] = At(m)'
  <2>1. PICK r \in 0 .. Len(got[Other(q)]) : rseqno[q] = At(r)
    BY DEF IInv, AckInv
  <2>2. Other(q) \in Peer /\ start' = start
    BY Pair DEF Later
  <2>3. \A k : At(k)' = At(k)
    BY <2>2 DEF At
  <2>4. \A m \in 0 .. Len(got[Other(q)]) : m \in 0 .. Len(got'[Other(q)])
    BY <2>2 DEF Later, Lengths
  <2>5. CASE q = p /\ Confirms(p, f)
    <3>1. PICK m \in r .. Len(got[Other(p)]) : f.iseqno = At(m)
      BY <2>1, <2>5, Acknowledges
    <3>2. rseqno'[q] = f.iseqno
      BY <1>1, <2>5 DEF NewRseqno
    <3>3. m \in 0 .. Len(got[Other(q)])
      BY <2>5
    <3> QED BY <2>3, <2>4, <3>1, <3>2, <3>3
  <2>6. CASE ~(q = p /\ Confirms(p, f))
    <3>1. rseqno'[q] = rseqno[q]
      BY <1>1, <2>6 DEF NewRseqno
    <3> QED BY <2>1, <2>3, <2>4, <3>1
  <2> QED BY <2>5, <2>6
<1> QED BY <1>2, <1>3 DEF AckInv

\* What a frame that arrives does to the sender's side
LEMMA Received ==
    ASSUME IInv, Later, Lengths, NEW p \in Peer, NEW f \in net, Arrives(p, f), up' = up
    PROVE  SenderInv'
<1>1. /\ up[p] /\ f.from = Other(p) /\ rseqno' = NewRseqno(p, f)
      /\ schedq' = [schedq EXCEPT ![p] = MarkAcked(p, f)]
      /\ sent' = sent
  BY DEF Arrives
<1>2. rseqno' \in [Peer -> Byte] /\ AckInv'
  BY <1>1, NewAcked
<1>3. schedq \in [Peer -> SUBSET Entry]
  BY DEF IInv, TypeOK, Entry
<1>4. /\ \A d \in MarkAcked(p, f) :
              d \in Entry /\ \E e \in schedq[p] : d.frame = e.frame
      /\ \A e \in schedq[p] : \E d \in MarkAcked(p, f) :
              /\ d.frame = e.frame
              /\ \/ d.retries = e.retries
                 \/ /\ Confirms(p, f)
                    /\ Dist(e.frame.oseqno, rseqno[p]) < Dist(f.iseqno, rseqno[p])
  <2>1. schedq[p] \subseteq Entry
    BY <1>3
  <2> QED BY <2>1, Entries
<1> DEFINE M == MarkAcked(p, f)
<1> HIDE DEF M
<1>5. schedq' = [schedq EXCEPT ![p] = M] /\ M \subseteq Entry
  BY <1>1, <1>4 DEF M
<1>6. schedq' \in [Peer -> SUBSET Entry]
  BY <1>3, <1>5
<1>7. \A q \in Peer : schedq'[q] = IF q = p THEN M ELSE schedq[q]
  BY <1>3, <1>5
<1>8. QueueInv'
  <2> SUFFICES ASSUME NEW q \in Peer, NEW d \in schedq'[q]
               PROVE  up'[q] /\ d.frame \in net' /\ d.frame.from = q
                          /\ d.frame.kind = "DATA"
    BY DEF QueueInv
  <2>1. PICK e \in schedq[q] : d.frame = e.frame
    BY <1>4, <1>7 DEF M
  <2> QED BY <2>1 DEF IInv, QueueInv, Later
<1>9. NothingIsForgotten'
  <2> SUFFICES ASSUME NEW q \in Peer, up'[q], NEW n \in 1 .. sent'[q]
               PROVE  \/ n <= Len(got'[Other(q)])
                      \/ \E d \in schedq'[q] : d.frame.n = n /\ d.retries >= 0
    BY DEF NothingIsForgotten
  <2>1. Other(q) \in Peer
    BY Pair
  <2>2. /\ Len(got[Other(q)]) \in Nat /\ Len(got'[Other(q)]) \in Nat
        /\ Len(got[Other(q)]) <= Len(got'[Other(q)])
    BY <2>1 DEF Later, Lengths
  <2>3. \/ n <= Len(got[Other(q)])
        \/ \E e \in schedq[q] : e.frame.n = n /\ e.retries >= 0
    BY <1>1 DEF IInv, NothingIsForgotten
  <2>4. CASE n <= Len(got[Other(q)])
    BY <2>2, <2>4
  <2>5. ASSUME NEW e \in schedq[q], e.frame.n = n, e.retries >= 0
        PROVE  \/ n <= Len(got'[Other(q)])
               \/ \E d \in schedq'[q] : d.frame.n = n /\ d.retries >= 0
    <3>1. CASE q # p
      BY <1>7, <2>5, <3>1
    <3>2. CASE q = p
      <4>1. PICK d \in M :
                /\ d.frame = e.frame
                /\ \/ d.retries = e.retries
                   \/ /\ Confirms(p, f)
                      /\ Dist(e.frame.oseqno, rseqno[p]) < Dist(f.iseqno, rseqno[p])
        BY <1>4, <3>2 DEF M
      <4>2. CASE d.retries = e.retries
        BY <1>7, <2>5, <3>2, <4>1, <4>2
      <4>3. CASE d.retries # e.retries
        <5>1. e.frame.n <= Len(got[Other(p)])
          BY <1>1, <3>2, <4>1, <4>3, Marked
        <5> QED BY <2>2, <2>5, <3>2, <5>1
      <4> QED BY <4>2, <4>3
    <3> QED BY <3>1, <3>2
  <2> QED BY <2>3, <2>4, <2>5
<1> QED BY <1>2, <1>6, <1>8, <1>9 DEF SenderInv

\* The end of a session empties its schedq.
LEMMA SenderEnds ==
    ASSUME IInv, Later, Lengths, NEW p \in Peer, rseqno' \in [Peer -> Byte], AckInv',
           schedq' = [schedq EXCEPT ![p] = {}], up' = [up EXCEPT ![p] = FALSE],
           sent' = sent, got' = got
    PROVE  SenderInv'
<1>1. schedq \in [Peer -> SUBSET Entry] /\ up \in [Peer -> BOOLEAN]
  BY DEF IInv, TypeOK, Entry
<1>2. schedq' \in [Peer -> SUBSET Entry]
  BY <1>1
<1>3. \A q \in Peer : /\ schedq'[q] = IF q = p THEN {} ELSE schedq[q]
                      /\ up'[q] = IF q = p THEN FALSE ELSE up[q]
  BY <1>1
<1>4. QueueInv'
  <2> SUFFICES ASSUME NEW q \in Peer, NEW e \in schedq'[q]
               PROVE  up'[q] /\ e.frame \in net' /\ e.frame.from = q
                          /\ e.frame.kind = "DATA"
    BY DEF QueueInv
  <2>1. e \in IF q = p THEN {} ELSE schedq[q]
    BY <1>3
  <2>2. q # p /\ e \in schedq[q]
    BY <2>1
  <2>3. up'[q] = up[q]
    BY <1>3, <2>2
  <2> QED BY <2>2, <2>3 DEF IInv, QueueInv, Later
<1>5. NothingIsForgotten'
  <2> SUFFICES ASSUME NEW q \in Peer, up'[q], NEW n \in 1 .. sent'[q]
               PROVE  \/ n <= Len(got'[Other(q)])
                      \/ \E e \in schedq'[q] : e.frame.n = n /\ e.retries >= 0
    BY Zenon DEF NothingIsForgotten
  <2>1. q # p /\ schedq'[q] = schedq[q] /\ up[q]
    BY <1>3
  <2> QED BY <2>1 DEF IInv, NothingIsForgotten
<1> QED BY <1>2, <1>4, <1>5 DEF SenderInv

\* A step of a timer changes one entry, and does not give up one that is awaited.
LEMMA SenderWaits ==
    ASSUME IInv, Later, Lengths, NEW p \in Peer, NEW e \in schedq[p], NEW S \in SUBSET Entry,
           schedq' = [schedq EXCEPT ![p] = (@ \ {e}) \cup S],
           \A d \in S : d.frame = e.frame /\ d.retries >= 0,
           e.retries < 0 \/ S # {},
           rseqno' = rseqno, sent' = sent, got' = got, up' = up
    PROVE  SenderInv'
<1>1. schedq \in [Peer -> SUBSET Entry] /\ rseqno \in [Peer -> Byte]
  BY DEF IInv, TypeOK, Entry
<1>2. schedq' \in [Peer -> SUBSET Entry]
  BY <1>1
<1>3. \A q \in Peer : schedq'[q] = IF q = p THEN (schedq[p] \ {e}) \cup S ELSE schedq[q]
  BY <1>1
<1>4. QueueInv'
  BY <1>3 DEF IInv, QueueInv, Later
<1>5. e.retries \in Int
  <2>1. e \in [frame : Frame, retries : -1 .. MaxRetries]
    BY <1>1 DEF Entry
  <2> QED BY <2>1
<1>6. ASSUME NEW q \in Peer, up'[q], NEW n \in 1 .. sent'[q]
      PROVE  \/ n <= Len(got'[Other(q)])
             \/ \E d \in schedq'[q] : d.frame.n = n /\ d.retries >= 0
  <2>1. CASE n <= Len(got[Other(q)])
    BY <2>1
  <2>2. ASSUME NEW c \in schedq[q], c.frame.n = n, c.retries >= 0
        PROVE  \E d \in schedq'[q] : d.frame.n = n /\ d.retries >= 0
    <3>1. CASE q = p /\ c = e
      <4>1. PICK d \in S : TRUE
        BY <1>5, <2>2, <3>1
      <4> QED BY <1>3, <2>2, <3>1, <4>1
    <3>2. CASE ~(q = p /\ c = e)
      <4>1. c \in schedq'[q]
        BY <1>3, <3>2
      <4> QED BY <2>2, <4>1
    <3> QED BY <3>1, <3>2
  <2>3. \/ n <= Len(got[Other(q)])
        \/ \E c \in schedq[q] : c.frame.n = n /\ c.retries >= 0
    BY <1>6 DEF IInv, NothingIsForgotten
  <2> QED BY <2>1, <2>2, <2>3
<1>7. AckInv'
  BY DEF IInv, AckInv, At, Later
<1> QED BY <1>1, <1>2, <1>4, <1>6, <1>7 DEF SenderInv, NothingIsForgotten

-----------------------------------------------------------------------------
(* The receiver's side of a step *)

\* The types that SenderInv leaves out
RestOK ==
    /\ start \in Starts
    /\ oseqno \in [Peer -> Byte] /\ iseqno \in [Peer -> Byte] /\ lastvnak \in [Peer -> Byte]
    /\ net \subseteq Frame
    /\ up \in [Peer -> BOOLEAN]
    /\ sent \in [Peer -> Nat] /\ \A p \in Peer : sent[p] <= MaxSend[p]
    /\ got \in [Peer -> Seq(Nat)]
    /\ early \in [Peer -> SUBSET Byte]

LEMMA Rest == IInv => RestOK
BY DEF IInv, TypeOK, RestOK

\* The invariant is the two sides together.
LEMMA Sides ==
    ASSUME SenderInv', RestOK', PrefixInv', NumberInv', NetInv'
    PROVE  IInv'
<1>1. TypeOK'
  BY DEF SenderInv, RestOK, TypeOK, Entry
<1> QED BY <1>1 DEF IInv, SenderInv

\* A step that delivers nothing leaves the places alone.
LEMMA Quiet ==
    ASSUME IInv, Later, oseqno' = oseqno, iseqno' = iseqno, sent' = sent, got' = got
    PROVE  PrefixInv' /\ NumberInv'
<1>1. PrefixInv'
  BY DEF IInv, PrefixInv
<1>2. NumberInv'
  BY DEF IInv, NumberInv, Later, At
<1> QED BY <1>1, <1>2

\* When no stream changes, a step is later than its state if nothing is lost.
LEMMA SameStreams ==
    ASSUME IInv, start' = start, net \subseteq net', sent' = sent, got' = got,
           \A p \in Peer : up'[p] => up[p]
    PROVE  Later /\ Lengths
<1>1. ASSUME NEW p \in Peer PROVE sent[p] \in Nat /\ Len(got[p]) \in Nat
  <2>1. sent[p] \in Nat /\ got[p] \in Seq(Nat)
    BY DEF IInv, TypeOK
  <2> QED BY <2>1
<1> QED BY <1>1 DEF Later, Lengths

\* An end that is up says truly how far it was handed the other stream.
LEMMA Says ==
    ASSUME IInv, Later, Lengths, NEW p \in Peer, up[p]
    PROVE  iseqno[p] \in Byte /\ \E m \in 0 .. Len(got'[p]) : iseqno[p] = At(m)'
<1>1. iseqno[p] \in Byte
  BY DEF IInv, TypeOK
<1>2. Len(got[p]) \in 0 .. Len(got'[p])
  BY DEF Later, Lengths
<1>3. iseqno[p] = At(Len(got[p]))
  BY DEF IInv, NumberInv
<1>4. \A k : At(k)' = At(k)
  BY DEF Later, At
<1> QED BY <1>1, <1>2, <1>3, <1>4

-----------------------------------------------------------------------------
(* The invariant, action by action *)

LEMMA WriteStep ==
    ASSUME IInv, start' = start, NEW p \in Peer, Write(p)
    PROVE  IInv'
<1>0. PICK S : S = sent[p]
  OBVIOUS
<1>f. PICK f : f = [from |-> p, kind |-> "DATA", oseqno |-> oseqno[p],
                    iseqno |-> iseqno[p], n |-> sent[p] + 1]
  OBVIOUS
<1>e. PICK e : e = [frame |-> f, retries |-> MaxRetries]
  OBVIOUS
<1>1. RestOK /\ schedq \in [Peer -> SUBSET Entry]
  BY Rest DEF IInv, TypeOK, Entry
<1>2. /\ net' = net \cup {f} /\ schedq' = [schedq EXCEPT ![p] = @ \cup {e}]
      /\ oseqno' = [oseqno EXCEPT ![p] = (@ + 1) % 256]
      /\ sent' = [sent EXCEPT ![p] = S + 1]
      /\ up[p] /\ S < MaxSend[p]
      /\ iseqno' = iseqno /\ rseqno' = rseqno /\ lastvnak' = lastvnak /\ up' = up
      /\ got' = got /\ early' = early
  BY <1>0, <1>f, <1>e, <1>1 DEF Write, RestOK
<1>3. Basics /\ S \in Nat /\ S <= 100
  BY <1>0, Bounds DEF IInv, Basics
<1>4. f \in Frame /\ e \in Entry
  <2>1. /\ oseqno[p] \in Byte /\ iseqno[p] \in Byte /\ S + 1 \in Nat
        /\ MaxRetries \in -1 .. MaxRetries
    BY <1>1, <1>3, TransportAssumption DEF RestOK
  <2>2. f \in Frame
    BY <1>0, <1>f, <2>1 DEF Frame, Kind
  <2> QED BY <1>e, <2>1, <2>2 DEF Entry
<1>5. f.from = p /\ f.kind = "DATA" /\ f.oseqno = oseqno[p] /\ f.iseqno = iseqno[p]
      /\ f.n = S + 1 /\ e.frame = f /\ e.retries = MaxRetries
  BY <1>0, <1>f, <1>e
<1>6. /\ \A q \in Peer : schedq'[q] = IF q = p THEN schedq[p] \cup {e} ELSE schedq[q]
      /\ \A q \in Peer : sent'[q] = IF q = p THEN S + 1 ELSE sent[q]
      /\ \A q \in Peer : oseqno'[q] = IF q = p THEN (oseqno[p] + 1) % 256 ELSE oseqno[q]
  BY <1>1, <1>2 DEF RestOK
<1>7. Later /\ Lengths
  <2>1. ASSUME NEW q \in Peer
        PROVE  sent[q] \in Nat /\ Len(got[q]) \in Nat /\ sent[q] <= sent'[q]
                   /\ sent'[q] \in Nat
    BY <1>0, <1>3, <1>6 DEF Basics
  <2> QED BY <1>2, <2>1 DEF Later, Lengths
<1>8. \A k : At(k)' = At(k)
  BY DEF At, NumberOf
<1>9. oseqno[p] = At(S) /\ start.seqno \in Byte
  BY <1>0, <1>3 DEF IInv, NumberInv, Basics
<1>10. RestOK'
  <2>1. (oseqno[p] + 1) % 256 \in Byte
    <3>1. (At(S) + 1) % 256 = At(S + 1) /\ At(S + 1) \in Byte
      <4>1. S \in 0 .. 101 /\ S + 1 \in 0 .. 101
        BY <1>3
      <4> QED BY <1>9, <4>1, Place, Distance, Zenon
    <3> QED BY <1>9, <3>1
  <2>2. oseqno' \in [Peer -> Byte]
    BY <1>1, <1>2, <2>1 DEF RestOK
  <2>3. sent' \in [Peer -> Nat]
    BY <1>1, <1>2, <1>3 DEF RestOK
  <2>4. \A q \in Peer : sent'[q] <= MaxSend[q]
    <3>1. \A q \in Peer : MaxSend[q] \in Nat
      BY TransportAssumption
    <3>2. S + 1 <= MaxSend[p]
      BY <1>2, <1>3, <3>1
    <3> QED BY <1>1, <1>6, <3>2 DEF RestOK
  <2> QED BY <1>1, <1>2, <1>4, <2>2, <2>3, <2>4 DEF RestOK
<1>11. PrefixInv'
  <2>1. ASSUME NEW q \in Peer PROVE Len(got'[q]) <= sent'[Other(q)]
    <3>1. Other(q) \in Peer /\ Len(got[q]) \in Nat /\ sent[Other(q)] \in Nat
          /\ Len(got[q]) <= sent[Other(q)]
      BY <1>3, Pair DEF Basics
    <3> QED BY <1>0, <1>2, <1>3, <1>6, <3>1
  <2> QED BY <1>2, <2>1 DEF IInv, PrefixInv
<1>12. NumberInv'
  <2>1. (At(S) + 1) % 256 = At(S + 1)
    BY <1>3, <1>9, Place
  <2> QED BY <1>2, <1>6, <1>8, <1>9, <2>1 DEF IInv, NumberInv
<1>13. NetInv'
  <2>1. \E m \in 0 .. Len(got'[p]) : iseqno[p] = At(m)'
    BY <1>2, <1>7, Says
  <2>2. f.n \in 1 .. sent'[p] /\ f.n - 1 = S
    BY <1>3, <1>5, <1>6
  <2>3. f.oseqno = At(f.n - 1)'
    BY <1>5, <1>8, <1>9, <2>2
  <2>4. Honest(f)'
    BY <1>5, <2>1, <2>2, <2>3 DEF Honest
  <2>5. \A g \in net' \ net : Honest(g)'
    BY <1>2, <2>4
  <2> QED BY <1>7, <2>5, NetGrows
<1>14. SenderInv'
  <2>1. schedq' \in [Peer -> SUBSET Entry]
    BY <1>1, <1>2, <1>4
  <2>2. QueueInv'
    BY <1>2, <1>5, <1>6, <1>7 DEF IInv, QueueInv, Later
  <2>3. AckInv'
    BY <1>2, <1>8 DEF IInv, AckInv
  <2>4. ASSUME NEW q \in Peer, up'[q], NEW n \in 1 .. sent'[q]
        PROVE  \/ n <= Len(got'[Other(q)])
               \/ \E d \in schedq'[q] : d.frame.n = n /\ d.retries >= 0
    <3>1. CASE q = p /\ n = S + 1
      <4>1. e.frame.n = n /\ e.retries >= 0
        BY <1>5, <3>1, TransportAssumption
      <4> QED BY <1>6, <3>1, <4>1
    <3>2. CASE ~(q = p /\ n = S + 1)
      <4>1. n \in 1 .. sent[q]
        BY <1>0, <1>3, <1>6, <3>2
      <4>2. up[q]
        BY <1>2, <2>4
      <4> QED BY <1>2, <1>6, <4>1, <4>2 DEF IInv, NothingIsForgotten
    <3> QED BY <3>1, <3>2
  <2>5. rseqno' \in [Peer -> Byte]
    BY <1>2 DEF IInv, TypeOK
  <2> QED BY <2>1, <2>2, <2>3, <2>4, <2>5 DEF SenderInv, NothingIsForgotten
<1> QED BY <1>10, <1>11, <1>12, <1>13, <1>14, Sides

LEMMA HeartbeatStep ==
    ASSUME IInv, start' = start, NEW p \in Peer, SendHeartbeat(p)
    PROVE  IInv'
<1>1. PICK h : h = Control(p, "HEARTBEAT", 0, 0)
  OBVIOUS
<1>2. h \in Frame /\ h.from = p /\ h.kind = "HEARTBEAT" /\ h.oseqno = 0
  BY <1>1 DEF Control, Frame, Kind, Byte
<1>3. /\ start.heartbeats /\ net' = net \cup {h} /\ schedq' = schedq /\ up' = up
      /\ oseqno' = oseqno /\ iseqno' = iseqno /\ rseqno' = rseqno /\ lastvnak' = lastvnak
      /\ sent' = sent /\ got' = got /\ early' = early
  BY <1>1 DEF SendHeartbeat, seqnos
<1>4. Later /\ Lengths
  BY <1>3, SameStreams
<1>5. SenderInv'
  BY <1>3 DEF IInv, TypeOK, SenderInv, Entry, AckInv, At, QueueInv, NothingIsForgotten
<1>6. RestOK'
  BY <1>2, <1>3, Rest DEF RestOK
<1>7. PrefixInv' /\ NumberInv'
  BY <1>3, <1>4, Quiet
<1>8. NetInv'
  <2>1. Honest(h)'
    BY <1>2, <1>3 DEF Honest
  <2>2. \A g \in net' \ net : Honest(g)'
    BY <1>3, <2>1
  <2> QED BY <1>4, <2>2, NetGrows
<1> QED BY <1>5, <1>6, <1>7, <1>8, Sides

\* An end that is up sends nothing but the truth.
LEMMA HonestAnswer ==
    ASSUME IInv, Later, Lengths, NEW p \in Peer, up[p], NEW o \in Byte,
           NEW k \in {"ACK", "VNAK", "HANGUP"}, k = "HANGUP" => ~up'[p], NEW g,
           g = Control(p, k, o, iseqno[p])
    PROVE  g \in Frame /\ Honest(g)'
<1>1. PICK i : i = iseqno[p]
  OBVIOUS
<1>2. i \in Byte /\ \E m \in 0 .. Len(got'[p]) : i = At(m)'
  BY <1>1, Says
<1>3. Control(p, k, o, i) \in Frame /\ Honest(Control(p, k, o, i))'
  BY <1>2, HonestControl
<1> QED BY <1>1, <1>3

\* iax_hangup, by the application or by the timer
LEMMA CloseStep ==
    ASSUME IInv, start' = start, NEW p \in Peer, up[p], Close(p)
    PROVE  IInv'
<1>1. PICK h : h = Control(p, "HANGUP", oseqno[p], iseqno[p])
  OBVIOUS
<1>2. RestOK /\ up \in [Peer -> BOOLEAN]
  BY Rest DEF RestOK
<1>3. /\ net' = net \cup {h} /\ schedq' = [schedq EXCEPT ![p] = {}]
      /\ up' = [up EXCEPT ![p] = FALSE]
      /\ oseqno' = oseqno /\ iseqno' = iseqno /\ rseqno' = rseqno /\ lastvnak' = lastvnak
      /\ sent' = sent /\ got' = got /\ early' = early
  BY <1>1 DEF Close, seqnos
<1>4. \A q \in Peer : up'[q] = IF q = p THEN FALSE ELSE up[q]
  BY <1>2, <1>3
<1>5. Later /\ Lengths
  BY <1>3, <1>4, SameStreams
<1>6. SenderInv'
  <2>1. AckInv' /\ rseqno' \in [Peer -> Byte]
    BY <1>3 DEF IInv, TypeOK, AckInv, At
  <2> QED BY <1>3, <1>5, <2>1, SenderEnds
<1>7. h \in Frame /\ Honest(h)'
  <2>1. PICK o \in Byte : o = oseqno[p]
    BY <1>2 DEF RestOK
  <2>2. ~up'[p] /\ h = Control(p, "HANGUP", o, iseqno[p])
    BY <1>1, <1>4, <2>1
  <2> QED BY <1>5, <2>2, HonestAnswer
<1>8. RestOK'
  BY <1>2, <1>3, <1>7 DEF RestOK
<1>9. PrefixInv' /\ NumberInv'
  BY <1>3, <1>5, Quiet
<1>10. NetInv'
  <2>1. \A g \in net' \ net : Honest(g)'
    BY <1>3, <1>7
  <2> QED BY <1>5, <2>1, NetGrows
<1> QED BY <1>6, <1>8, <1>9, <1>10, Sides

LEMMA DeliverStep ==
    ASSUME IInv, start' = start, NEW p \in Peer, NEW f \in net, Deliver(p, f)
    PROVE  IInv'
<1>1. RestOK /\ Basics
  BY Rest, Bounds DEF IInv
<1>2. PICK L : L = Len(got[p])
  OBVIOUS
<1>3. PICK a : a = Ack(p, f, (iseqno[p] + 1) % 256)
  OBVIOUS
<1>4. /\ up[p] /\ f.from = Other(p) /\ f.kind = "DATA" /\ f.oseqno = iseqno[p]
      /\ Arrives(p, f)
      /\ iseqno' = [iseqno EXCEPT ![p] = (@ + 1) % 256] /\ net' = net \cup {a}
      /\ got' = [got EXCEPT ![p] = Append(@, f.n)]
      /\ oseqno' = oseqno /\ lastvnak' = lastvnak /\ up' = up /\ sent' = sent
      /\ early' = early
  BY <1>3 DEF Deliver, Arrives, Advance, Expected
<1>5. f.n = L + 1 /\ f.n <= sent[Other(p)]
  BY <1>2, <1>4, NextFrame
<1>6. got[p] \in Seq(Nat) /\ L \in Nat /\ L <= 100 /\ start.seqno \in Byte
  BY <1>1, <1>2 DEF RestOK, Basics
<1>7. /\ Append(got[p], f.n) \in Seq(Nat)
      /\ Len(Append(got[p], f.n)) = L + 1
      /\ \A i \in 1 .. L + 1 :
             Append(got[p], f.n)[i] = IF i = L + 1 THEN f.n ELSE got[p][i]
  BY <1>2, <1>5, <1>6
<1>8. /\ \A q \in Peer : got'[q] = IF q = p THEN Append(got[p], f.n) ELSE got[q]
      /\ got' \in [Peer -> Seq(Nat)]
  BY <1>1, <1>4, <1>7 DEF RestOK
<1>9. Later /\ Lengths
  <2>1. ASSUME NEW q \in Peer
        PROVE  sent[q] \in Nat /\ Len(got[q]) \in Nat /\ Len(got'[q]) \in Nat
                   /\ Len(got[q]) <= Len(got'[q])
    BY <1>1, <1>2, <1>6, <1>7, <1>8 DEF Basics
  <2> QED BY <1>4, <2>1 DEF Later, Lengths
<1>10. \A k : At(k)' = At(k)
  BY DEF At, NumberOf
<1>11. (iseqno[p] + 1) % 256 = At(L + 1) /\ At(L + 1) \in Byte
  <2>1. iseqno[p] = At(L)
    BY <1>2, <1>4 DEF IInv, NumberInv
  <2>2. L \in 0 .. 101 /\ L + 1 \in 0 .. 101
    BY <1>6
  <2>3. (At(L) + 1) % 256 = At(L + 1) /\ At(L + 1) \in Byte
    BY <1>6, <2>2, Place, Distance, Zenon
  <2> QED BY <2>1, <2>3
<1>12. iseqno' \in [Peer -> Byte]
       /\ \A q \in Peer : iseqno'[q] = IF q = p THEN At(L + 1) ELSE iseqno[q]
  BY <1>1, <1>4, <1>11 DEF RestOK
<1>13. a \in Frame /\ Honest(a)'
  <2>1. PICK i \in Byte : i = At(L + 1)
    BY <1>11
  <2>2. PICK o \in Byte : o = f.iseqno
    BY DEF IInv, TypeOK, Frame
  <2>3. a = Control(p, "ACK", o, i)
    BY <1>3, <1>11, <2>1, <2>2 DEF Ack
  <2>4. L + 1 \in 0 .. Len(got'[p]) /\ i = At(L + 1)'
    BY <1>6, <1>7, <1>8, <1>10, <2>1
  <2>5. \E m \in 0 .. Len(got'[p]) : i = At(m)'
    BY <1>10, <2>1, <2>4
  <2> QED BY <1>9, <2>3, <2>5, HonestControl
<1>14. RestOK'
  BY <1>1, <1>4, <1>8, <1>12, <1>13 DEF RestOK
<1>15. PrefixInv'
  <2>1. ASSUME NEW q \in Peer
        PROVE  Len(got'[q]) <= sent'[Other(q)] /\ \A i \in 1 .. Len(got'[q]) : got'[q][i] = i
    <3>1. CASE q = p
      <4>1. Len(got'[q]) = L + 1 /\ L + 1 <= sent'[Other(q)]
        BY <1>4, <1>5, <1>7, <1>8, <3>1
      <4>2. ASSUME NEW i \in 1 .. L + 1 PROVE Append(got[p], f.n)[i] = i
        <5>1. i # L + 1 => i \in 1 .. L /\ got[p][i] = i
          BY <1>2, <1>6 DEF IInv, PrefixInv
        <5> QED BY <1>5, <1>7, <5>1
      <4> QED BY <1>8, <3>1, <4>1, <4>2
    <3>2. CASE q # p
      BY <1>4, <1>8, <3>2 DEF IInv, PrefixInv
    <3> QED BY <3>1, <3>2
  <2> QED BY <2>1 DEF PrefixInv
<1>16. NumberInv'
  <2>1. ASSUME NEW q \in Peer, up'[q] PROVE iseqno'[q] = At(Len(got'[q]))
    <3>1. CASE q = p
      <4>1. Len(got'[q]) = L + 1 /\ iseqno'[q] = At(L + 1)
        BY <1>7, <1>8, <1>12, <3>1
      <4> QED BY <4>1
    <3>2. CASE q # p
      BY <1>4, <1>8, <1>12, <2>1, <3>2 DEF IInv, NumberInv
    <3> QED BY <3>1, <3>2
  <2>2. ASSUME NEW q \in Peer PROVE oseqno'[q] = At(sent'[q])
    BY <1>4 DEF IInv, NumberInv
  <2> QED BY <2>1, <2>2 DEF NumberInv, At
<1>17. NetInv'
  <2>1. \A g \in net' \ net : Honest(g)'
    BY <1>4, <1>13
  <2> QED BY <1>9, <2>1, NetGrows
<1>18. SenderInv'
  BY <1>4, <1>9, Received
<1> QED BY <1>14, <1>15, <1>16, <1>17, <1>18, Sides

\* A frame that arrives and delivers nothing: what is sent then must be true.
LEMMA QuietReceived ==
    ASSUME IInv, start' = start, NEW p \in Peer, NEW f \in net, Arrives(p, f),
           iseqno' = iseqno, got' = got, up' = up, net \subseteq net',
           lastvnak' \in [Peer -> Byte], early' \in [Peer -> SUBSET Byte],
           Later /\ Lengths => \A g \in net' \ net : g \in Frame /\ Honest(g)'
    PROVE  IInv'
<1>1. oseqno' = oseqno /\ sent' = sent
  BY DEF Arrives
<1>2. Later /\ Lengths
  BY <1>1, SameStreams
<1>3. SenderInv'
  BY <1>2, Received
<1>4. PrefixInv' /\ NumberInv'
  BY <1>1, <1>2, Quiet
<1>5. NetInv'
  BY <1>2, NetGrows
<1>6. RestOK'
  <2>1. net' \subseteq Frame
    BY <1>2, Rest DEF RestOK
  <2> QED BY <1>1, <2>1, Rest DEF RestOK
<1> QED BY <1>3, <1>4, <1>5, <1>6, Sides

LEMMA RepeatStep ==
    ASSUME IInv, start' = start, NEW p \in Peer, NEW f \in net, Repeat(p, f)
    PROVE  IInv'
<1>1. PICK a : a = Ack(p, f, iseqno[p])
  OBVIOUS
<1>2. /\ Arrives(p, f) /\ net' = net \cup {a} /\ up[p]
      /\ iseqno' = iseqno /\ got' = got /\ up' = up /\ lastvnak' = lastvnak
      /\ early' = early
  BY <1>1 DEF Repeat, Arrives
<1>3. PICK o \in Byte : o = f.iseqno
  BY DEF IInv, TypeOK, Frame
<1>4. a = Control(p, "ACK", o, iseqno[p])
  BY <1>1, <1>3 DEF Ack
<1>5. Later /\ Lengths => a \in Frame /\ Honest(a)'
  BY <1>2, <1>4, HonestAnswer
<1>6. Later /\ Lengths => \A g \in net' \ net : g \in Frame /\ Honest(g)'
  BY <1>2, <1>5
<1>7. lastvnak' \in [Peer -> Byte] /\ early' \in [Peer -> SUBSET Byte]
  BY <1>2, Rest DEF RestOK
<1> QED BY <1>2, <1>6, <1>7, QuietReceived

LEMMA EarlyStep ==
    ASSUME IInv, start' = start, NEW p \in Peer, NEW f \in net, Early(p, f)
    PROVE  IInv'
<1>1. PICK i \in Byte : i = iseqno[p]
  BY Rest DEF RestOK
<1>2. PICK v : v = Control(p, "VNAK", i, iseqno[p])
  OBVIOUS
<1>3. /\ Arrives(p, f) /\ up[p] /\ iseqno' = iseqno /\ got' = got /\ up' = up
      /\ \/ lastvnak' = lastvnak /\ net' = net
         \/ lastvnak' = [lastvnak EXCEPT ![p] = i] /\ net' = net \cup {v}
      /\ early' = [early EXCEPT ![p] = @ \cup {i}]
  BY <1>1, <1>2 DEF Early, Arrives
<1>4. Later /\ Lengths => v \in Frame /\ Honest(v)'
  BY <1>2, <1>3, HonestAnswer
<1>5. Later /\ Lengths => \A g \in net' \ net : g \in Frame /\ Honest(g)'
  BY <1>3, <1>4
<1>6. lastvnak' \in [Peer -> Byte] /\ early' \in [Peer -> SUBSET Byte]
  <2>1. lastvnak \in [Peer -> Byte] /\ early \in [Peer -> SUBSET Byte]
    BY Rest DEF RestOK
  <2>2. lastvnak' \in [Peer -> Byte]
    BY <1>3, <2>1
  <2>3. early' \in [Peer -> SUBSET Byte]
    BY <1>3, <2>1
  <2> QED BY <2>2, <2>3
<1>7. net \subseteq net'
  BY <1>3
<1> QED BY <1>3, <1>5, <1>6, <1>7, QuietReceived

LEMMA AckStep ==
    ASSUME IInv, start' = start, NEW p \in Peer, NEW f \in net, TakeAck(p, f)
    PROVE  IInv'
<1>1. /\ Arrives(p, f) /\ net' = net /\ iseqno' = iseqno /\ got' = got /\ up' = up
      /\ lastvnak' = lastvnak /\ early' = early
  BY DEF TakeAck
<1>2. lastvnak' \in [Peer -> Byte] /\ early' \in [Peer -> SUBSET Byte]
  BY <1>1, Rest DEF RestOK
<1> QED BY <1>1, <1>2, QuietReceived

LEMMA TakeHeartbeatStep ==
    ASSUME HeartbeatsAvoidZero, IInv, start' = start, NEW p \in Peer, NEW f \in net,
           TakeHeartbeat(p, f)
    PROVE  IInv'
<1>1. ~Expected(p, f)
  BY Unexpected DEF TakeHeartbeat, Arrives
<1>2. /\ Arrives(p, f) /\ net' = net /\ iseqno' = iseqno /\ got' = got /\ up' = up
      /\ lastvnak' = lastvnak /\ early' = early
  BY <1>1 DEF TakeHeartbeat
<1>3. lastvnak' \in [Peer -> Byte] /\ early' \in [Peer -> SUBSET Byte]
  BY <1>2, Rest DEF RestOK
<1> QED BY <1>2, <1>3, QuietReceived

\* iax_handle_vnak sends only what was sent before.
LEMMA VnakStep ==
    ASSUME IInv, start' = start, NEW p \in Peer, NEW f \in net, TakeVnak(p, f)
    PROVE  IInv'
<1>1. /\ Arrives(p, f) /\ net' = net \cup Resend(p, f) /\ iseqno' = iseqno /\ got' = got
      /\ up' = up /\ lastvnak' = lastvnak /\ early' = early
  BY DEF TakeVnak
<1>2. Resend(p, f) \subseteq net
  <2> SUFFICES ASSUME NEW d \in MarkAcked(p, f) PROVE d.frame \in net
    BY DEF Resend
  <2>1. schedq[p] \subseteq Entry
    BY DEF IInv, TypeOK, Entry
  <2>2. PICK e \in schedq[p] : d.frame = e.frame
    BY <2>1, Entries
  <2> QED BY <2>2 DEF IInv, QueueInv
<1>3. net' = net
  BY <1>1, <1>2
<1>4. lastvnak' \in [Peer -> Byte] /\ early' \in [Peer -> SUBSET Byte]
  BY <1>1, Rest DEF RestOK
<1> QED BY <1>1, <1>3, <1>4, QuietReceived

\* Its sender has gone when a HANGUP arrives, so the answer may say anything.
LEMMA HangupStep ==
    ASSUME IInv, start' = start, NEW p \in Peer, NEW f \in net, TakeHangup(p, f)
    PROVE  IInv'
<1>1. RestOK
  BY Rest
<1>2. PICK i : i = (iseqno[p] + 1) % 256
  OBVIOUS
<1>3. PICK a : a = Ack(p, f, i)
  OBVIOUS
<1>4. /\ up[p] /\ f.from = Other(p) /\ f.kind = "HANGUP" /\ rseqno' = NewRseqno(p, f)
      /\ schedq' = [schedq EXCEPT ![p] = {}] /\ up' = [up EXCEPT ![p] = FALSE]
      /\ \/ iseqno' = iseqno /\ net' = net
         \/ iseqno' = [iseqno EXCEPT ![p] = i] /\ net' = net \cup {a}
      /\ oseqno' = oseqno /\ lastvnak' = lastvnak /\ sent' = sent /\ got' = got
      /\ early' = early
  BY <1>2, <1>3 DEF TakeHangup, Advance
<1>5. \A q \in Peer : up'[q] = IF q = p THEN FALSE ELSE up[q]
  BY <1>1, <1>4 DEF RestOK
<1>6. net \subseteq net'
  BY <1>4
<1>7. Later /\ Lengths
  BY <1>4, <1>5, <1>6, SameStreams
<1>8. i \in Byte
  <2>1. iseqno[p] \in 0 .. 255
    BY <1>1 DEF RestOK, Byte
  <2> QED BY <1>2, <2>1 DEF Byte
<1>9. iseqno' \in [Peer -> Byte]
  BY <1>1, <1>4, <1>8 DEF RestOK
<1>10. a \in Frame /\ Honest(a)'
  <2>1. ~up[Other(p)]
    BY <1>4 DEF IInv, NetInv, Honest
  <2>2. ~up'[Other(p)]
    BY <2>1, <1>5, Pair
  <2>3. PICK o \in Byte : o = f.iseqno
    BY DEF IInv, TypeOK, Frame
  <2>4. a = Control(p, "ACK", o, i)
    BY <1>3, <2>3 DEF Ack
  <2> QED BY <1>7, <1>8, <2>2, <2>4, HonestControl
<1>11. SenderInv'
  <2>1. rseqno' \in [Peer -> Byte] /\ AckInv'
    BY <1>4, <1>7, NewAcked
  <2> QED BY <1>4, <1>7, <2>1, SenderEnds
<1>12. RestOK'
  <2>1. net' \subseteq Frame
    BY <1>1, <1>4, <1>10 DEF RestOK
  <2>2. up' \in [Peer -> BOOLEAN]
    BY <1>1, <1>4 DEF RestOK
  <2> QED BY <1>1, <1>4, <1>9, <2>1, <2>2 DEF RestOK
<1>13. PrefixInv'
  BY <1>4 DEF IInv, PrefixInv
<1>14. NumberInv'
  <2>1. ASSUME NEW q \in Peer PROVE oseqno'[q] = At(sent'[q])
    BY <1>4 DEF IInv, NumberInv
  <2>2. ASSUME NEW q \in Peer, up'[q] PROVE iseqno'[q] = At(Len(got'[q]))
    <3>1. q # p /\ up[q]
      BY <1>5, <2>2
    <3>2. iseqno'[q] = iseqno[q]
      BY <1>1, <1>4, <3>1 DEF RestOK
    <3> QED BY <1>4, <3>1, <3>2 DEF IInv, NumberInv
  <2> QED BY <2>1, <2>2 DEF NumberInv, At
<1>15. NetInv'
  <2>1. \A g \in net' \ net : Honest(g)'
    BY <1>4, <1>10
  <2> QED BY <1>7, <2>1, NetGrows
<1> QED BY <1>11, <1>12, <1>13, <1>14, <1>15, Sides

\* The timer of one entry
LEMMA TimerStep ==
    ASSUME IInv, start' = start, NEW p \in Peer, NEW e \in schedq[p],
           FreeAcked(p, e) \/ Retransmit(p, e)
    PROVE  IInv'
<1>1. /\ oseqno' = oseqno /\ iseqno' = iseqno /\ rseqno' = rseqno /\ lastvnak' = lastvnak
      /\ net' = net /\ up' = up /\ sent' = sent /\ got' = got /\ early' = early
  BY DEF FreeAcked, Retransmit, seqnos
<1>2. Later /\ Lengths
  BY <1>1, SameStreams
<1>3. schedq \in [Peer -> SUBSET Entry] /\ e \in [frame : Frame, retries : -1 .. MaxRetries]
  BY DEF IInv, TypeOK, Entry
<1>4. SenderInv'
  <2>1. CASE FreeAcked(p, e)
    <3>1. schedq' = [schedq EXCEPT ![p] = (@ \ {e}) \cup {}] /\ e.retries < 0
      BY <2>1 DEF FreeAcked
    <3>2. {} \in SUBSET Entry /\ \A d \in {} : d.frame = e.frame /\ d.retries >= 0
      OBVIOUS
    <3> QED BY <1>1, <1>2, <3>1, <3>2, SenderWaits
  <2>2. CASE Retransmit(p, e)
    <3>1. PICK d : d = OneRetryLess(e)
      OBVIOUS
    <3>2. d = [e EXCEPT !.retries = e.retries - 1] /\ e.retries > 0
      BY <2>2, <3>1 DEF OneRetryLess, Retransmit
    <3>3. e.retries - 1 \in -1 .. MaxRetries
      BY <1>3, <3>2, TransportAssumption
    <3>4. d \in Entry /\ d.frame = e.frame /\ d.retries >= 0
      BY <1>3, <3>2, <3>3 DEF Entry
    <3>5. schedq' = [schedq EXCEPT ![p] = (@ \ {e}) \cup {d}]
      BY <2>2, <3>1 DEF Retransmit
    <3>6. /\ {d} \in SUBSET Entry /\ {d} # {}
          /\ \A c \in {d} : c.frame = e.frame /\ c.retries >= 0
      BY <3>4
    <3> QED BY <1>1, <1>2, <3>5, <3>6, SenderWaits
  <2> QED BY <2>1, <2>2
<1>5. RestOK'
  BY <1>1, Rest DEF RestOK
<1>6. PrefixInv' /\ NumberInv'
  BY <1>1, <1>2, Quiet
<1>7. NetInv'
  BY <1>1, <1>2, NetGrows
<1> QED BY <1>4, <1>5, <1>6, <1>7, Sides

-----------------------------------------------------------------------------
(* The invariant *)

\* Every behaviour begins with two empty streams.
LEMMA InitInv == Init => IInv
<1> SUFFICES ASSUME Init PROVE IInv
  OBVIOUS
<1>1. start \in Starts /\ start.seqno \in Byte /\ start.lastvnak \in Byte
  BY TransportAssumption DEF Init
<1>2. \A p \in Peer : MaxSend[p] \in Nat /\ Other(p) \in Peer
  BY TransportAssumption, Pair
<1>3. TypeOK
  BY <1>1, <1>2 DEF Init, TypeOK
<1>4. At(0) = start.seqno
  BY <1>1, Place
<1>5. \A p \in Peer : Len(got[p]) = 0 /\ sent[p] = 0 /\ 0 \in 0 .. 0
  BY DEF Init
<1>6. PrefixInv
  BY <1>2, <1>5 DEF PrefixInv
<1>7. NumberInv
  BY <1>4, <1>5 DEF Init, NumberInv
<1>8. AckInv
  BY <1>2, <1>4, <1>5 DEF Init, AckInv
<1>9. NetInv /\ QueueInv /\ NothingIsForgotten
  BY <1>5 DEF Init, NetInv, QueueInv, NothingIsForgotten
<1> QED BY <1>3, <1>6, <1>7, <1>8, <1>9 DEF IInv

\* Every step of either end keeps the invariant.
LEMMA NextInv ==
    ASSUME HeartbeatsAvoidZero, IInv, Next
    PROVE  IInv'
<1>1. start' = start
  BY DEF Next
<1>2. PICK p \in Peer :
          \/ Write(p) \/ SendHeartbeat(p) \/ Hangup(p)
          \/ \E f \in net : Receive(p, f)
          \/ Timer(p)
  BY DEF Next
<1>3. CASE Write(p)
  BY <1>1, <1>3, WriteStep
<1>4. CASE SendHeartbeat(p)
  BY <1>1, <1>4, HeartbeatStep
<1>5. CASE Hangup(p)
  BY <1>1, <1>5, CloseStep DEF Hangup
<1>6. ASSUME NEW f \in net, Receive(p, f) PROVE IInv'
  BY <1>1, <1>6, DeliverStep, RepeatStep, EarlyStep, AckStep, TakeHeartbeatStep, VnakStep,
     HangupStep DEF Receive
<1>7. ASSUME NEW e \in schedq[p], FreeAcked(p, e) \/ Retransmit(p, e) \/ TimeOut(p, e)
      PROVE  IInv'
  <2>1. up[p]
    BY DEF IInv, QueueInv
  <2>2. CASE TimeOut(p, e)
    BY <1>1, <2>1, <2>2, CloseStep DEF TimeOut
  <2> QED BY <1>1, <1>7, <2>2, TimerStep
<1> QED BY <1>2, <1>3, <1>4, <1>5, <1>6, <1>7 DEF Timer

\* A step that changes nothing keeps it, too.
LEMMA StutterInv == IInv /\ UNCHANGED vars => IInv'
BY DEF IInv, TypeOK, PrefixInv, NumberInv, AckInv, NetInv, Honest, QueueInv,
       NothingIsForgotten, At, vars

\* The invariant holds as long as no HEARTBEAT is taken for a frame.
THEOREM InductiveInvariant == HeartbeatsAvoidZero => (Spec => []IInv)
<1> SUFFICES ASSUME HeartbeatsAvoidZero PROVE Spec => []IInv
  OBVIOUS
<1>1. IInv /\ [Next]_vars => IInv'
  BY NextInv, StutterInv
<1> QED BY InitInv, <1>1, PTL DEF Spec

\* Every behaviour has the types of its variables.
THEOREM TypeCorrect == HeartbeatsAvoidZero => (Spec => []TypeOK)
<1>1. IInv => TypeOK
  BY DEF IInv
<1> QED BY InductiveInvariant, <1>1, PTL

\* A frame leaves schedq only when it was handed over or the session has ended.
THEOREM FramesAreKept == HeartbeatsAvoidZero => (Spec => []NothingIsForgotten)
<1>1. IInv => NothingIsForgotten
  BY DEF IInv
<1> QED BY InductiveInvariant, <1>1, PTL

-----------------------------------------------------------------------------
(* The streams *)

\* rseqno counts the frames that are believed delivered.
LEMMA AckedIsPlace ==
    ASSUME IInv, NEW p \in Peer, NEW m \in 0 .. Len(got[Other(p)]), rseqno[p] = At(m)
    PROVE  Acked[p] = m
<1>1. Len(got[Other(p)]) \in Nat /\ Len(got[Other(p)]) <= 100 /\ start.seqno \in Byte
  BY Bounds, Pair DEF IInv, Basics
<1>2. m \in 0 .. 101
  BY <1>1
<1> QED BY <1>1, <1>2, Place DEF Acked

\* It changes with rseqno only.
LEMMA AckedSame ==
    ASSUME start' = start, rseqno' = rseqno
    PROVE  Acked' = Acked
BY DEF Acked

\* A frame that arrives is news of the other direction, or no news.
LEMMA Learns ==
    ASSUME IInv, start' = start, NEW p \in Peer, NEW f \in net, up[p], f.from = Other(p),
           rseqno' = NewRseqno(p, f)
    PROVE  Stream!Learn(p)
<1>1. rseqno \in [Peer -> Byte]
  BY DEF IInv, TypeOK
<1>2. PICK r \in 0 .. Len(got[Other(p)]) : rseqno[p] = At(r)
  BY DEF IInv, AckInv
<1>3. Acked[p] = r
  BY <1>2, AckedIsPlace
<1>4. Len(got[Other(p)]) \in Nat /\ Len(got[Other(p)]) <= 100 /\ start.seqno \in Byte
  BY Bounds, Pair DEF IInv, Basics
<1>5. Acked = [q \in Peer |-> Acked[q]]
  BY DEF Acked
<1>6. CASE Confirms(p, f)
  <2>1. PICK m \in r .. Len(got[Other(p)]) : f.iseqno = At(m)
    BY <1>2, <1>6, Acknowledges
  <2>2. rseqno' = [rseqno EXCEPT ![p] = f.iseqno]
    BY <1>6 DEF NewRseqno
  <2>3. m \in 0 .. 101
    <3>1. PICK L \in Nat : L = Len(got[Other(p)]) /\ L <= 100
      BY <1>4
    <3>2. r \in 0 .. L /\ m \in r .. L
      BY <1>2, <2>1, <3>1
    <3> QED BY <3>1, <3>2
  <2>4. Dist(f.iseqno, start.seqno) = m
    BY <1>4, <2>1, <2>3, Place
  <2>5. Acked' = [Acked EXCEPT ![p] = m]
    BY <1>1, <2>2, <2>4 DEF Acked
  <2>6. m \in Acked[p] .. Len(got[Other(p)])
    BY <1>3, <2>1
  <2> QED BY <2>5, <2>6 DEF Stream!Learn
<1>7. CASE ~Confirms(p, f)
  <2>1. Acked' = Acked
    BY <1>7, AckedSame DEF NewRseqno
  <2>2. Acked' = [Acked EXCEPT ![p] = r]
    BY <1>3, <1>5, <2>1
  <2>3. r \in Acked[p] .. Len(got[Other(p)])
    BY <1>2, <1>3, <1>4
  <2> QED BY <2>2, <2>3 DEF Stream!Learn
<1> QED BY <1>6, <1>7

\* Whoever hangs up learns nothing.
LEMMA LearnsNothing ==
    ASSUME IInv, start' = start, NEW p \in Peer, rseqno' = rseqno
    PROVE  Stream!Learn(p)
<1>1. PICK r \in 0 .. Len(got[Other(p)]) : rseqno[p] = At(r)
  BY DEF IInv, AckInv
<1>2. Acked[p] = r
  BY <1>1, AckedIsPlace
<1>3. Acked' = [Acked EXCEPT ![p] = r]
  BY <1>2, AckedSame DEF Acked
<1>4. Len(got[Other(p)]) \in Nat
  BY Bounds, Pair DEF IInv, Basics
<1>5. r \in Acked[p] .. Len(got[Other(p)])
  BY <1>1, <1>2, <1>4
<1> QED BY <1>3, <1>5 DEF Stream!Learn

\* A frame that is handed over is the next one of its stream.
LEMMA DeliverRefines ==
    ASSUME IInv, start' = start, NEW p \in Peer, NEW f \in net, Deliver(p, f)
    PROVE  Stream!Deliver(p)
<1>1. /\ up[p] /\ f.from = Other(p) /\ f.kind = "DATA" /\ f.oseqno = iseqno[p]
      /\ rseqno' = NewRseqno(p, f)
      /\ got' = [got EXCEPT ![p] = Append(@, f.n)]
      /\ up' = up /\ sent' = sent
  BY DEF Deliver, Arrives, Expected
<1>2. f.n = Len(got[p]) + 1 /\ f.n <= sent[Other(p)]
  BY <1>1, NextFrame
<1>3. Len(got[p]) \in Nat /\ sent[Other(p)] \in Nat
  BY Bounds, Pair DEF IInv, Basics
<1>4. Len(got[p]) < sent[Other(p)]
  BY <1>2, <1>3
<1>5. got' = [got EXCEPT ![p] = Append(@, Len(@) + 1)]
  BY <1>1, <1>2
<1>6. Stream!Learn(p)
  BY <1>1, Learns
<1> QED BY <1>1, <1>4, <1>5, <1>6 DEF Stream!Deliver

\* Any other frame but a HANGUP only confirms.
LEMMA ConfirmRefines ==
    ASSUME IInv, start' = start, NEW p \in Peer, NEW f \in net, Arrives(p, f),
           got' = got, up' = up
    PROVE  Stream!Confirm(p)
<1>1. Stream!Learn(p)
  BY Learns DEF Arrives
<1> QED BY <1>1 DEF Stream!Confirm, Arrives

\* A session ends once.
LEMMA EndRefines ==
    ASSUME IInv, start' = start, NEW p \in Peer, up[p], Close(p)
    PROVE  Stream!End(p)
<1>1. Stream!Learn(p)
  BY LearnsNothing DEF Close, seqnos
<1> QED BY <1>1 DEF Stream!End, Close

LEMMA HangupRefines ==
    ASSUME IInv, start' = start, NEW p \in Peer, NEW f \in net, TakeHangup(p, f)
    PROVE  Stream!End(p)
<1>1. Stream!Learn(p)
  BY Learns DEF TakeHangup
<1> QED BY <1>1 DEF Stream!End, TakeHangup

\* The other steps are not seen in the streams.
LEMMA Unseen ==
    ASSUME start' = start, rseqno' = rseqno, sent' = sent, got' = got, up' = up
    PROVE  UNCHANGED Stream!vars
BY AckedSame DEF Stream!vars

LEMMA InitRefines == Init => Stream!Init
<1> SUFFICES ASSUME Init PROVE Stream!Init
  OBVIOUS
<1>1. start.seqno \in Byte
  BY TransportAssumption DEF Init
<1>2. Dist(start.seqno, start.seqno) = 0
  BY <1>1 DEF Dist, Byte
<1>3. Acked = [p \in Peer |-> 0]
  BY <1>2 DEF Init, Acked
<1> QED BY <1>3 DEF Init, Stream!Init

LEMMA NextRefines ==
    ASSUME HeartbeatsAvoidZero, IInv, [Next]_vars
    PROVE  [Stream!Next]_(Stream!vars)
<1>1. CASE UNCHANGED vars
  BY <1>1, Unseen DEF vars, seqnos
<1>2. CASE Next
  <2>1. start' = start
    BY <1>2 DEF Next
  <2>2. PICK p \in Peer :
            \/ Write(p) \/ SendHeartbeat(p) \/ Hangup(p)
            \/ \E f \in net : Receive(p, f)
            \/ Timer(p)
    BY <1>2 DEF Next
  <2>3. ASSUME Stream!Write(p) \/ Stream!Deliver(p) \/ Stream!Confirm(p) \/ Stream!End(p)
        PROVE  Stream!Next
    BY <2>3 DEF Stream!Next
  <2>4. CASE Write(p)
    <3>1. Acked' = Acked
      BY <2>1, <2>4, AckedSame DEF Write
    <3>2. Stream!Write(p)
      BY <2>4, <3>1 DEF Write, Stream!Write
    <3> QED BY <2>3, <3>2
  <2>5. CASE SendHeartbeat(p)
    BY <2>1, <2>5, Unseen DEF SendHeartbeat, seqnos
  <2>6. CASE Hangup(p)
    BY <2>1, <2>3, <2>6, EndRefines DEF Hangup
  <2>7. ASSUME NEW f \in net, Receive(p, f) PROVE [Stream!Next]_(Stream!vars)
    <3>1. CASE Deliver(p, f)
      BY <2>1, <2>3, <3>1, DeliverRefines
    <3>2. CASE Repeat(p, f)
      BY <2>1, <2>3, <3>2, ConfirmRefines DEF Repeat
    <3>3. CASE Early(p, f)
      BY <2>1, <2>3, <3>3, ConfirmRefines DEF Early
    <3>4. CASE TakeAck(p, f)
      BY <2>1, <2>3, <3>4, ConfirmRefines DEF TakeAck
    <3>5. CASE TakeHeartbeat(p, f)
      BY <2>1, <2>3, <3>5, ConfirmRefines DEF TakeHeartbeat
    <3>6. CASE TakeVnak(p, f)
      BY <2>1, <2>3, <3>6, ConfirmRefines DEF TakeVnak
    <3>7. CASE TakeHangup(p, f)
      BY <2>1, <2>3, <3>7, HangupRefines
    <3> QED BY <2>7, <3>1, <3>2, <3>3, <3>4, <3>5, <3>6, <3>7 DEF Receive
  <2>8. ASSUME NEW e \in schedq[p], FreeAcked(p, e) \/ Retransmit(p, e) \/ TimeOut(p, e)
        PROVE  [Stream!Next]_(Stream!vars)
    <3>1. up[p]
      BY DEF IInv, QueueInv
    <3>2. CASE TimeOut(p, e)
      BY <2>1, <2>3, <3>1, <3>2, EndRefines DEF TimeOut
    <3>3. CASE FreeAcked(p, e) \/ Retransmit(p, e)
      BY <2>1, <3>3, Unseen DEF FreeAcked, Retransmit, seqnos
    <3> QED BY <2>8, <3>2, <3>3
  <2> QED BY <2>2, <2>4, <2>5, <2>6, <2>7, <2>8 DEF Timer
<1> QED BY <1>1, <1>2

\* Whatever the network does, each end is handed the frames the other one wrote, in
\* order and once, and none counts as acknowledged that was not handed over.
THEOREM Implements == HeartbeatsAvoidZero => (Spec => ImplementsStream)
<1> SUFFICES ASSUME HeartbeatsAvoidZero PROVE Spec => ImplementsStream
  OBVIOUS
<1>1. Spec => []IInv
  BY InductiveInvariant
<1>2. IInv /\ [Next]_vars => [Stream!Next]_(Stream!vars)
  BY NextRefines
<1> QED BY <1>1, <1>2, InitRefines, PTL DEF Spec, ImplementsStream, Stream!Spec

-----------------------------------------------------------------------------
(* Gaps *)

\* A peer that believes it has told of the gap has sent the VNAK.
LEMMA Told ==
    ASSUME GapsAreNews, IInv, GapInv, NEW p \in Peer, up[p], AlreadyTold(p)
    PROVE  \E v \in net : v.from = p /\ v.kind = "VNAK" /\ v.oseqno = iseqno[p]
<1>1. PICK j : j = Len(got[p])
  OBVIOUS
<1>2. Basics
  BY Bounds DEF IInv
<1>3. j \in Nat /\ j <= 100 /\ start.seqno \in Byte /\ start \in Starts
  BY <1>1, <1>2 DEF Basics
<1>4. iseqno[p] = At(j)
  BY <1>1 DEF IInv, NumberInv
<1>5. Dist(lastvnak[p], At(j)) < 128
  BY <1>4 DEF AlreadyTold
<1>6. lastvnak[p] # start.lastvnak
  <2>1. j \in 0 .. 100
    BY <1>3
  <2>2. Dist(start.lastvnak, At(j)) >= 128
    BY <1>3, <2>1 DEF GapsAreNews, At
  <2>3. Dist(lastvnak[p], At(j)) \in Nat
    <3>1. PICK b \in Byte : b = lastvnak[p]
      BY DEF IInv, TypeOK
    <3>2. PICK c \in Byte : c = At(j)
      <4>1. j \in 0 .. 101
        BY <2>1
      <4> QED BY <1>3, <4>1, Distance, Zenon
    <3>3. Dist(b, c) \in Nat
      BY DEF Dist, Byte
    <3> QED BY <3>1, <3>2, <3>3
  <2> QED BY <1>5, <2>2, <2>3
<1>7. PICK k \in 0 .. j :
          /\ lastvnak[p] = At(k)
          /\ \E v \in net : v.from = p /\ v.kind = "VNAK" /\ v.oseqno = lastvnak[p]
  BY <1>1, <1>6 DEF GapInv
<1>8. k \in 0 .. 101 /\ j \in 0 .. 101 /\ k <= j
  BY <1>3
<1>9. Dist(At(k), At(j)) = Apart(k, j)
  BY <1>3, <1>8, Distance, Zenon
<1>10. k = j
  BY <1>5, <1>7, <1>8, <1>9 DEF Apart
<1> QED BY <1>4, <1>7, <1>10

\* A step that learns of no gap
LEMMA NoNewGap ==
    ASSUME IInv, IInv', GapInv, GapIsReported, start' = start, lastvnak' = lastvnak,
           early' = early, net \subseteq net',
           \A p \in Peer : Len(got[p]) <= Len(got'[p])
    PROVE  GapInv' /\ GapIsReported'
<1>1. GapIsReported'
  BY DEF GapIsReported
<1>2. \A p \in Peer : Len(got[p]) \in Nat /\ Len(got'[p]) \in Nat
  <2> TAKE p \in Peer
  <2>1. got[p] \in Seq(Nat) /\ got'[p] \in Seq(Nat)
    BY DEF IInv, TypeOK
  <2> QED BY <2>1
<1>3. ASSUME NEW p \in Peer, lastvnak[p] # start.lastvnak
      PROVE  \E k \in 0 .. Len(got'[p]) :
                 /\ lastvnak'[p] = At(k)
                 /\ \E v \in net' : v.from = p /\ v.kind = "VNAK" /\ v.oseqno = lastvnak'[p]
  <2>1. PICK k \in 0 .. Len(got[p]) :
            /\ lastvnak[p] = At(k)
            /\ \E v \in net : v.from = p /\ v.kind = "VNAK" /\ v.oseqno = lastvnak[p]
    BY <1>3 DEF GapInv
  <2>2. k \in 0 .. Len(got'[p])
    BY <1>2
  <2> QED BY <2>1, <2>2
<1>4. GapInv'
  BY <1>3 DEF GapInv, At
<1> QED BY <1>1, <1>4

\* A frame that is early is reported, now or before.
LEMMA NewGap ==
    ASSUME GapsAreNews, IInv, IInv', GapInv, GapIsReported, start' = start, NEW p \in Peer,
           NEW f \in net, Early(p, f)
    PROVE  GapInv' /\ GapIsReported'
<1>1. PICK i : i = iseqno[p]
  OBVIOUS
<1>2. PICK w : w = Control(p, "VNAK", i, i)
  OBVIOUS
<1>3. w.from = p /\ w.kind = "VNAK" /\ w.oseqno = i
  BY <1>2 DEF Control
<1>4. /\ up[p] /\ got' = got /\ early' = [early EXCEPT ![p] = @ \cup {i}]
      /\ \/ AlreadyTold(p) /\ lastvnak' = lastvnak /\ net' = net
         \/ lastvnak' = [lastvnak EXCEPT ![p] = i] /\ net' = net \cup {w}
  BY <1>1, <1>2 DEF Early, Arrives
<1>5. /\ lastvnak \in [Peer -> Byte] /\ early \in [Peer -> SUBSET Byte] /\ net \subseteq net'
  BY <1>4 DEF IInv, TypeOK
<1>6. \E v \in net' : v.from = p /\ v.kind = "VNAK" /\ v.oseqno = i
  BY <1>1, <1>3, <1>4, Told
<1>7. GapIsReported'
  <2> SUFFICES ASSUME NEW q \in Peer, NEW c \in early'[q]
               PROVE  \E v \in net' : v.from = q /\ v.kind = "VNAK" /\ v.oseqno = c
    BY DEF GapIsReported
  <2>1. c \in early[q] \/ (q = p /\ c = i)
    BY <1>4, <1>5
  <2> QED BY <1>5, <1>6, <2>1 DEF GapIsReported
<1>8. GapInv'
  <2>1. \A q \in Peer : lastvnak'[q] = lastvnak[q] \/ (q = p /\ lastvnak'[q] = i)
    BY <1>4, <1>5
  <2>2. i = At(Len(got[p])) /\ Len(got[p]) \in 0 .. Len(got[p])
    <3>1. Len(got[p]) \in Nat
      BY Bounds DEF IInv, Basics
    <3> QED BY <1>1, <1>4, <3>1 DEF IInv, NumberInv
  <2>3. ASSUME NEW q \in Peer, lastvnak'[q] # start.lastvnak
        PROVE  \E k \in 0 .. Len(got[q]) :
                 /\ lastvnak'[q] = At(k)
                 /\ \E v \in net' : v.from = q /\ v.kind = "VNAK" /\ v.oseqno = lastvnak'[q]
    <3>1. CASE q = p /\ lastvnak'[q] = i
      BY <1>6, <2>2, <3>1
    <3>2. CASE lastvnak'[q] = lastvnak[q]
      BY <1>5, <2>3, <3>2 DEF GapInv
    <3> QED BY <2>1, <3>1, <3>2
  <2> QED BY <1>4, <2>3 DEF GapInv, At
<1> QED BY <1>7, <1>8

\* Whenever a frame is early, a VNAK for the missing one has been sent or is sent now.
THEOREM GapsAreReported ==
    HeartbeatsAvoidZero /\ GapsAreNews => (Spec => []GapIsReported)
<1> SUFFICES ASSUME HeartbeatsAvoidZero, GapsAreNews PROVE Spec => []GapIsReported
  OBVIOUS
<1> DEFINE J == GapInv /\ GapIsReported
<1>1. Init => J
  BY DEF Init, GapInv, GapIsReported
<1>2. ASSUME IInv, IInv', J, [Next]_vars PROVE J'
  <2>1. CASE UNCHANGED vars
    BY <1>2, <2>1 DEF vars, seqnos, GapInv, GapIsReported, At
  <2>2. CASE Next
    <3>1. start' = start
      BY <2>2 DEF Next
    <3>2. PICK p \in Peer :
              \/ Write(p) \/ SendHeartbeat(p) \/ Hangup(p)
              \/ \E f \in net : Receive(p, f)
              \/ Timer(p)
      BY <2>2 DEF Next
    <3>3. ASSUME NEW f \in net, Early(p, f) PROVE J'
      BY <1>2, <3>1, <3>3, NewGap
    <3>4. ASSUME lastvnak' = lastvnak, early' = early, net \subseteq net',
                 \A q \in Peer : Len(got[q]) <= Len(got'[q])
          PROVE  J'
      BY <1>2, <3>1, <3>4, NoNewGap
    <3>5. \A q \in Peer : Len(got[q]) \in Nat /\ got[q] \in Seq(Nat)
      <4> TAKE q \in Peer
      <4>1. got[q] \in Seq(Nat)
        BY <1>2 DEF IInv, TypeOK
      <4> QED BY <4>1
    <3>6. CASE got' = got /\ lastvnak' = lastvnak /\ early' = early /\ net \subseteq net'
      BY <3>4, <3>5, <3>6
    <3>7. CASE Write(p) \/ SendHeartbeat(p) \/ Hangup(p)
      BY <3>6, <3>7 DEF Write, SendHeartbeat, Hangup, Close, seqnos
    <3>8. CASE Timer(p)
      BY <3>6, <3>8 DEF Timer, FreeAcked, Retransmit, TimeOut, Close, seqnos
    <3>9. ASSUME NEW f \in net, Receive(p, f) PROVE J'
      <4>1. CASE Deliver(p, f)
        <5>1. /\ got' = [got EXCEPT ![p] = Append(@, f.n)]
              /\ lastvnak' = lastvnak /\ early' = early /\ net \subseteq net'
          BY <4>1 DEF Deliver, Advance
        <5>2. f.n \in Nat /\ got \in [Peer -> Seq(Nat)]
          BY <1>2 DEF IInv, TypeOK, Frame
        <5>3. Len(Append(got[p], f.n)) = Len(got[p]) + 1
          BY <3>5, <5>2
        <5>4. \A q \in Peer : got'[q] = IF q = p THEN Append(got[p], f.n) ELSE got[q]
          BY <5>1, <5>2
        <5>5. ASSUME NEW q \in Peer PROVE Len(got[q]) <= Len(got'[q])
          <6>1. Len(got[q]) \in Nat
            BY <3>5
          <6>2. CASE q = p
            <7>1. got'[q] = Append(got[p], f.n)
              BY <5>4, <6>2
            <7>2. Len(got'[q]) = Len(got[q]) + 1
              BY <5>3, <6>2, <7>1
            <7> QED BY <6>1, <7>2
          <6>3. CASE q # p
            BY <5>4, <6>1, <6>3
          <6> QED BY <6>2, <6>3
        <5> QED BY <3>4, <5>1, <5>5
      <4>2. CASE Early(p, f)
        BY <3>3, <4>2
      <4>3. CASE Repeat(p, f) \/ TakeAck(p, f) \/ TakeVnak(p, f)
        BY <3>6, <4>3 DEF Repeat, TakeAck, TakeVnak
      <4>4. CASE TakeHeartbeat(p, f)
        BY <3>6, <4>4 DEF TakeHeartbeat, Advance
      <4>5. CASE TakeHangup(p, f)
        BY <3>6, <4>5 DEF TakeHangup, Advance
      <4> QED BY <3>9, <4>1, <4>2, <4>3, <4>4, <4>5 DEF Receive
    <3> QED BY <3>2, <3>7, <3>8, <3>9
  <2> QED BY <1>2, <2>1, <2>2
<1>3. J => GapIsReported
  OBVIOUS
<1> HIDE DEF J
<1> QED BY InductiveInvariant, <1>1, <1>2, <1>3, PTL DEF Spec

=============================================================================
