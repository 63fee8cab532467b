---------------------------- MODULE ConferenceProofs ----------------------------
(***************************************************************************)
(* The rooms of the conference server keep their types, end when they are  *)
(* silent and forward video to everyone else, for any number of rooms,     *)
(* members and addresses and any timeouts.  In the second part, the safety *)
(* of one room's audio, which the room's process leaves to the mixer, for  *)
(* any number of members, channels and packets.                            *)
(***************************************************************************)
EXTENDS Conference, Mixer, FiniteSetTheorems, TLAPS

(* What happens to one room *)

\* A room has heard audio recently enough: one that runs, and one that will.
Recent(r) ==
    r.state \in {"starting", "running"} =>
        r.silent <= MS_RECV_TIMEOUT + r.waited /\ r.waited <= SELECT_TIMEOUT

IInv == TypeOK /\ \A p \in Room : Recent(room[p])

LEMMA UnbornIsTyped == Unborn \in RoomRecord /\ Recent(Unborn)
BY ConferenceAssumption DEF Unborn, RoomRecord, Recent

\* The end of a pass leaves no room running that was silent for too long.
LEMMA PassKeeps ==
    ASSUME NEW r \in RoomRecord, r.state = "running"
    PROVE  Pass(r) \in RoomRecord /\ Recent(Pass(r))
<1>1. CASE r.silent > MS_RECV_TIMEOUT
  <2>1. Pass(r) = [r EXCEPT !.waited = 0, !.state = "ended"]
    BY <1>1 DEF Pass, RoomRecord
  <2>2. 0 \in 0 .. SELECT_TIMEOUT
    BY ConferenceAssumption
  <2>3. Pass(r) \in RoomRecord /\ Pass(r).state = "ended"
    BY <2>1, <2>2 DEF RoomRecord
  <2> QED
    BY <2>3 DEF Recent
<1>2. CASE ~(r.silent > MS_RECV_TIMEOUT)
  <2>1. Pass(r) = [r EXCEPT !.waited = 0]
    BY <1>2 DEF Pass, RoomRecord
  <2> QED
    BY <1>2, <2>1, ConferenceAssumption DEF RoomRecord, Recent
<1> QED
  BY <1>1, <1>2

\* Audio makes a room one that is not silent.
LEMMA HeardIsTyped ==
    ASSUME NEW r \in RoomRecord
    PROVE  [r EXCEPT !.silent = 0] \in RoomRecord /\ [r EXCEPT !.silent = 0].state = r.state
BY ConferenceAssumption DEF RoomRecord

\* A new participant gets a channel of the room.
LEMMA AdmittedIsTyped ==
    ASSUME NEW r \in RoomRecord, NEW a \in Addr, r.channel < MAX_PARTICIPANT
    PROVE  Admitted(r, a) \in RoomRecord
<1>1. r.channel \in 0 .. MAX_PARTICIPANT - 1 /\ r.channel + 1 \in 0 .. MAX_PARTICIPANT
  BY ConferenceAssumption DEF RoomRecord
<1>2. [addr |-> a, channel_num |-> r.channel]
            \in [addr : Addr, channel_num : 0 .. MAX_PARTICIPANT - 1]
  BY <1>1
<1>3. r.chi \cup {[addr |-> a, channel_num |-> r.channel]}
            \in SUBSET [addr : Addr, channel_num : 0 .. MAX_PARTICIPANT - 1]
  BY <1>2 DEF RoomRecord
<1> QED
  BY <1>1, <1>3 DEF Admitted, RoomRecord

\* A unit of time brings a room in select nearer to its timeout.
LEMMA TimeKeeps ==
    ASSUME NEW r \in RoomRecord, r.state = "running", Recent(r),
           r.waited < SELECT_TIMEOUT
    PROVE  /\ [r EXCEPT !.waited = @ + 1, !.silent = @ + 1] \in RoomRecord
           /\ Recent([r EXCEPT !.waited = @ + 1, !.silent = @ + 1])
<1> DEFINE w == r.waited + 1
           n == r.silent + 1
           t == [r EXCEPT !.waited = w, !.silent = n]
<1>1. /\ w \in 0 .. SELECT_TIMEOUT /\ n <= MS_RECV_TIMEOUT + w
      /\ n \in 0 .. MS_RECV_TIMEOUT + SELECT_TIMEOUT
  BY ConferenceAssumption DEF RoomRecord, Recent
<1> HIDE DEF w, n
<1>2. t \in RoomRecord /\ t.waited = w /\ t.silent = n
  BY <1>1 DEF RoomRecord
<1>3. Recent(t)
  BY <1>1, <1>2 DEF Recent
<1> QED
  BY <1>2, <1>3 DEF w, n

\* A step that gives one room a good record and leaves the others keeps them all good.
LEMMA OneRoom ==
    ASSUME NEW p \in Room, NEW r \in RoomRecord, Recent(r),
           room \in [Room -> RoomRecord], \A q \in Room : Recent(room[q]),
           room' = [room EXCEPT ![p] = r]
    PROVE  room' \in [Room -> RoomRecord] /\ \A q \in Room : Recent(room'[q])
OBVIOUS

-----------------------------------------------------------------------------

Rooms == room \in [Room -> RoomRecord] /\ \A p \in Room : Recent(room[p])

Rest ==
    /\ server \in [Key -> {"idle", "waiting", "open", "closed"}]
    /\ told \in [Key -> Room \cup {NoRoom}]
    /\ net \subseteq Datagram
    /\ inside \in [Member -> Key \cup {NoKey}]
    /\ addr \in [Member -> Addr]
    /\ forward = None \/ (forward.by \in Member /\ forward.to \subseteq Addr)

LEMMA InvParts == IInv <=> Rooms /\ Rest
BY DEF IInv, TypeOK, Rooms, Rest

LEMMA InvPartsNext == IInv' <=> Rooms' /\ Rest'
BY DEF IInv, TypeOK, Rooms, Rest

LEMMA InitInv == Init => IInv
<1> SUFFICES ASSUME Init PROVE Rooms /\ Rest
  BY InvParts
<1>1. Rooms
  BY UnbornIsTyped DEF Init, Rooms
<1>2. Rest
  BY DEF Init, Rest, Caller!Init
<1> QED
  BY <1>1, <1>2

\* Every step keeps the records of the rooms good.
LEMMA NextRooms ==
    ASSUME Rooms, Rest, [Next]_vars
    PROVE  Rooms'
<1> USE DEF Rooms
<1>1. CASE UNCHANGED room
  BY <1>1
<1>2. ASSUME NEW p \in Room, NEW k \in Key, Fork(p, k)
      PROVE  Rooms'
  <2> DEFINE r == [Unborn EXCEPT !.state = "starting", !.key = k]
  <2>1. r \in RoomRecord /\ Recent(r)
    <3>1. r \in RoomRecord /\ r.silent = 0 /\ r.waited = 0
      <4>1. Unborn \in RoomRecord /\ Unborn.silent = 0 /\ Unborn.waited = 0
        BY UnbornIsTyped DEF Unborn
      <4> QED
        BY <4>1 DEF RoomRecord
    <3>2. 0 <= MS_RECV_TIMEOUT + 0 /\ 0 <= SELECT_TIMEOUT
      BY ConferenceAssumption
    <3> HIDE DEF r
    <3> QED
      BY <3>1, <3>2 DEF Recent
  <2>2. room' = [room EXCEPT ![p] = r]
    BY <1>2 DEF Fork
  <2> HIDE DEF r
  <2> QED
    BY <2>1, <2>2, OneRoom
<1>3. ASSUME NEW p \in Room, Start(p)
      PROVE  Rooms'
  <2>1. PICK s \in {"running", "ended"} : room' = [room EXCEPT ![p].state = s]
    BY <1>3 DEF Start
  <2> DEFINE r == [room[p] EXCEPT !.state = s]
  <2>2. r \in RoomRecord /\ r.silent = room[p].silent /\ r.waited = room[p].waited
    BY DEF RoomRecord
  <2>4. Recent(r)
    BY <1>3, <2>2 DEF Start, Recent
  <2>3. room' = [room EXCEPT ![p] = r]
    BY <2>1
  <2> HIDE DEF r
  <2> QED
    BY <2>2, <2>3, <2>4, OneRoom
<1>4. ASSUME NEW p \in Room, SelectTimeout(p)
      PROVE  Rooms'
  BY <1>4, PassKeeps, OneRoom DEF SelectTimeout, Running
<1>5. ASSUME NEW p \in Room, Hupcnf(p)
      PROVE  Rooms'
  <2> DEFINE r == [room[p] EXCEPT !.state = "ended"]
  <2>1. r \in RoomRecord /\ Recent(r)
    BY DEF RoomRecord, Recent
  <2>2. room' = [room EXCEPT ![p] = r]
    BY <1>5 DEF Hupcnf
  <2> HIDE DEF r
  <2> QED
    BY <2>1, <2>2, OneRoom
<1>6. ASSUME NEW p \in Room, NEW m \in Member, Opus(p, m)
      PROVE  Rooms'
  <2>1. PICK r \in RoomRecord :
           r.state = "running" /\ room' = [room EXCEPT ![p] = Pass([r EXCEPT !.silent = 0])]
    <3>1. room[p] \in RoomRecord /\ addr[m] \in Addr
      BY DEF Rest
    <3>2. CASE Channels(room[p], addr[m]) # {}
      BY <1>6, <3>1, <3>2 DEF Opus, Running
    <3>3. CASE Channels(room[p], addr[m]) = {}
      <4>1. Admitted(room[p], addr[m]).state = room[p].state
        BY <3>1 DEF Admitted, RoomRecord
      <4> QED
        BY <1>6, <3>1, <3>3, <4>1, AdmittedIsTyped DEF Opus, Running
    <3> QED
      BY <3>2, <3>3
  <2> QED
    BY <2>1, HeardIsTyped, PassKeeps, OneRoom
<1>7. ASSUME NEW p \in Room, NEW m \in Member, Video(p, m)
      PROVE  Rooms'
  BY <1>7, PassKeeps, OneRoom DEF Video, Running
<1>8. CASE Time
  <2> SUFFICES ASSUME NEW p \in Room
               PROVE  room'[p] \in RoomRecord /\ Recent(room'[p])
    BY <1>8 DEF Time
  <2>1. CASE Running(p)
    BY <1>8, <2>1, TimeKeeps DEF Time, Running
  <2>2. CASE ~Running(p)
    BY <1>8, <2>2 DEF Time
  <2> QED
    BY <2>1, <2>2
<1> QED
  BY <1>1, <1>2, <1>3, <1>4, <1>5, <1>6, <1>7, <1>8
  DEF Next, vars, Ask, TakeReply, GiveUp, HangUp, Join, Leave, Move

\* Forwarding goes to addresses of channels.
LEMMA OthersAreAddresses ==
    ASSUME NEW r \in RoomRecord, NEW a
    PROVE  Others(r, a) \subseteq Addr
BY DEF Others, RoomRecord

\* Every step keeps the types of everything else.
LEMMA NextRest ==
    ASSUME Rooms, Rest, [Next]_vars
    PROVE  Rest'
<1> USE DEF Rest
<1>1. CASE UNCHANGED vars
  BY <1>1 DEF vars
<1>2. ASSUME NEW p \in Room, NEW k \in Key, Fork(p, k)
      PROVE  Rest'
  BY <1>2 DEF Fork
<1>3. ASSUME NEW p \in Room, Start(p)
      PROVE  Rest'
  BY <1>3 DEF Start, Datagram
<1>4. ASSUME NEW p \in Room, SelectTimeout(p) \/ Hupcnf(p)
      PROVE  Rest'
  BY <1>4 DEF SelectTimeout, Hupcnf
<1>5. ASSUME NEW p \in Room, NEW m \in Member, Opus(p, m)
      PROVE  Rest'
  BY <1>5 DEF Opus
<1>6. ASSUME NEW p \in Room, NEW m \in Member, Video(p, m)
      PROVE  Rest'
  <2>1. Others(room[p], addr[m]) \subseteq Addr
    BY OthersAreAddresses DEF Rooms
  <2> QED
    BY <1>6, <2>1 DEF Video
<1>7. CASE Time
  BY <1>7 DEF Time
<1>8. ASSUME NEW k \in Key, Ask(k) \/ TakeReply(k) \/ GiveUp(k) \/ HangUp(k)
      PROVE  Rest'
  <2>1. CASE Ask(k)
    <3>1. [type |-> "NEWCNF", key |-> k] \in Datagram
      BY DEF Datagram
    <3> QED
      BY <2>1, <3>1 DEF Ask, Caller!Ask
  <2>2. CASE TakeReply(k)
    BY <2>2 DEF TakeReply, Caller!TakeReply
  <2>3. CASE GiveUp(k)
    BY <2>3 DEF GiveUp, Caller!GiveUp
  <2>4. CASE HangUp(k)
    <3>1. [type |-> "HUPCNF", key |-> k] \in Datagram
      BY DEF Datagram
    <3> QED
      BY <2>4, <3>1 DEF HangUp, Caller!HangUp
  <2> QED
    BY <1>8, <2>1, <2>2, <2>3, <2>4
<1>9. ASSUME NEW m \in Member, Join(m) \/ Leave(m) \/ Move(m)
      PROVE  Rest'
  BY <1>9 DEF Join, Leave, Move
<1> QED
  BY <1>1, <1>2, <1>3, <1>4, <1>5, <1>6, <1>7, <1>8, <1>9 DEF Next

-----------------------------------------------------------------------------
(* The channels of a room *)

\* No two participants of a room have one channel, and the next channel is free.
Numbered(r) ==
    \A x \in r.chi : /\ x.channel_num < r.channel
                     /\ \A y \in r.chi : x.channel_num = y.channel_num => x = y

\* No two members send from one address.
AddrsDiffer == \A m, n \in Member : m # n => addr[m] # addr[n]

Apart == AddrsDiffer /\ \A p \in Room : Numbered(room[p])

LEMMA AdmittedIsNumbered ==
    ASSUME NEW r \in RoomRecord, NEW a \in Addr, Numbered(r)
    PROVE  Numbered(Admitted(r, a))
<1>1. PICK e : e = [addr |-> a, channel_num |-> r.channel]
  OBVIOUS
<1>2. PICK n : n = Admitted(r, a)
  OBVIOUS
<1>3. n.chi = r.chi \cup {e} /\ n.channel = r.channel + 1 /\ e.channel_num = r.channel
  BY <1>1, <1>2 DEF Admitted, RoomRecord
<1>4. r.channel \in Nat /\ \A x \in r.chi : x.channel_num \in Nat
  BY ConferenceAssumption DEF RoomRecord
<1>5. \A x \in n.chi : x.channel_num < n.channel
  BY <1>3, <1>4 DEF Numbered
<1>6. ASSUME NEW x \in n.chi, NEW y \in n.chi, x.channel_num = y.channel_num PROVE x = y
  <2>1. x.channel_num = r.channel => x = e
    BY <1>3, <1>4 DEF Numbered
  <2>2. y.channel_num = r.channel => y = e
    BY <1>3, <1>4 DEF Numbered
  <2>3. x.channel_num # r.channel => x \in r.chi /\ y \in r.chi
    BY <1>3, <1>6
  <2> QED BY <1>6, <2>1, <2>2, <2>3 DEF Numbered
<1> QED BY <1>2, <1>5, <1>6 DEF Numbered

\* The end of a pass, and the clock, leave the channels alone.
LEMMA PassKeepsChannels ==
    ASSUME NEW r \in RoomRecord
    PROVE  Pass(r).chi = r.chi /\ Pass(r).channel = r.channel
BY DEF Pass, RoomRecord

\* A step that leaves the channels of every room but p alone keeps them numbered.
LEMMA ChannelsKept ==
    ASSUME Apart, NEW p \in Room, UNCHANGED addr, Numbered(room'[p]),
           \A q \in Room : q # p => room'[q].chi = room[q].chi
                                    /\ room'[q].channel = room[q].channel
    PROVE  Apart'
<1>1. \A q \in Room : Numbered(room'[q])
  BY DEF Apart, Numbered
<1> QED BY <1>1 DEF Apart, AddrsDiffer

LEMMA OneRoomApart ==
    ASSUME IInv, Apart, NEW p \in Room, NEW r, room' = [room EXCEPT ![p] = r],
           Numbered(r), UNCHANGED addr
    PROVE  Apart'
<1>1. room \in [Room -> RoomRecord]
  BY DEF IInv, TypeOK
<1>2. room'[p] = r /\ \A q \in Room : q # p => room'[q] = room[q]
  BY <1>1
<1> QED BY <1>2, ChannelsKept

\* A room that keeps its channels
LEMMA SameChannels ==
    ASSUME NEW r, NEW t, Numbered(r), t.chi = r.chi, t.channel = r.channel
    PROVE  Numbered(t)
BY DEF Numbered

LEMMA InitApart == Init => Apart
BY DEF Init, Apart, AddrsDiffer, Numbered, Unborn

\* Every step keeps the channels of a room apart, and the addresses of the members.
LEMMA NextApart ==
    ASSUME IInv, Apart, [Next]_vars
    PROVE  Apart'
<1> USE DEF Apart
<1>0. room \in [Room -> RoomRecord] /\ \A q \in Room : Numbered(room[q])
  BY DEF IInv, TypeOK
<1>1. CASE UNCHANGED <<room, addr>>
  BY <1>1 DEF AddrsDiffer
<1>2. ASSUME NEW p \in Room, NEW k \in Key, Fork(p, k) PROVE Apart'
  <2>1. PICK r : r = [Unborn EXCEPT !.state = "starting", !.key = k]
    OBVIOUS
  <2>2. r.chi = {}
    BY <2>1 DEF Unborn
  <2> QED BY <1>2, <2>1, <2>2, OneRoomApart DEF Fork, Numbered
<1>3. ASSUME NEW p \in Room, Start(p) \/ Hupcnf(p) PROVE Apart'
  <2>1. PICK s : room' = [room EXCEPT ![p].state = s]
    BY <1>3 DEF Start, Hupcnf
  <2>2. PICK r : r = [room[p] EXCEPT !.state = s]
    OBVIOUS
  <2>3. r.chi = room[p].chi /\ r.channel = room[p].channel
    BY <1>0, <2>2 DEF RoomRecord
  <2>4. Numbered(r)
    BY <1>0, <2>3, SameChannels
  <2>5. UNCHANGED addr /\ room' = [room EXCEPT ![p] = r]
    BY <1>3, <2>1, <2>2 DEF Start, Hupcnf
  <2> QED BY <2>4, <2>5, OneRoomApart
<1>4. ASSUME NEW p \in Room, NEW r \in RoomRecord, Numbered(r), UNCHANGED addr,
             room' = [room EXCEPT ![p] = Pass(r)]
      PROVE  Apart'
  <2>1. Numbered(Pass(r))
    BY <1>4, PassKeepsChannels, SameChannels
  <2> QED BY <1>4, <2>1, OneRoomApart
<1>5. ASSUME NEW p \in Room, SelectTimeout(p) PROVE Apart'
  BY <1>0, <1>4, <1>5 DEF SelectTimeout
<1>6. ASSUME NEW p \in Room, NEW m \in Member, Video(p, m) PROVE Apart'
  BY <1>0, <1>4, <1>6 DEF Video
<1>7. ASSUME NEW p \in Room, NEW m \in Member, Opus(p, m) PROVE Apart'
  <2>1. PICK r \in RoomRecord :
            Numbered(r) /\ room' = [room EXCEPT ![p] = Pass([r EXCEPT !.silent = 0])]
    <3>1. room[p] \in RoomRecord /\ addr[m] \in Addr
      BY DEF IInv, TypeOK
    <3>2. CASE Channels(room[p], addr[m]) # {}
      BY <1>0, <1>7, <3>1, <3>2 DEF Opus
    <3>3. CASE Channels(room[p], addr[m]) = {}
      <4>1. /\ room[p].channel < MAX_PARTICIPANT
            /\ room' = [room EXCEPT ![p] =
                          Pass([Admitted(room[p], addr[m]) EXCEPT !.silent = 0])]
        BY <1>7, <3>3 DEF Opus
      <4>2. Admitted(room[p], addr[m]) \in RoomRecord
        BY <3>1, <4>1, AdmittedIsTyped
      <4>3. Numbered(Admitted(room[p], addr[m]))
        BY <1>0, <3>1, AdmittedIsNumbered
      <4> QED BY <4>1, <4>2, <4>3
    <3> QED BY <3>2, <3>3
  <2>2. PICK h : h = [r EXCEPT !.silent = 0]
    OBVIOUS
  <2>3. h \in RoomRecord
    BY <2>2, HeardIsTyped
  <2>4. h.chi = r.chi /\ h.channel = r.channel
    BY <2>2 DEF RoomRecord
  <2>5. Numbered(h)
    BY <2>1, <2>4, SameChannels
  <2>6. UNCHANGED addr /\ room' = [room EXCEPT ![p] = Pass(h)]
    BY <1>7, <2>1, <2>2 DEF Opus
  <2> QED BY <1>4, <2>3, <2>5, <2>6
<1>8. CASE Time
  <2>1. ASSUME NEW p \in Room PROVE Numbered(room'[p])
    <3>1. room[p] \in RoomRecord /\ Numbered(room[p])
      BY <1>0
    <3>2. room'[p].chi = room[p].chi /\ room'[p].channel = room[p].channel
      BY <1>8, <3>1 DEF Time, RoomRecord
    <3> QED BY <3>1, <3>2, SameChannels
  <2> QED BY <1>8, <2>1 DEF Time, AddrsDiffer
<1>9. ASSUME NEW k \in Key, Ask(k) \/ TakeReply(k) \/ GiveUp(k) \/ HangUp(k) PROVE Apart'
  BY <1>1, <1>9 DEF Ask, TakeReply, GiveUp, HangUp
<1>10. ASSUME NEW m \in Member, Join(m) \/ Leave(m) PROVE Apart'
  BY <1>1, <1>10 DEF Join, Leave
<1>11. ASSUME NEW m \in Member, Move(m) PROVE Apart'
  <2>1. PICK a \in Addr : (\A n \in Member : addr[n] # a) /\ addr' = [addr EXCEPT ![m] = a]
    BY <1>11 DEF Move
  <2>2. DOMAIN addr = Member
    BY DEF IInv, TypeOK
  <2>3. AddrsDiffer'
    BY <2>1, <2>2 DEF AddrsDiffer
  <2> QED BY <1>0, <1>11, <2>3 DEF Move
<1>12. CASE UNCHANGED vars
  BY <1>1, <1>12 DEF vars
<1> QED
  BY <1>2, <1>3, <1>5, <1>6, <1>7, <1>8, <1>9, <1>10, <1>11, <1>12 DEF Next

\* send_to_all_video_channel: the sender's own channel is the only one left out.
LEMMA OthersAreAll ==
    ASSUME NEW r, Numbered(r), NEW a, NEW x \in r.chi
    PROVE  /\ x.addr # a => x.addr \in Others(r, a)
           /\ a \notin Others(r, a)
<1>1. ASSUME x.addr # a PROVE x.addr \in Others(r, a)
  <2>1. \A own \in Channels(r, a) : x.channel_num # own.channel_num
    BY <1>1 DEF Channels, Numbered
  <2> QED BY <2>1 DEF Others
<1>2. \A ch \in r.chi : ch.addr = a => ch \in Channels(r, a)
  BY DEF Channels
<1>3. a \notin Others(r, a)
  BY <1>2 DEF Others
<1> QED BY <1>1, <1>3

LEMMA VideoReaches ==
    ASSUME IInv, Apart, NEW p \in Room, NEW m \in Member, Video(p, m)
    PROVE  VideoReachesTheOthers'
<1> SUFFICES ASSUME forward' # None PROVE VideoReachesTheOthers'
  BY DEF VideoReachesTheOthers
<1>1. /\ Channels(room[p], addr[m]) # {}
      /\ forward' = [by |-> m, to |-> Others(room[p], addr[m])]
      /\ told[inside[m]] = p /\ UNCHANGED <<told, inside, addr>>
      /\ room' = [room EXCEPT ![p] = Pass(room[p])]
  BY DEF Video, SendsTo
<1>2. forward'.by = m /\ forward'.to = Others(room[p], addr[m])
  BY <1>1
<1>3. /\ room[p] \in RoomRecord /\ Numbered(room[p]) /\ AddrsDiffer
      /\ room'[p].chi = room[p].chi
  BY <1>1, PassKeepsChannels DEF IInv, TypeOK, Apart
<1>4. addr[m] \notin Others(room[p], addr[m])
  <2>1. PICK x \in room[p].chi : x.addr = addr[m]
    BY <1>1 DEF Channels
  <2> QED BY <1>3, OthersAreAll
<1>5. ASSUME NEW n \in Member \ {m}, Channels(room'[p], addr[n]) # {}
      PROVE  addr[n] \in Others(room[p], addr[m])
  <2>1. PICK x \in room[p].chi : x.addr = addr[n]
    BY <1>3, <1>5 DEF Channels
  <2>2. addr[n] # addr[m]
    BY <1>3 DEF AddrsDiffer
  <2> QED BY <1>3, <2>1, <2>2, OthersAreAll
<1> QED BY <1>1, <1>2, <1>4, <1>5 DEF VideoReachesTheOthers

LEMMA NextReaches ==
    ASSUME IInv, Apart, VideoReachesTheOthers, [Next]_vars
    PROVE  VideoReachesTheOthers'
<1>1. CASE forward' = None
  BY <1>1 DEF VideoReachesTheOthers
<1>2. ASSUME NEW p \in Room, NEW m \in Member, Video(p, m) PROVE VideoReachesTheOthers'
  BY <1>2, VideoReaches
<1>3. CASE UNCHANGED vars
  BY <1>3 DEF vars, VideoReachesTheOthers, SendsTo
<1> QED
  BY <1>1, <1>2, <1>3 DEF Next, Fork, Start, SelectTimeout, Hupcnf, Opus, Time, Ask,
     TakeReply, GiveUp, HangUp, Join, Leave, Move

-----------------------------------------------------------------------------

LEMMA Invariant == Spec => []IInv
<1>1. ASSUME IInv, [Next]_vars
      PROVE  IInv'
  BY <1>1, InvParts, InvPartsNext, NextRooms, NextRest
<1> QED
  BY InitInv, <1>1, PTL DEF Spec

\* The variables of the conference server keep their types (start_meetme,
\* process_udp), for any number of rooms and members.
THEOREM TypeCorrect == Spec => []TypeOK
BY Invariant, PTL DEF IInv

\* However the packets of its members are timed, a room runs for no longer than the
\* receive timeout and one select after the last audio it has heard.
THEOREM SilenceEnds == Spec => []SilentRoomEnds
<1>1. IInv => SilentRoomEnds
  BY DEF IInv, SilentRoomEnds, Recent, Running
<1> QED
  BY Invariant, <1>1, PTL

\* Video of a member goes to the present address of every other member the room has
\* heard from there, and never back, for any number of members and however their
\* addresses change: no two participants of a room ever have one channel number
\* (send_to_all_video_channel compares channel numbers, not addresses).
THEOREM VideoReachesAll == Spec => []VideoReachesTheOthers
<1>1. Init => VideoReachesTheOthers
  BY DEF Init, VideoReachesTheOthers
<1>2. IInv /\ Apart /\ [Next]_vars => Apart'
  BY NextApart
<1>3. IInv /\ Apart /\ VideoReachesTheOthers /\ [Next]_vars => VideoReachesTheOthers'
  BY NextReaches
<1> QED
  BY InitApart, <1>1, <1>2, <1>3, Invariant, PTL DEF Spec

-----------------------------------------------------------------------------
(* The audio of a room: the module Mixer, whose state has nothing in common  *)
(* with that of the conference server.                                       *)

\* How far the channel c is set up: the main thread has done the steps before those given.
Passed(c, steps) == c < channel \/ (c = channel /\ main \in steps)

\* What each step of setup_mixer has left behind.
SetupInv ==
    /\ main \in {"link", "create", "add", "send", "receive", "deliver"} => channel < MaxMembers
    /\ p_chi = IF main \in {"create", "add", "send", "receive", "deliver"}
               THEN 0 .. channel ELSE 0 .. channel - 1
    /\ \A c \in Channel :
        /\ c \in recording => Passed(c, {"receive", "deliver"})
        /\ c \in playing => Passed(c, {"deliver"})
        /\ c \in recording \cup playing => c \in call
        /\ ~crashed /\ Passed(c, {"add", "send", "receive", "deliver"}) => c \in call
        /\ c >= channel => arrived[c] = 0

\* A source is in the mixer from AddSource on, but while its thread has taken it out.
SourceInv ==
    \A c \in Channel :
        source[c] = IF Passed(c, {"send", "receive", "deliver"}) /\ tick[c] \notin {"mix", "add"}
                    THEN 1 ELSE 0

\* Only the thread of channel 0 mixes, and only devices that play decode and mix.
TickInv ==
    \A c \in Channel :
        /\ tick[c] # "wait" => c \in playing
        /\ tick[c] \in {"remove", "mix", "add"} => c = 0

\* The room's mixer lasts as long as the room.
EndInv == (~mixer => main \in {"over", "exited"}) /\ CrashIsExplained

\* A packet's way: arrived, decoded, mixed, copied; a channel that is not set up has none.
AudioInv ==
    \A d \in Channel :
        /\ audio_data[d] <= arrived[d]
        /\ mixed[d] <= audio_data[d]
        /\ ~Passed(d, {"send", "receive", "deliver"}) => mixed[d] = Absent
        /\ \A c \in Channel : send_buffer[c][d] <= mixed[d]

MixerInv == MixerTypeOK /\ SetupInv /\ SourceInv /\ TickInv /\ EndInv /\ ZeroIsNotMixed

-----------------------------------------------------------------------------

\* The order of the steps, one by one.
LEMMA Follow ==
    /\ Follows("select") = "link" /\ Follows("link") = "create"
    /\ Follows("create") = "add" /\ Follows("add") = "send"
    /\ Follows("send") = "receive" /\ Follows("receive") = "deliver"
    /\ Follows("deliver") = "select"
<1> DEFINE At(step) == CHOOSE j \in 1 .. Len(Order) : Order[j] = step
<1>1. /\ Order[1] = "select" /\ Order[2] = "link" /\ Order[3] = "create" /\ Order[4] = "add"
      /\ Order[5] = "send" /\ Order[6] = "receive" /\ Order[7] = "deliver" /\ Len(Order) = 7
  BY DEF Order
<1>2. \A step : (\E j \in 1 .. 7 : Order[j] = step) =>
                    At(step) \in 1 .. 7 /\ Order[At(step)] = step
  BY <1>1
<1>3. /\ At("select") = 1 /\ At("link") = 2 /\ At("create") = 3 /\ At("add") = 4
      /\ At("send") = 5 /\ At("receive") = 6 /\ At("deliver") = 7
  <2> HIDE DEF At
  <2> QED BY <1>1, <1>2
<1>4. \A step : Follows(step) = Order[(At(step) % 7) + 1]
  BY <1>1 DEF Follows
<1> HIDE DEF At
<1> QED BY <1>1, <1>3, <1>4

LEMMA InitMixer == MixerInit => MixerInv
<1> USE MixerAssumption DEF Channel
<1>1. Nobody \in Frame /\ Garbage \in Audio /\ 0 \in Channel
  BY DEF Nobody, Frame, Audio
<1>2. ASSUME MixerInit PROVE MixerTypeOK
  <2>1. /\ source \in [Channel -> Nat] /\ arrived \in [Channel -> 0 .. MaxPackets]
        /\ audio_data \in [Channel -> Audio] /\ send_buffer \in [Channel -> Frame]
    BY <1>1, <1>2 DEF MixerInit
  <2>2. tick \in [Channel -> {"wait", "remove", "mix", "add", "send"}]
    BY <1>2 DEF MixerInit
  <2>3. 0 \in 0 .. MaxMembers
    OBVIOUS
  <2> QED BY <1>1, <1>2, <2>1, <2>2, <2>3 DEF MixerInit, MixerTypeOK
<1>3. MixerInit => SetupInv /\ SourceInv /\ TickInv
  BY DEF MixerInit, SetupInv, SourceInv, TickInv, Passed
<1>4. MixerInit => EndInv /\ ZeroIsNotMixed
  BY DEF MixerInit, EndInv, CrashIsExplained, ZeroIsNotMixed, Nobody
<1> QED BY <1>2, <1>3, <1>4 DEF MixerInv

LEMMA NewMemberInv ==
    ASSUME MixerInv, NewMember
    PROVE  MixerInv'
<1> USE MixerAssumption, Follow DEF MixerInv, Channel
<1>1. MixerTypeOK'
  BY DEF NewMember, Step, device, audio, MixerTypeOK, Runs, SetupInv
<1>2. SetupInv'
  BY DEF NewMember, Step, device, audio, MixerTypeOK, SetupInv, Runs, Passed
<1>3. SourceInv'
  BY DEF NewMember, Step, device, audio, MixerTypeOK, SetupInv, SourceInv, TickInv, Passed
<1>4. TickInv'
  BY DEF NewMember, Step, device, audio, MixerTypeOK, TickInv
<1>5. EndInv'
  BY DEF NewMember, Step, device, audio, EndInv, CrashIsExplained, Runs, MixerTypeOK
<1>6. ZeroIsNotMixed'
  BY DEF NewMember, Step, device, audio, ZeroIsNotMixed, MixerTypeOK
<1> QED BY <1>1, <1>2, <1>3, <1>4, <1>5, <1>6

LEMMA LinkInv ==
    ASSUME MixerInv, Link
    PROVE  MixerInv'
<1> USE MixerAssumption, Follow DEF MixerInv, Channel
<1>1. MixerTypeOK'
  BY DEF Link, Step, device, audio, MixerTypeOK, Runs, SetupInv
<1>2. SetupInv'
  BY DEF Link, Step, device, audio, MixerTypeOK, SetupInv, Runs, Passed
<1>3. SourceInv'
  BY DEF Link, Step, device, audio, MixerTypeOK, SetupInv, SourceInv, TickInv, Passed
<1>4. TickInv'
  BY DEF Link, Step, device, audio, MixerTypeOK, TickInv
<1>5. EndInv'
  BY DEF Link, Step, device, audio, EndInv, CrashIsExplained, Runs, MixerTypeOK
<1>6. ZeroIsNotMixed'
  BY DEF Link, Step, device, audio, ZeroIsNotMixed, MixerTypeOK
<1> QED BY <1>1, <1>2, <1>3, <1>4, <1>5, <1>6

LEMMA CreateInv ==
    ASSUME MixerInv, Create
    PROVE  MixerInv'
<1> USE MixerAssumption, Follow DEF MixerInv, Channel
<1>1. MixerTypeOK'
  <2>1. channel \in Channel
    BY DEF Create, Step, MixerTypeOK, SetupInv
  <2>2. call' \subseteq Channel /\ crashed' \in BOOLEAN
    BY <2>1 DEF Create, MixerTypeOK
  <2>3. main' = "add"
    BY DEF Create, Step
  <2> QED BY <2>2, <2>3 DEF Create, MixerTypeOK, audio
<1>2. SetupInv'
  <2>1. main = "create" /\ main' = "add"
    BY DEF Create, Step
  <2>2. ~ crashed' => call' = call \cup {channel}
    BY DEF Create, MixerTypeOK
  <2> QED BY <2>1, <2>2 DEF Create, audio, MixerTypeOK, SetupInv, Passed
<1>3. SourceInv'
  BY DEF Create, Step, audio, MixerTypeOK, SetupInv, SourceInv, TickInv, Passed
<1>4. TickInv'
  BY DEF Create, Step, audio, MixerTypeOK, TickInv
<1>5. EndInv'
  <2>1. main = "create" /\ p_chi' = 0 .. channel /\ channel \in Nat
    BY DEF Create, Step, SetupInv, MixerTypeOK
  <2>2. Cardinality(p_chi') = channel + 1
    BY <2>1, FS_Interval
  <2>3. crashed' => channel >= MaxParticipant
    <3>1. ~crashed
      BY DEF Create, Step, Runs
    <3>2. ASSUME channel < MaxParticipant
          PROVE  ~crashed'
      BY <3>1, <3>2, Zenon DEF Create
    <3>3. channel < MaxParticipant \/ channel >= MaxParticipant
      BY <2>1
    <3> QED BY <3>2, <3>3
  <2>4. CrashIsExplained'
    BY <2>1, <2>2, <2>3 DEF CrashIsExplained
  <2> QED BY <2>1, <2>4 DEF Create, EndInv
<1>6. ZeroIsNotMixed'
  BY DEF Create, Step, audio, ZeroIsNotMixed, MixerTypeOK
<1> QED BY <1>1, <1>2, <1>3, <1>4, <1>5, <1>6

LEMMA AddSourceInv ==
    ASSUME MixerInv, AddSource
    PROVE  MixerInv'
<1> USE MixerAssumption, Follow DEF MixerInv, Channel
<1>1. MixerTypeOK'
  <2>1. channel \in Channel
    BY DEF AddSource, Step, MixerTypeOK, SetupInv
  <2>2. source' \in [Channel -> Nat]
    BY <2>1 DEF AddSource, MixerTypeOK
  <2> QED BY <2>2 DEF AddSource, Step, device, audio, MixerTypeOK, Runs, SetupInv
<1>2. SetupInv'
  BY DEF AddSource, Step, device, audio, MixerTypeOK, SetupInv, Runs, Passed
<1>3. SourceInv'
  BY DEF AddSource, Step, device, audio, MixerTypeOK, SetupInv, SourceInv, TickInv, Passed
<1>4. TickInv'
  BY DEF AddSource, Step, device, audio, MixerTypeOK, TickInv
<1>5. EndInv'
  BY DEF AddSource, Step, device, audio, EndInv, CrashIsExplained, Runs, MixerTypeOK
<1>6. ZeroIsNotMixed'
  BY DEF AddSource, Step, device, audio, ZeroIsNotMixed, MixerTypeOK
<1> QED BY <1>1, <1>2, <1>3, <1>4, <1>5, <1>6

LEMMA StartSendInv ==
    ASSUME MixerInv, StartSend
    PROVE  MixerInv'
<1> USE MixerAssumption, Follow DEF MixerInv, Channel
<1>1. MixerTypeOK'
  BY DEF StartSend, Step, audio, MixerTypeOK, Runs, SetupInv
<1>2. SetupInv'
  BY DEF StartSend, Step, audio, MixerTypeOK, SetupInv, Runs, Passed
<1>3. SourceInv'
  BY DEF StartSend, Step, audio, MixerTypeOK, SetupInv, SourceInv, TickInv, Passed
<1>4. TickInv'
  BY DEF StartSend, Step, audio, MixerTypeOK, TickInv
<1>5. EndInv'
  BY DEF StartSend, Step, audio, EndInv, CrashIsExplained, Runs, MixerTypeOK
<1>6. ZeroIsNotMixed'
  BY DEF StartSend, Step, audio, ZeroIsNotMixed, MixerTypeOK
<1> QED BY <1>1, <1>2, <1>3, <1>4, <1>5, <1>6

LEMMA StartReceiveInv ==
    ASSUME MixerInv, StartReceive
    PROVE  MixerInv'
<1> USE MixerAssumption, Follow DEF MixerInv, Channel
<1>1. MixerTypeOK'
  BY DEF StartReceive, Step, audio, MixerTypeOK, Runs, SetupInv
<1>2. SetupInv'
  BY DEF StartReceive, Step, audio, MixerTypeOK, SetupInv, Runs, Passed
<1>3. SourceInv'
  BY DEF StartReceive, Step, audio, MixerTypeOK, SetupInv, SourceInv, TickInv, Passed
<1>4. TickInv'
  BY DEF StartReceive, Step, audio, MixerTypeOK, TickInv
<1>5. EndInv'
  BY DEF StartReceive, Step, audio, EndInv, CrashIsExplained, Runs, MixerTypeOK
<1>6. ZeroIsNotMixed'
  BY DEF StartReceive, Step, audio, ZeroIsNotMixed, MixerTypeOK
<1> QED BY <1>1, <1>2, <1>3, <1>4, <1>5, <1>6

LEMMA DeliverInv ==
    ASSUME MixerInv, Deliver
    PROVE  MixerInv'
<1> USE MixerAssumption, Follow DEF MixerInv, Channel
<1>1. MixerTypeOK'
  BY DEF Deliver, Delivered, NextChannel, Step, device, audio, MixerTypeOK, Runs, SetupInv
<1>2. SetupInv'
  BY DEF Deliver, Delivered, NextChannel, Step, device, audio, MixerTypeOK, SetupInv, Runs, Passed
<1>3. SourceInv'
  BY DEF Deliver, Delivered, NextChannel, Step, device, audio, MixerTypeOK, SetupInv, SourceInv, TickInv, Passed
<1>4. TickInv'
  BY DEF Deliver, Delivered, NextChannel, Step, device, audio, MixerTypeOK, TickInv
<1>5. EndInv'
  BY DEF Deliver, Delivered, NextChannel, Step, device, audio, EndInv, CrashIsExplained, Runs, MixerTypeOK
<1>6. ZeroIsNotMixed'
  BY DEF Deliver, Delivered, NextChannel, Step, device, audio, ZeroIsNotMixed, MixerTypeOK
<1> QED BY <1>1, <1>2, <1>3, <1>4, <1>5, <1>6

LEMMA DeinitInv ==
    ASSUME MixerInv, Deinit
    PROVE  MixerInv'
<1> USE MixerAssumption, Follow DEF MixerInv, Channel
<1>1. MixerTypeOK'
  BY DEF Deinit, device, audio, MixerTypeOK, Runs, SetupInv
<1>2. SetupInv'
  BY DEF Deinit, device, audio, MixerTypeOK, SetupInv, Runs, Passed
<1>3. SourceInv'
  BY DEF Deinit, device, audio, MixerTypeOK, SetupInv, SourceInv, TickInv, Passed
<1>4. TickInv'
  BY DEF Deinit, device, audio, MixerTypeOK, TickInv
<1>5. EndInv'
  BY DEF Deinit, device, audio, EndInv, CrashIsExplained, Runs, MixerTypeOK
<1>6. ZeroIsNotMixed'
  BY DEF Deinit, device, audio, ZeroIsNotMixed, MixerTypeOK
<1> QED BY <1>1, <1>2, <1>3, <1>4, <1>5, <1>6

LEMMA ExitInv ==
    ASSUME MixerInv, Exit
    PROVE  MixerInv'
<1> USE MixerAssumption, Follow DEF MixerInv, Channel
<1>1. MixerTypeOK'
  BY DEF Exit, device, audio, MixerTypeOK, Runs, SetupInv
<1>2. SetupInv'
  BY DEF Exit, device, audio, MixerTypeOK, SetupInv, Runs, Passed
<1>3. SourceInv'
  BY DEF Exit, device, audio, MixerTypeOK, SetupInv, SourceInv, TickInv, Passed
<1>4. TickInv'
  BY DEF Exit, device, audio, MixerTypeOK, TickInv
<1>5. EndInv'
  BY DEF Exit, device, audio, EndInv, CrashIsExplained, Runs, MixerTypeOK
<1>6. ZeroIsNotMixed'
  BY DEF Exit, device, audio, ZeroIsNotMixed, MixerTypeOK
<1> QED BY <1>1, <1>2, <1>3, <1>4, <1>5, <1>6

LEMMA PacketInv ==
    ASSUME MixerInv, NEW c \in Channel, Packet(c)
    PROVE  MixerInv'
<1> USE MixerAssumption DEF MixerInv, Channel
<1>1. MixerTypeOK'
  <2>1. arrived' \in [Channel -> 0 .. MaxPackets]
    <3>1. arrived \in [Channel -> 0 .. MaxPackets]
      BY DEF MixerTypeOK
    <3>2. arrived[c] + 1 \in 0 .. MaxPackets
      BY <3>1 DEF Packet
    <3> QED BY <3>1, <3>2 DEF Packet, Delivered
  <2> QED BY <2>1 DEF Packet, Delivered, device, audio, MixerTypeOK, Runs, SetupInv
<1>2. SetupInv'
  BY DEF Packet, Delivered, device, audio, MixerTypeOK, SetupInv, Runs, Passed
<1>3. SourceInv'
  BY DEF Packet, Delivered, device, audio, MixerTypeOK, SetupInv, SourceInv, TickInv, Passed
<1>4. TickInv'
  BY DEF Packet, Delivered, device, audio, MixerTypeOK, TickInv
<1>5. EndInv'
  BY DEF Packet, Delivered, device, audio, EndInv, CrashIsExplained, Runs, MixerTypeOK
<1>6. ZeroIsNotMixed'
  BY DEF Packet, Delivered, device, audio, ZeroIsNotMixed, MixerTypeOK
<1> QED BY <1>1, <1>2, <1>3, <1>4, <1>5, <1>6

LEMMA DecodeInv ==
    ASSUME MixerInv, NEW c \in Channel, Decode(c)
    PROVE  MixerInv'
<1> USE MixerAssumption DEF MixerInv, Channel
<1>1. MixerTypeOK'
  <2>1. 0 .. MaxPackets \subseteq Audio
    BY DEF Audio, Silence
  <2>2. audio_data' \in [Channel -> Audio]
    BY <2>1 DEF Decode, MixerTypeOK
  <2> QED BY <2>2 DEF Decode, Mixes, device, MixerTypeOK
<1>2. SetupInv'
  BY DEF Decode, Mixes, device, MixerTypeOK, SetupInv, Runs, Passed
<1>3. SourceInv'
  BY DEF Decode, Mixes, device, MixerTypeOK, SetupInv, SourceInv, TickInv, Passed
<1>4. TickInv'
  BY DEF Decode, Mixes, device, MixerTypeOK, TickInv
<1>5. EndInv'
  BY DEF Decode, Mixes, device, EndInv, CrashIsExplained, Runs, MixerTypeOK
<1>6. ZeroIsNotMixed'
  BY DEF Decode, Mixes, device, ZeroIsNotMixed, MixerTypeOK
<1> QED BY <1>1, <1>2, <1>3, <1>4, <1>5, <1>6

LEMMA RemoveOwnInv ==
    ASSUME MixerInv, NEW c \in Channel, RemoveOwn(c)
    PROVE  MixerInv'
<1> USE MixerAssumption DEF MixerInv, Channel
<1>1. MixerTypeOK'
  <2>1. TakenOut(source[c]) \in Nat
    <3>1. source[c] \in Nat
      BY DEF MixerTypeOK
    <3> HIDE DEF MixerInv
    <3> QED BY <3>1 DEF TakenOut
  <2> HIDE DEF TakenOut
  <2>2. source' \in [Channel -> Nat]
    BY <2>1 DEF RemoveOwn, MixerTypeOK
  <2> QED BY <2>2 DEF RemoveOwn, Calls, device, MixerTypeOK, Runs, SetupInv
<1>2. SetupInv'
  BY DEF RemoveOwn, Calls, TakenOut, device, MixerTypeOK, SetupInv, Runs, Passed
<1>3. SourceInv'
  BY DEF RemoveOwn, Calls, TakenOut, device, MixerTypeOK, SetupInv, SourceInv, TickInv, Passed
<1>4. TickInv'
  BY DEF RemoveOwn, Calls, TakenOut, device, MixerTypeOK, TickInv
<1>5. EndInv'
  BY DEF RemoveOwn, Calls, TakenOut, device, EndInv, CrashIsExplained, Runs, MixerTypeOK
<1>6. ZeroIsNotMixed'
  BY DEF RemoveOwn, Calls, TakenOut, device, ZeroIsNotMixed, MixerTypeOK
<1> QED BY <1>1, <1>2, <1>3, <1>4, <1>5, <1>6

LEMMA MixInv ==
    ASSUME MixerInv, NEW c \in Channel, Mix(c)
    PROVE  MixerInv'
<1> USE MixerAssumption DEF MixerInv, Channel
<1>1. MixerTypeOK'
  <2>1. mixed' \in Frame
    BY DEF Mix, Calls, MixerTypeOK, Frame
  <2> QED BY <2>1 DEF Mix, Calls, device, MixerTypeOK, Runs, SetupInv
<1>2. SetupInv'
  BY DEF Mix, Calls, device, MixerTypeOK, SetupInv, Runs, Passed
<1>3. SourceInv'
  BY DEF Mix, Calls, device, MixerTypeOK, SetupInv, SourceInv, TickInv, Passed
<1>4. TickInv'
  BY DEF Mix, Calls, device, MixerTypeOK, TickInv
<1>5. EndInv'
  BY DEF Mix, Calls, device, EndInv, CrashIsExplained, Runs, MixerTypeOK
<1>6. ZeroIsNotMixed'
  <2>1. c = 0 /\ tick[0] = "mix" /\ source[0] = 0
    BY DEF Mix, Calls, TickInv, SourceInv, MixerTypeOK
  <2>2. mixed'[0] = Absent
    BY <2>1 DEF Mix, ZeroIsNotMixed
  <2> QED BY <2>2 DEF Mix, Calls, ZeroIsNotMixed
<1> QED BY <1>1, <1>2, <1>3, <1>4, <1>5, <1>6

LEMMA AddOwnInv ==
    ASSUME MixerInv, NEW c \in Channel, AddOwn(c)
    PROVE  MixerInv'
<1> USE MixerAssumption DEF MixerInv, Channel
<1>1. MixerTypeOK'
  <2>1. source' \in [Channel -> Nat]
    <3>1. source \in [Channel -> Nat]
      BY DEF MixerTypeOK, device
    <3> QED BY <3>1 DEF AddOwn
  <2> QED BY <2>1 DEF AddOwn, Calls, device, MixerTypeOK, Runs, SetupInv
<1>2. SetupInv'
  BY DEF AddOwn, Calls, device, MixerTypeOK, SetupInv, Runs, Passed
<1>3. SourceInv'
  BY DEF AddOwn, Calls, device, MixerTypeOK, SetupInv, SourceInv, TickInv, Passed
<1>4. TickInv'
  BY DEF AddOwn, Calls, device, MixerTypeOK, TickInv
<1>5. EndInv'
  BY DEF AddOwn, Calls, device, EndInv, CrashIsExplained, Runs, MixerTypeOK
<1>6. ZeroIsNotMixed'
  BY DEF AddOwn, Calls, device, ZeroIsNotMixed, MixerTypeOK
<1> QED BY <1>1, <1>2, <1>3, <1>4, <1>5, <1>6

LEMMA SendInv ==
    ASSUME MixerInv, NEW c \in Channel, Send(c)
    PROVE  MixerInv'
<1> USE MixerAssumption DEF MixerInv, Channel
<1>1. MixerTypeOK'
  BY DEF Send, Copied, device, MixerTypeOK, Runs, SetupInv
<1>2. SetupInv'
  BY DEF Send, Copied, device, MixerTypeOK, SetupInv, Runs, Passed
<1>3. SourceInv'
  BY DEF Send, Copied, device, MixerTypeOK, SetupInv, SourceInv, TickInv, Passed
<1>4. TickInv'
  BY DEF Send, Copied, device, MixerTypeOK, TickInv
<1>5. EndInv'
  BY DEF Send, Copied, device, EndInv, CrashIsExplained, Runs, MixerTypeOK
<1>6. ZeroIsNotMixed'
  BY DEF Send, Copied, device, ZeroIsNotMixed, MixerTypeOK
<1> QED BY <1>1, <1>2, <1>3, <1>4, <1>5, <1>6

-----------------------------------------------------------------------------

LEMMA MixerInvariant == MixerSpec => []MixerInv
<1>1. MixerInv /\ [MixerNext]_mixerVars => MixerInv'
  <2> SUFFICES ASSUME MixerInv, [MixerNext]_mixerVars PROVE MixerInv'
    OBVIOUS
  <2>1. CASE NewMember \/ Deinit \/ Exit \/ Setup
    BY <2>1, NewMemberInv, LinkInv, CreateInv, AddSourceInv, StartSendInv, StartReceiveInv,
       DeliverInv, DeinitInv, ExitInv DEF Setup
  <2>2. ASSUME NEW c \in Channel, Packet(c) \/ Tick(c) PROVE MixerInv'
    BY <2>2, PacketInv, DecodeInv, RemoveOwnInv, MixInv, AddOwnInv, SendInv DEF Tick
  <2>3. CASE UNCHANGED mixerVars
    BY <2>3 DEF mixerVars, MixerInv, MixerTypeOK, SetupInv, SourceInv, TickInv, EndInv, CrashIsExplained,
       ZeroIsNotMixed, Passed
  <2> QED BY <2>1, <2>2, <2>3 DEF MixerNext
<1> QED BY <1>1, InitMixer, PTL DEF MixerSpec

\* What a step may do to the audio on its way: each stage only gets newer.
LEMMA AudioStep ==
    ASSUME MixerInv, AudioInv, [MixerNext]_mixerVars
    PROVE  /\ AudioInv'
           /\ \A c, d \in Channel : send_buffer'[c][d] >= send_buffer[c][d]
<1> USE DEF MixerInv
<1> DEFINE Newer == \A c, d \in Channel : send_buffer'[c][d] >= send_buffer[c][d]
<1>1. \A c, d \in Channel : /\ send_buffer[c][d] \in Int /\ mixed[d] \in Int
                             /\ audio_data[d] \in Int /\ arrived[d] \in Int
  <2>1. Audio \cup {Absent} \subseteq Int /\ 0 .. MaxPackets \subseteq Int
    BY DEF Audio, Garbage, Silence, Absent
  <2>2. \A c, d \in Channel : /\ send_buffer[c][d] \in Audio \cup {Absent}
                              /\ mixed[d] \in Audio \cup {Absent}
                              /\ audio_data[d] \in Audio /\ arrived[d] \in 0 .. MaxPackets
    <3>1. \A f \in Frame, d \in Channel : f[d] \in Audio \cup {Absent}
      BY DEF Frame
    <3>2. mixed \in Frame /\ \A c \in Channel : send_buffer[c] \in Frame
      BY DEF MixerTypeOK
    <3>3. \A d \in Channel : audio_data[d] \in Audio /\ arrived[d] \in 0 .. MaxPackets
      BY DEF MixerTypeOK
    <3> QED BY <3>1, <3>2, <3>3
  <2> QED BY <2>1, <2>2
<1>2. ASSUME NewMember \/ Deinit \/ Exit \/ Setup
      PROVE  /\ UNCHANGED audio
             /\ \A d \in Channel : arrived'[d] >= arrived[d] /\ arrived'[d] \in Int
             /\ \A d \in Channel : Passed(d, {"send", "receive", "deliver"})
                                        => Passed(d, {"send", "receive", "deliver"})'
  <2>1. CASE NewMember \/ Deinit \/ Exit \/ Link \/ Create
    BY <1>1, <2>1, Follow DEF NewMember, Deinit, Exit, Link, Create, Step, Passed, audio, MixerTypeOK
  <2>2. CASE AddSource \/ StartSend \/ StartReceive
    BY <1>1, <2>2, Follow DEF AddSource, StartSend, StartReceive, Step, Passed, audio, MixerTypeOK
  <2>3. CASE Deliver
    BY <1>1, <2>3, Follow, MixerAssumption
       DEF Deliver, Delivered, NextChannel, Step, Passed, audio, MixerTypeOK, Channel
  <2> QED BY <1>2, <2>1, <2>2, <2>3 DEF Setup
<1>3. CASE NewMember \/ Deinit \/ Exit \/ Setup
  <2>1. /\ audio_data' = audio_data /\ mixed' = mixed /\ send_buffer' = send_buffer
        /\ \A d \in Channel : arrived'[d] >= arrived[d] /\ arrived'[d] \in Int
    BY <1>2, <1>3 DEF audio
  <2> QED BY <1>1, <1>2, <1>3, <2>1 DEF AudioInv
<1>4. CASE UNCHANGED mixerVars
  BY <1>1, <1>4 DEF mixerVars, AudioInv, Passed
<1>5. ASSUME NEW c \in Channel, Packet(c)
      PROVE  AudioInv' /\ Newer
  <2>1. /\ UNCHANGED <<main, channel, audio_data, mixed, send_buffer>>
        /\ \A d \in Channel : arrived'[d] >= arrived[d] /\ arrived'[d] \in Int
    BY <1>1, <1>5 DEF Packet, Delivered, audio, MixerTypeOK
  <2> QED BY <1>1, <2>1 DEF AudioInv, Passed
<1>6. ASSUME NEW c \in Channel, Decode(c)
      PROVE  AudioInv' /\ Newer
  BY <1>1, <1>6 DEF Decode, device, AudioInv, Passed, MixerTypeOK
<1>7. ASSUME NEW c \in Channel, RemoveOwn(c) \/ AddOwn(c)
      PROVE  AudioInv' /\ Newer
  BY <1>1, <1>7 DEF RemoveOwn, AddOwn, Calls, AudioInv, Passed
<1>8. ASSUME NEW c \in Channel, Mix(c)
      PROVE  AudioInv' /\ Newer
  <2>1. /\ c = 0 /\ tick[c] = "mix"
        /\ UNCHANGED <<main, channel, arrived, audio_data, send_buffer>>
    BY <1>8 DEF Mix, Calls, TickInv
  <2>2. CASE mixer
    <3>1. \A d \in Channel : mixed'[d] = IF source[d] > 0 THEN audio_data[d] ELSE Absent
      BY <1>8, <2>2 DEF Mix
    <3>2. \A d \in Channel : /\ mixed'[d] <= audio_data[d] /\ mixed[d] <= mixed'[d]
                             /\ ~Passed(d, {"send", "receive", "deliver"}) => mixed'[d] = Absent
      BY <1>1, <2>1, <3>1 DEF AudioInv, SourceInv, TickInv, ZeroIsNotMixed, MixerTypeOK, Audio,
         Garbage, Silence, Absent
    <3>3. ASSUME NEW e \in Channel, NEW d \in Channel
          PROVE  send_buffer'[e][d] <= mixed'[d]
      <4>1. mixed'[d] \in Int /\ mixed[d] \in Int /\ send_buffer[e][d] \in Int
        BY <1>1, <3>1 DEF Absent
      <4>2. send_buffer[e][d] <= mixed[d] /\ mixed[d] <= mixed'[d]
        BY <3>2 DEF AudioInv
      <4> QED BY <2>1, <4>1, <4>2
    <3>4. Newer
      <4>1. send_buffer' = send_buffer
        BY <2>1
      <4> QED BY <1>1, <4>1
    <3>5. ASSUME NEW d \in Channel
          PROVE  /\ audio_data'[d] <= arrived'[d] /\ mixed'[d] <= audio_data'[d]
                 /\ ~Passed(d, {"send", "receive", "deliver"})' => mixed'[d] = Absent
      <4>1. audio_data[d] <= arrived[d] /\ mixed'[d] <= audio_data[d]
        BY <3>2 DEF AudioInv
      <4>2. Passed(d, {"send", "receive", "deliver"})' = Passed(d, {"send", "receive", "deliver"})
        BY <2>1 DEF Passed
      <4>3. ~Passed(d, {"send", "receive", "deliver"}) => mixed'[d] = Absent
        BY <3>2
      <4> QED BY <2>1, <4>1, <4>2, <4>3
    <3> QED BY <3>3, <3>4, <3>5 DEF AudioInv
  <2>3. CASE ~mixer
    <3>1. mixed' = mixed
      BY <1>8, <2>3 DEF Mix
    <3> QED BY <1>1, <2>1, <3>1 DEF AudioInv, Passed
  <2> QED BY <2>2, <2>3
<1>9. ASSUME NEW c \in Channel, Send(c)
      PROVE  AudioInv' /\ Newer
  <2>1. UNCHANGED <<main, channel, arrived, audio_data, mixed>>
    BY <1>9 DEF Send
  <2>2. \A e \in Channel : send_buffer'[e] \in {send_buffer[e], mixed}
    BY <1>9 DEF Send, Copied, MixerTypeOK
  <2> QED BY <1>1, <2>1, <2>2 DEF AudioInv, Passed
<1> QED BY <1>3, <1>2, <1>4, <1>1, <1>5, <1>6, <1>7, <1>8, <1>9 DEF MixerNext, Tick, audio, mixerVars

\* The variables have their types and channels stay below the bound.
THEOREM MixerTypeCorrect == MixerSpec => []MixerTypeOK
BY MixerInvariant, PTL DEF MixerInv

\* The member of channel 0 is never mixed into a frame that a member gets.
THEOREM ZeroNotMixed == MixerSpec => []ZeroIsNotMixed
BY MixerInvariant, PTL DEF MixerInv

\* The process ends in the middle of a room only by an address beyond the arrays.
THEOREM CrashExplained == MixerSpec => []CrashIsExplained
<1>1. MixerInv => CrashIsExplained
  BY DEF MixerInv, EndInv
<1> QED BY <1>1, MixerInvariant, PTL

\* A source is in the mixer at most once; one of a device that records is missing only
\* while its own thread mixes.
THEOREM MixedOnce == MixerSpec => []SourcesAreMixedOnce
<1>1. MixerInv => SourcesAreMixedOnce
  BY MixerAssumption DEF MixerInv, SourcesAreMixedOnce, SourceInv, SetupInv, MixerTypeOK, Passed, Channel
<1> QED BY <1>1, MixerInvariant, PTL

\* Threads send only for members that are in the list and have a call.
THEOREM SentToListed == MixerSpec => []SentToMembers
<1>1. MixerInv => SentToMembers
  BY MixerAssumption DEF MixerInv, SentToMembers, SetupInv, MixerTypeOK, Passed, Channel
<1> QED BY <1>1, MixerInvariant, PTL

\* What a member hears of another never gets older.
THEOREM AudioOnlyGetsNewer == MixerSpec => AudioNeverGoesBack
<1>1. MixerInit => AudioInv
  BY MixerAssumption DEF MixerInit, AudioInv, Nobody, Garbage, Absent, Channel
<1>2. /\ MixerInv /\ AudioInv /\ [MixerNext]_mixerVars
      => AudioInv' /\ [\A c, d \in Channel : send_buffer'[c][d] >= send_buffer[c][d]]_mixerVars
  BY AudioStep
<1> QED BY <1>1, <1>2, MixerInvariant, PTL DEF MixerSpec, AudioNeverGoesBack

=============================================================================
