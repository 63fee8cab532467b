---------------------------- MODULE TransferProofs ----------------------------
(***************************************************************************)
(* The safety of a call that leaves the server, for any addresses and any  *)
(* number of heartbeats and losses.                                        *)
(*                                                                         *)
(* The properties speak of calls whose clients have not moved.  Such a     *)
(* call has two phases.  Before the first heartbeat (Early) its clients    *)
(* are on the server or the relay, and no frame says anything of a direct  *)
(* path.  With the first heartbeat the relay phase is over (Late), and     *)
(* from then on each heartbeat makes one round: the frames a round leads   *)
(* to follow one another, so that there is one of them at any time.        *)
(***************************************************************************)
EXTENDS Transfer, TLAPS

-----------------------------------------------------------------------------
(* Clients, places and frames. *)

LEMMA OtherIs ==
    ASSUME NEW c \in Client
    PROVE  /\ Other(c) \in Client /\ Other(c) # c /\ Other(Other(c)) = c
           /\ \A d \in Client : d = c \/ d = Other(c)
<1>1. PICK a \in Client, b \in Client : a # b /\ Client = {a, b}
  BY TransferAssumption
<1>2. \A d \in Client : Other(d) \in Client /\ Other(d) # d
  BY <1>1 DEF Other
<1> QED BY <1>1, <1>2

\* The relay's own assumption holds of the one route it has here.
LEMMA RelayAssumed == Relay!RelayAssumption
BY TransferAssumption DEF Relay!RelayAssumption

LEMMA PlacesDiffer ==
    /\ Server # RS /\ Server # Nowhere /\ RS # Nowhere
    /\ \A a : /\ Pub(a) \notin {Server, RS, Nowhere} /\ Lan(a) \notin {Server, RS, Nowhere}
              /\ Pub(a)[1] = "pub" /\ Pub(a)[2] = a
              /\ Lan(a)[1] = "lan" /\ Lan(a)[2] = a
    /\ \A a, b : /\ Pub(a) # Lan(b)
                 /\ Pub(a) = Pub(b) => a = b
                 /\ Lan(a) = Lan(b) => a = b
    /\ Server[1] \notin {"pub", "lan"} /\ RS[1] \notin {"pub", "lan"}
BY DEF Server, RS, Nowhere, Pub, Lan

LEMMA PlacesAre ==
    /\ Server \in Place /\ RS \in Place /\ Nowhere \in Place
    /\ Server \notin Direct /\ RS \notin Direct /\ Nowhere \notin Direct
    /\ \A a \in Addr : /\ Pub(a) \in Direct /\ Lan(a) \in Direct
                       /\ Pub(a) \in Place /\ Lan(a) \in Place
BY DEF Place, Direct, Server, RS, Nowhere, Pub, Lan

Data(from, to, c, type, event, at) ==
    [from |-> from, to |-> to, callno |-> c, type |-> type, event |-> event, at |-> at]

LEMMA DataFields ==
    ASSUME NEW from, NEW to, NEW c, NEW type, NEW event, NEW at
    PROVE  /\ Data(from, to, c, type, event, at).from = from
           /\ Data(from, to, c, type, event, at).to = to
           /\ Data(from, to, c, type, event, at).callno = c
           /\ Data(from, to, c, type, event, at).type = type
           /\ Data(from, to, c, type, event, at).event = event
           /\ Data(from, to, c, type, event, at).at = at
BY DEF Data

\* What the relay makes of one of its datagrams, sent on account of m.
Sent(m, d) ==
    Data(RS, Pub(d.to), m.callno, d.type, d.event,
         IF d.event \in {"INIT_NAT", "INIT_P2P"} THEN m.from[2] ELSE NoAddr)

LEMMA FrameIs ==
    ASSUME NEW c, NEW to, NEW type
    PROVE  /\ to = Nowhere => Frame(c, to, type) = {}
           /\ to # Nowhere => Frame(c, to, type) =
                {Data(IF to[1] = "lan" THEN Lan(addr[c]) ELSE Pub(addr[c]),
                      to, c, type, "-", NoAddr)}
BY DEF Frame, Data

-----------------------------------------------------------------------------
(* Types. *)

Relayed == {"TXCNT", "TXACC", "TXREADY", "HEARTBEAT"}

\* A datagram under way.
Datagram(m) ==
    /\ m.from \in Place /\ m.callno \in Client
    /\ m.to = RS => m.type \in Relayed /\ \E a \in Addr : m.from = Pub(a)
    /\ m.event \in {"INIT_NAT", "INIT_P2P"} => m.at \in Addr

TypeInv == TypeOK /\ \A m \in net : Datagram(m)

LEMMA FrameTyped ==
    ASSUME TypeOK, NEW c \in Client, NEW to \in Place, NEW type \in Relayed
    PROVE  \A m \in Frame(c, to, type) : Datagram(m)
<1>1. addr[c] \in Addr
  BY DEF TypeOK
<1>2. CASE to = Nowhere
  BY <1>2, FrameIs
<1>3. CASE to # Nowhere
  <2>1. PICK f : f = IF to[1] = "lan" THEN Lan(addr[c]) ELSE Pub(addr[c])
    OBVIOUS
  <2>2. PICK m : m = Data(f, to, c, type, "-", NoAddr)
    OBVIOUS
  <2>3. Frame(c, to, type) = {m}
    BY <1>3, <2>1, <2>2, FrameIs
  <2>4. m.from = f /\ m.to = to /\ m.callno = c /\ m.event = "-" /\ m.type = type
    BY <2>2, DataFields
  <2>5. f \in Place
    BY <1>1, <2>1, PlacesAre
  <2>6. to = RS => f = Pub(addr[c])
    BY <2>1, PlacesDiffer
  <2>7. Datagram(m)
    BY <1>1, <2>4, <2>5, <2>6 DEF Datagram
  <2> QED BY <2>3, <2>7
<1> QED BY <1>2, <1>3

\* A client's own step.
LEMMA TakeTyped ==
    ASSUME TypeInv, NEW c \in Client, NEW m \in net, NEW s \in Session, NEW frames,
           \A f \in frames : Datagram(f), Take(c, m, s, frames)
    PROVE  TypeInv'
<1>1. TypeOK'
  BY DEF TypeInv, TypeOK, Take, bounds, relayTables, Relay!TypeOK
<1>2. ASSUME NEW x \in net' PROVE Datagram(x)'
  BY <1>2 DEF TypeInv, Take, Datagram
<1> QED BY <1>1, <1>2 DEF TypeInv

\* The session after a step that changes some of its fields.
LEMMA SessionFields ==
    ASSUME TypeOK, NEW c \in Client
    PROVE  /\ session[c] \in Session
           /\ session[c].peeraddr \in Place /\ session[c].transfer \in Place
           /\ session[c].transfer_nat \in Place /\ session[c].transfer_p2p \in Place
           /\ session[c].transferring \in Transferring /\ session[c].sched \subseteq Sched
           /\ session[c].path \in Path
<1>1. session[c] \in Session
  BY DEF TypeOK
<1> QED BY <1>1 DEF Session

LEMMA XferAddrTyped ==
    ASSUME NEW s \in Session, NEW x \in {"RS", "NAT", "P2P"}
    PROVE  XferAddr(s, x) \in Place /\ CompleteTransfer(s, x) \in Session
<1>1. XferAddr(s, x) \in Place
  BY DEF XferAddr, Session
<1> QED BY <1>1 DEF CompleteTransfer, StopTransfer, Session, Path, Sched

LEMMA TxreqTyped == ASSUME TypeInv, NEW c \in Client, Txreq(c) PROVE TypeInv'
<1>1. PICK m \in net :
        Take(c, m, [session[c] EXCEPT !.transfer = RS, !.transferring = "BEGIN_RS",
                                      !.sched = @ \cup {"TXCNT"}],
             Frame(c, RS, "TXCNT"))
  BY DEF Txreq
<1>2. [session[c] EXCEPT !.transfer = RS, !.transferring = "BEGIN_RS",
                         !.sched = @ \cup {"TXCNT"}] \in Session
  BY SessionFields, PlacesAre DEF TypeInv, Session, Transferring, Sched
<1>3. \A f \in Frame(c, RS, "TXCNT") : Datagram(f)
  BY FrameTyped, PlacesAre DEF TypeInv, Relayed
<1> QED BY <1>1, <1>2, <1>3, TakeTyped

LEMMA TxcntTakes ==
    ASSUME TypeOK, NEW c \in Client, Txcnt(c)
    PROVE  \E m \in net : \E s :
              /\ s = TxcntSession(session[c], m.from)
              /\ \/ Take(c, m, [s EXCEPT !.transfer = m.from, !.sched = @ \cup {"TXACC"}],
                         Frame(c, m.from, "TXACC"))
                 \/ Take(c, m, [s EXCEPT !.transfer_nat = m.from], Frame(c, m.from, "TXACC"))
                 \/ Take(c, m, [s EXCEPT !.transfer_p2p = m.from], Frame(c, m.from, "TXACC"))
                 \/ Take(c, m, s, {})
<1>1. PICK m \in net : /\ session[c].transferring # "NONE"
                       /\ LET s   == TxcntSession(session[c], m.from)
                              acc == Frame(c, m.from, "TXACC")
                          IN  CASE s.transferring = "BEGIN_RS" ->
                                    Take(c, m, [s EXCEPT !.transfer = m.from, !.sched = @ \cup {"TXACC"}], acc)
                               [] s.transferring \in {"BEGIN_NAT", "READY_NAT"} ->
                                    Take(c, m, [s EXCEPT !.transfer_nat = m.from], acc)
                               [] s.transferring \in {"BEGIN_P2P", "READY_P2P"} ->
                                    Take(c, m, [s EXCEPT !.transfer_p2p = m.from], acc)
                               [] s.transferring \in {"READY_RS", "REL"} -> Take(c, m, s, {})
  BY DEF Txcnt
<1>2. TxcntSession(session[c], m.from).transferring = session[c].transferring
  BY SessionFields DEF TxcntSession, Session
<1>3. TxcntSession(session[c], m.from).transferring \in Transferring \ {"NONE"}
  BY <1>1, <1>2, SessionFields
<1> QED BY <1>1, <1>3 DEF Transferring

LEMMA TxcntTyped == ASSUME TypeInv, NEW c \in Client, Txcnt(c) PROVE TypeInv'
<1>1. PICK m \in net : \E s :
        /\ s = TxcntSession(session[c], m.from)
        /\ \/ Take(c, m, [s EXCEPT !.transfer = m.from, !.sched = @ \cup {"TXACC"}],
                   Frame(c, m.from, "TXACC"))
           \/ Take(c, m, [s EXCEPT !.transfer_nat = m.from], Frame(c, m.from, "TXACC"))
           \/ Take(c, m, [s EXCEPT !.transfer_p2p = m.from], Frame(c, m.from, "TXACC"))
           \/ Take(c, m, s, {})
  BY TxcntTakes DEF TypeInv
<1>11. PICK s :
        /\ s = TxcntSession(session[c], m.from)
        /\ \/ Take(c, m, [s EXCEPT !.transfer = m.from, !.sched = @ \cup {"TXACC"}],
                   Frame(c, m.from, "TXACC"))
           \/ Take(c, m, [s EXCEPT !.transfer_nat = m.from], Frame(c, m.from, "TXACC"))
           \/ Take(c, m, [s EXCEPT !.transfer_p2p = m.from], Frame(c, m.from, "TXACC"))
           \/ Take(c, m, s, {})
  BY <1>1
<1>2. m.from \in Place
  BY <1>1 DEF TypeInv, Datagram
<1>3. s \in Session
  BY <1>11, <1>2, SessionFields DEF TypeInv, TxcntSession, Session
<1>4. /\ [s EXCEPT !.transfer = m.from, !.sched = @ \cup {"TXACC"}] \in Session
      /\ [s EXCEPT !.transfer_nat = m.from] \in Session
      /\ [s EXCEPT !.transfer_p2p = m.from] \in Session
  BY <1>2, <1>3 DEF Session, Sched
<1>5. \A f \in Frame(c, m.from, "TXACC") : Datagram(f)
  BY <1>2, FrameTyped DEF TypeInv, Relayed
<1> QED BY <1>11, <1>3, <1>4, <1>5, TakeTyped

LEMMA TxaccTyped == ASSUME TypeInv, NEW c \in Client, Txacc(c) PROVE TypeInv'
<1>1. PICK s : s = [StopTransfer(session[c]) EXCEPT !.transferring = Answered(@)]
  OBVIOUS
<1>2. PICK m \in net : \/ Take(c, m, s, {})
                       \/ Take(c, m, [s EXCEPT !.sched = {"TXREADY"}],
                               Frame(c, s.peeraddr, "TXREADY"))
                       \/ Take(c, m, s, Frame(c, s.peeraddr, "TXREADY"))
  BY <1>1 DEF Txacc
<1>3. StopTransfer(session[c]) \in Session
  BY SessionFields DEF TypeInv, StopTransfer, Session
<1>4. s \in Session /\ [s EXCEPT !.sched = {"TXREADY"}] \in Session
  BY <1>1, <1>3 DEF Session, Answered, Transferring, Sched
<1>5. \A f \in Frame(c, s.peeraddr, "TXREADY") : Datagram(f)
  BY <1>4, FrameTyped DEF TypeInv, Session, Relayed
<1> QED BY <1>2, <1>4, <1>5, TakeTyped

LEMMA TxrelTyped == ASSUME TypeInv, NEW c \in Client, Txrel(c) PROVE TypeInv'
<1>1. PICK m \in net : \/ Take(c, m, [StopTransfer(session[c]) EXCEPT !.path = "RS"], {})
                       \/ Take(c, m, CompleteTransfer(session[c], "RS"), {})
  BY DEF Txrel
<1>2. [StopTransfer(session[c]) EXCEPT !.path = "RS"] \in Session
  BY SessionFields DEF TypeInv, StopTransfer, Session, Path
<1>3. CompleteTransfer(session[c], "RS") \in Session
  BY SessionFields, XferAddrTyped DEF TypeInv
<1> QED BY <1>1, <1>2, <1>3, TakeTyped

LEMMA HeartbeatInitTyped ==
    ASSUME TypeInv, NEW c \in Client, HeartbeatInitNat(c) \/ HeartbeatInitP2p(c)
    PROVE  TypeInv'
<1>1. PICK m \in net :
        \/ /\ m.event = "INIT_NAT"
           /\ Take(c, m, [session[c] EXCEPT !.transferring = "BEGIN_NAT",
                                            !.transfer_nat = Pub(m.at)],
                   Frame(c, Pub(m.at), "TXCNT"))
        \/ /\ m.event = "INIT_P2P"
           /\ Take(c, m, [session[c] EXCEPT !.transferring = "BEGIN_P2P",
                                            !.transfer_p2p = Lan(m.at)],
                   Frame(c, Lan(m.at), "TXCNT"))
  BY DEF HeartbeatInitNat, HeartbeatInitP2p
<1>2. Pub(m.at) \in Place /\ Lan(m.at) \in Place
  BY <1>1, PlacesAre DEF TypeInv, Datagram
<1>3. /\ [session[c] EXCEPT !.transferring = "BEGIN_NAT", !.transfer_nat = Pub(m.at)] \in Session
      /\ [session[c] EXCEPT !.transferring = "BEGIN_P2P", !.transfer_p2p = Lan(m.at)] \in Session
  BY <1>2, SessionFields DEF TypeInv, Session, Transferring
<1>4. /\ \A f \in Frame(c, Pub(m.at), "TXCNT") : Datagram(f)
      /\ \A f \in Frame(c, Lan(m.at), "TXCNT") : Datagram(f)
  BY <1>2, FrameTyped DEF TypeInv, Relayed
<1> QED BY <1>1, <1>3, <1>4, TakeTyped

LEMMA QuietHandlersTyped ==
    ASSUME TypeInv, NEW c \in Client,
           HeartbeatSwitch(c) \/ HeartbeatNone(c) \/ Txready(c) \/ NoSession(c)
    PROVE  TypeInv'
<1>1. PICK m \in net :
        \/ m.event \in {"RS", "NAT", "P2P"} /\ Take(c, m, CompleteTransfer(session[c], m.event), {})
        \/ Take(c, m, session[c], {})
        \/ Take(c, m, [StopTransfer(session[c]) EXCEPT !.transferring = "REL"], {})
  BY DEF HeartbeatSwitch, HeartbeatNone, Txready, NoSession
<1>2. session[c] \in Session
  BY SessionFields DEF TypeInv
<1>3. [StopTransfer(session[c]) EXCEPT !.transferring = "REL"] \in Session
  BY <1>2 DEF StopTransfer, Session, Transferring
<1>4. m.event \in {"RS", "NAT", "P2P"} => CompleteTransfer(session[c], m.event) \in Session
  BY <1>2, XferAddrTyped
<1> QED BY <1>1, <1>2, <1>3, <1>4, TakeTyped

LEMMA TimersTyped ==
    ASSUME TypeInv, NEW c \in Client, Retransmit(c) \/ GiveUp(c) \/ SendRsHeartbeat(c)
    PROVE  TypeInv'
<1>1. CASE Retransmit(c)
  <2>1. PICK to, f : /\ to \in Place /\ f \in Relayed
                          /\ net' = net \cup Frame(c, to, f)
    BY <1>1, SessionFields DEF TypeInv, Retransmit, Sched, Relayed
  <2>2. \A m \in Frame(c, to, f) : Datagram(m)
    BY <2>1, FrameTyped DEF TypeInv
  <2>3. TypeOK'
    BY <1>1 DEF Retransmit, TypeInv, TypeOK, bounds, relayTables, Relay!TypeOK
  <2>4. \A m \in net' : Datagram(m)'
    BY <2>1, <2>2 DEF TypeInv, Datagram
  <2> QED BY <2>3, <2>4 DEF TypeInv
<1>2. CASE GiveUp(c)
  <2>1. PICK f : session' = [session EXCEPT ![c].sched = @ \ {f}]
    BY <1>2 DEF GiveUp
  <2>2. [session[c] EXCEPT !.sched = @ \ {f}] \in Session
    BY SessionFields DEF TypeInv, Session
  <2>3. session' \in [Client -> Session]
    BY <2>1, <2>2 DEF TypeInv, TypeOK
  <2>4. TypeOK'
    BY <1>2, <2>3 DEF GiveUp, TypeInv, TypeOK, bounds, relayTables, Relay!TypeOK
  <2>5. \A m \in net' : Datagram(m)'
    BY <1>2 DEF GiveUp, TypeInv, Datagram
  <2> QED BY <2>4, <2>5 DEF TypeInv
<1>3. CASE SendRsHeartbeat(c)
  <2>1. \A m \in Frame(c, session[c].transfer, "HEARTBEAT") : Datagram(m)
    BY FrameTyped, SessionFields DEF TypeInv, Relayed
  <2>2. beats' \in 0 .. MaxBeats
    BY <1>3, TransferAssumption DEF SendRsHeartbeat, TypeInv, TypeOK
  <2>3. TypeOK'
    BY <1>3, <2>2 DEF SendRsHeartbeat, TypeInv, TypeOK, relayTables, Relay!TypeOK
  <2>4. \A m \in net' : Datagram(m)'
    BY <1>3, <2>1 DEF SendRsHeartbeat, TypeInv, Datagram
  <2> QED BY <2>3, <2>4 DEF TypeInv
<1> QED BY <1>1, <1>2, <1>3

LEMMA NetworkTyped ==
    ASSUME TypeInv, \/ Lose
                    \/ \E c \in Client : ServerTxready(c)
                    \/ \E c \in Client, a \in Addr : Move(c, a)
    PROVE  TypeInv'
<1>1. CASE Lose
  <2>1. lost' \in 0 .. MaxLost
    BY <1>1, TransferAssumption DEF Lose, TypeInv, TypeOK
  <2>2. TypeOK'
    BY <1>1, <2>1 DEF Lose, TypeInv, TypeOK, relayTables, Relay!TypeOK
  <2>3. \A m \in net' : Datagram(m)'
    BY <1>1 DEF Lose, TypeInv, Datagram
  <2> QED BY <2>2, <2>3 DEF TypeInv
<1>2. ASSUME NEW c \in Client, ServerTxready(c) PROVE TypeInv'
  <2>1. [session[c] EXCEPT !.sched = @ \ {"TXREADY"}] \in Session
    BY SessionFields DEF TypeInv, Session
  <2>2. session' \in [Client -> Session]
    BY <1>2, <2>1 DEF ServerTxready, TypeInv, TypeOK
  <2>3. TypeOK'
    BY <1>2, <2>2 DEF ServerTxready, TypeInv, TypeOK, bounds, relayTables, Relay!TypeOK
  <2>4. ASSUME NEW d \in Client PROVE Datagram(ServerFrame(d, "TXREL"))
    <3>1. PICK m : m = ServerFrame(d, "TXREL")
      OBVIOUS
    <3>2. m.from = Server /\ m.to = Pub(addr[d]) /\ m.callno = d /\ m.event = "-"
      BY <3>1 DEF ServerFrame
    <3>3. Datagram(m)
      BY <3>2, PlacesAre, PlacesDiffer DEF Datagram
    <3> QED BY <3>1, <3>3
  <2>5. \A m \in net' : m \in net \/ \E d \in Client : m = ServerFrame(d, "TXREL")
    BY <1>2 DEF ServerTxready
  <2>6. \A m \in net' : Datagram(m)'
    BY <2>4, <2>5 DEF TypeInv, Datagram
  <2> QED BY <2>3, <2>6 DEF TypeInv
<1>3. ASSUME NEW c \in Client, NEW a \in Addr, Move(c, a) PROVE TypeInv'
  <2>1. addr' \in [Client -> Addr] /\ moves' \in 0 .. MaxMoves
    BY <1>3, TransferAssumption DEF Move, TypeInv, TypeOK
  <2>2. TypeOK'
    BY <1>3, <2>1 DEF Move, TypeInv, TypeOK, relayTables, Relay!TypeOK
  <2>3. \A m \in net' : Datagram(m)'
    BY <1>3 DEF Move, TypeInv, Datagram
  <2> QED BY <2>2, <2>3 DEF TypeInv
<1> QED BY <1>1, <1>2, <1>3

-----------------------------------------------------------------------------
(* The relay, with its one route. *)

route == routes[1]

\* The relay replaces its route by r.
Becomes(r) == routes' = [routes EXCEPT ![1] = r]

LEMMA OneRoute ==
    ASSUME TypeOK
    PROVE  /\ route \in Relay!RT_Info
           /\ rti \in {0, 1} /\ nroutes = rti
           /\ \A c \in Client : index[c] \subseteq {1}
           /\ \A r \in Relay!RT_Info : Becomes(r) =>
                 route' = r /\ routes' \in [Relay!RouteIds -> Relay!RT_Info]
BY DEF TypeOK, Relay!TypeOK, Relay!RouteIds, route, Becomes

Left(c) == route.l_callno = c

\* What each datagram may do to the route.
LEMMA RelayTxcnt ==
    ASSUME TypeOK, NEW src \in Addr, NEW c \in Client, RelayAction(src, c, "TXCNT")
    PROVE  \/ /\ rti = 0 /\ rti' = 1 /\ nroutes' = 1
              /\ Becomes([Relay!Blank EXCEPT !.token = RelayToken, !.l_addr = src,
                             !.l_callno = c, !.status = "SETTING", !.l_pkt = "TXCNT"])
              /\ index' = [index EXCEPT ![c] = @ \cup {1}]
              /\ out' = {}
           \/ /\ rti # 0 /\ route.status = "SETTING" /\ Left(c)
              /\ Becomes([route EXCEPT !.l_addr = src, !.l_pkt = "TXCNT"])
              /\ out' = {} /\ UNCHANGED <<nroutes, rti, index>>
           \/ /\ rti # 0 /\ route.status = "SETTING" /\ ~Left(c)
              /\ Becomes([route EXCEPT !.r_callno = c, !.r_addr = src, !.status = "SETTED"])
              /\ out' = Relay!Sendto(route.l_addr, "TXCNT", "-")
                        \cup Relay!Sendto(src, route.l_pkt, "-")
              /\ index' = [index EXCEPT ![c] = @ \cup {1}] /\ UNCHANGED <<nroutes, rti>>
           \/ out' = {} /\ UNCHANGED relayTables
<1>1. \/ Relay!TxcntNewRoute(src, c, RelayToken) \/ Relay!TxcntSameLeg(src, c, RelayToken)
      \/ Relay!TxcntOtherLeg(src, c, RelayToken) \/ Relay!TxcntDropped(RelayToken)
  BY DEF RelayAction
<1>2. CASE Relay!TxcntNewRoute(src, c, RelayToken)
  <2>1. nroutes = 0 /\ nroutes' = 1 /\ rti = 0 /\ rti' = 1
    BY <1>2, OneRoute DEF Relay!TxcntNewRoute
  <2> QED BY <1>2, <2>1 DEF Relay!TxcntNewRoute, Relay!AddRoute, Becomes
<1>3. CASE Relay!TxcntSameLeg(src, c, RelayToken)
  <2>1. rti = 1 /\ rti # 0
    BY <1>3, OneRoute DEF Relay!TxcntSameLeg, Relay!FindByToken
  <2>2. /\ route.status = "SETTING" /\ Left(c) /\ out' = {} /\ UNCHANGED <<nroutes, rti, index>>
        /\ routes' = [routes EXCEPT ![1].l_addr = src, ![1].l_pkt = "TXCNT"]
    BY <1>3, <2>1 DEF Relay!TxcntSameLeg, Relay!IsOtherLeg, route, Left
  <2>3. Becomes([route EXCEPT !.l_addr = src, !.l_pkt = "TXCNT"])
    BY <2>2 DEF Becomes, route, TypeOK, Relay!TypeOK, Relay!RouteIds
  <2> QED BY <2>1, <2>2, <2>3
<1>4. CASE Relay!TxcntOtherLeg(src, c, RelayToken)
  <2>1. rti = 1 /\ rti # 0
    BY <1>4, OneRoute DEF Relay!TxcntOtherLeg, Relay!FindByToken
  <2>2. /\ route.status = "SETTING" /\ ~Left(c) /\ UNCHANGED <<nroutes, rti>>
        /\ routes' = [routes EXCEPT ![1].r_callno = c, ![1].r_addr = src, ![1].status = "SETTED"]
        /\ out' = Relay!Sendto(route.l_addr, "TXCNT", "-")
                  \cup Relay!Sendto(src, route.l_pkt, "-")
        /\ index' = [index EXCEPT ![c] = @ \cup {1}]
    BY <1>4, <2>1 DEF Relay!TxcntOtherLeg, Relay!IsOtherLeg, Relay!AddRoute, Relay!NoEvent, route, Left
  <2>3. Becomes([route EXCEPT !.r_callno = c, !.r_addr = src, !.status = "SETTED"])
    BY <2>2 DEF Becomes, route, TypeOK, Relay!TypeOK, Relay!RouteIds
  <2> QED BY <2>1, <2>2, <2>3
<1>5. CASE Relay!TxcntDropped(RelayToken)
  BY <1>5 DEF Relay!TxcntDropped, relayTables
<1> QED BY <1>1, <1>2, <1>3, <1>4, <1>5

LegAddr(c) == IF Left(c) THEN route.l_addr ELSE route.r_addr
PeerOf(c) == IF Left(c) THEN route.r_addr ELSE route.l_addr

Moved(c, src) == Relay!MoveLeg(route, Left(c), src)

Beaten(c) == [route EXCEPT !.txstatus = {},
                           !.l_pkt = IF Left(c) THEN "HEARTBEAT" ELSE @,
                           !.r_pkt = IF Left(c) THEN @ ELSE "HEARTBEAT"]

LEMMA RelayHeartbeat ==
    ASSUME TypeOK, NEW src \in Addr, NEW c \in Client, RelayAction(src, c, "HEARTBEAT")
    PROVE  \/ /\ rti = 1 /\ src # LegAddr(c) /\ Becomes(Moved(c, src))
              /\ UNCHANGED <<nroutes, rti, index>>
           \/ /\ rti = 1 /\ src = LegAddr(c) /\ Becomes(Beaten(c))
              /\ out' = Relay!Sendto(PeerOf(c), "HEARTBEAT", Relay!HeartbeatEvent(route))
              /\ UNCHANGED <<nroutes, rti, index>>
           \/ /\ rti = 0 \/ route.token # RelayToken
              /\ out' = {} /\ UNCHANGED relayTables
<1>1. \/ Relay!HeartbeatMoved(src, c, RelayToken) \/ Relay!HeartbeatForwarded(src, c, RelayToken)
      \/ Relay!HeartbeatUnknown(RelayToken)
  BY DEF RelayAction
<1>2. CASE Relay!HeartbeatMoved(src, c, RelayToken)
  <2>1. rti = 1
    BY <1>2, OneRoute DEF Relay!HeartbeatMoved, Relay!FindByToken
  <2> QED BY <1>2, <2>1 DEF Relay!HeartbeatMoved, route, Left, LegAddr, Moved, Becomes
<1>3. CASE Relay!HeartbeatForwarded(src, c, RelayToken)
  <2>1. rti = 1
    BY <1>3, OneRoute DEF Relay!HeartbeatForwarded, Relay!FindByToken
  <2> QED BY <1>3, <2>1 DEF Relay!HeartbeatForwarded, route, Left, LegAddr, PeerOf, Beaten, Becomes
<1>4. CASE Relay!HeartbeatUnknown(RelayToken)
  <2>1. rti = 0 \/ route.token # RelayToken
    BY <1>4, OneRoute DEF Relay!HeartbeatUnknown, Relay!FindByToken, route
  <2> QED BY <1>4, <2>1 DEF Relay!HeartbeatUnknown, relayTables
<1> QED BY <1>1, <1>2, <1>3, <1>4

Met(c, src) == 1 \in Relay!Matches(src, c)

LEMMA MetIs ==
    ASSUME TypeOK, NEW src, NEW c \in Client
    PROVE  /\ Met(c, src) <=> /\ 1 \in index[c] /\ route.status \in {"SETTED", "RELEASING"}
                              /\ \/ route.l_addr = src /\ route.l_callno = c
                                 \/ route.r_addr = src /\ route.r_callno = c
           /\ ~Met(c, src) <=> Relay!Matches(src, c) = {}
           /\ \A r \in Relay!Matches(src, c) : r = 1
<1>1. \A r \in Relay!Matches(src, c) : r = 1
  BY OneRoute DEF Relay!Matches
<1>2. Met(c, src) <=> /\ 1 \in index[c] /\ route.status \in {"SETTED", "RELEASING"}
                      /\ \/ route.l_addr = src /\ route.l_callno = c
                         \/ route.r_addr = src /\ route.r_callno = c
  BY DEF Met, Relay!Matches, Relay!IsLeft, Relay!IsRight, route
<1> QED BY <1>1, <1>2 DEF Met

\* The bits of the route after a TXREADY of leg c, and the route with them.
BitsAfter(c, src) ==
    IF route.status = "SETTED"
    THEN route.txstatus \cup {Relay!TxBit(route, Relay!IsLeft(1, src, c))}
    ELSE route.txstatus

WithBits(tx) ==
    [route EXCEPT !.txstatus = tx,
                  !.status = CASE tx = Relay!NatBits -> "NATTED"
                               [] tx = Relay!P2pBits -> "P2PED"
                               [] OTHER              -> route.status]

News(tx) == CASE tx = Relay!NatBits -> Relay!Notify(route, "NAT")
              [] tx = Relay!P2pBits -> Relay!Notify(route, "P2P")
              [] OTHER              -> {}

LEMMA RelayTxready ==
    ASSUME TypeOK, NEW src \in Addr, NEW c \in Client, RelayAction(src, c, "TXREADY")
    PROVE  \/ /\ Met(c, src) /\ Becomes(WithBits(BitsAfter(c, src)))
              /\ out' = News(BitsAfter(c, src))
              /\ UNCHANGED <<nroutes, rti, index>>
           \/ out' = {} /\ UNCHANGED relayTables
<1>1. Relay!Txready(src, c) \/ Relay!Discard(src, c)
  BY DEF RelayAction
<1>2. CASE Relay!Txready(src, c)
  <2>1. PICK r \in Relay!RouteIds :
          /\ Relay!Found(r, src, c)
          /\ LET tx == IF routes[r].status = "SETTED"
                       THEN routes[r].txstatus
                              \cup {Relay!TxBit(routes[r], Relay!IsLeft(r, src, c))}
                       ELSE routes[r].txstatus
             IN  /\ routes' = [routes EXCEPT ![r] =
                      [routes[r] EXCEPT !.txstatus = tx,
                                        !.status = CASE tx = Relay!NatBits -> "NATTED"
                                                     [] tx = Relay!P2pBits -> "P2PED"
                                                     [] OTHER        -> routes[r].status]]
                 /\ out' = CASE tx = Relay!NatBits -> Relay!Notify(routes[r], "NAT")
                             [] tx = Relay!P2pBits -> Relay!Notify(routes[r], "P2P")
                             [] OTHER        -> {}
          /\ UNCHANGED <<nroutes, rti, index>>
    BY <1>2 DEF Relay!Txready
  <2>2. r = 1 /\ Met(c, src)
    BY <2>1, MetIs DEF Relay!Found, Met
  <2> QED BY <2>1, <2>2 DEF Becomes, WithBits, BitsAfter, News, route
<1>3. CASE Relay!Discard(src, c)
  BY <1>3 DEF Relay!Discard, relayTables
<1> QED BY <1>1, <1>2, <1>3

LEMMA RelayTxacc ==
    ASSUME TypeOK, NEW src \in Addr, NEW c \in Client, RelayAction(src, c, "TXACC")
    PROVE  /\ UNCHANGED relayTables
           /\ \/ /\ Met(c, src)
                 /\ \/ out' = Relay!Sendto(route.l_addr, "TXACC", "-")
                    \/ out' = Relay!Sendto(route.r_addr, "TXACC", "-")
              \/ out' = {}
<1>1. Relay!Forward(src, c, "TXACC") \/ Relay!Discard(src, c)
  BY DEF RelayAction
<1>2. CASE Relay!Forward(src, c, "TXACC")
  <2>1. PICK r \in Relay!RouteIds :
          /\ Relay!Found(r, src, c)
          /\ out' = Relay!Sendto(Relay!PeerAddr(r, src, c), "TXACC", "-")
          /\ UNCHANGED <<routes, nroutes, rti, index>>
    BY <1>2 DEF Relay!Forward, Relay!NoEvent
  <2>2. r = 1 /\ Met(c, src)
    BY <2>1, MetIs DEF Relay!Found, Met
  <2>3. Relay!PeerAddr(r, src, c) \in {route.l_addr, route.r_addr}
    BY <2>2 DEF Relay!PeerAddr, route
  <2> QED BY <2>1, <2>2, <2>3 DEF relayTables
<1>3. CASE Relay!Discard(src, c)
  BY <1>3 DEF Relay!Discard, relayTables
<1> QED BY <1>1, <1>2, <1>3

LEMMA RelayTyped ==
    ASSUME TypeOK, NEW src \in Addr, NEW c \in Client, NEW type \in Relayed,
           RelayAction(src, c, type)
    PROVE  Relay!TypeOK'
<1>1. ASSUME NEW r \in Relay!RT_Info, Becomes(r), UNCHANGED <<nroutes, rti, index>>
      PROVE  Relay!TypeOK'
  BY <1>1, OneRoute DEF TypeOK, Relay!TypeOK
<1>2. ASSUME UNCHANGED relayTables PROVE Relay!TypeOK'
  BY <1>2 DEF TypeOK, Relay!TypeOK, relayTables
<1>3. route \in Relay!RT_Info
  BY OneRoute
<1>4. CASE type = "TXCNT"
  <2>1. PICK new : new = [Relay!Blank EXCEPT !.token = RelayToken, !.l_addr = src,
                                !.l_callno = c, !.status = "SETTING", !.l_pkt = "TXCNT"]
    OBVIOUS
  <2>2. new \in Relay!RT_Info
    BY <2>1 DEF Relay!Blank, Relay!RT_Info, Relay!Status, Relay!Pkt
  <2>3. PICK same : same = [route EXCEPT !.l_addr = src, !.l_pkt = "TXCNT"]
    OBVIOUS
  <2>4. same \in Relay!RT_Info
    BY <1>3, <2>3 DEF Relay!RT_Info, Relay!Pkt
  <2>5. PICK joined : joined = [route EXCEPT !.r_callno = c, !.r_addr = src, !.status = "SETTED"]
    OBVIOUS
  <2>6. joined \in Relay!RT_Info
    BY <1>3, <2>5 DEF Relay!RT_Info, Relay!Status
  <2>7. [index EXCEPT ![c] = @ \cup {1}] \in [Client -> SUBSET Relay!RouteIds]
    BY DEF TypeOK, Relay!TypeOK, Relay!RouteIds
  <2>8. ASSUME NEW r \in Relay!RT_Info, Becomes(r), index' = [index EXCEPT ![c] = @ \cup {1}],
               nroutes' \in 0 .. 1, rti' = nroutes'
        PROVE  Relay!TypeOK'
    BY <2>7, <2>8, OneRoute DEF TypeOK, Relay!TypeOK
  <2>9. nroutes \in 0 .. 1 /\ rti = nroutes
    BY DEF TypeOK, Relay!TypeOK
  <2>10. CASE Becomes(new) /\ rti' = 1 /\ nroutes' = 1
              /\ index' = [index EXCEPT ![c] = @ \cup {1}]
    BY <2>2, <2>8, <2>10
  <2>11. CASE Becomes(joined) /\ UNCHANGED <<nroutes, rti>>
              /\ index' = [index EXCEPT ![c] = @ \cup {1}]
    BY <2>6, <2>8, <2>9, <2>11
  <2>12. CASE Becomes(same) /\ UNCHANGED <<nroutes, rti, index>>
    BY <1>1, <2>4, <2>12
  <2> QED BY <1>2, <1>4, <2>1, <2>3, <2>5, <2>10, <2>11, <2>12, RelayTxcnt
<1>5. CASE type = "HEARTBEAT"
  <2>1. Moved(c, src) \in Relay!RT_Info
    BY <1>3 DEF Moved, Relay!MoveLeg, Relay!RT_Info, Relay!Status
  <2>2. Beaten(c) \in Relay!RT_Info
    BY <1>3 DEF Beaten, Relay!RT_Info, Relay!Pkt
  <2> QED BY <1>1, <1>2, <1>5, <2>1, <2>2, RelayHeartbeat
<1>6. CASE type = "TXREADY"
  <2>1. ASSUME NEW tx \in SUBSET (Relay!NatBits \cup Relay!P2pBits)
        PROVE  WithBits(tx) \in Relay!RT_Info
    BY <1>3 DEF WithBits, Relay!RT_Info, Relay!Status
  <2>2. BitsAfter(c, src) \in SUBSET (Relay!NatBits \cup Relay!P2pBits)
    <3>1. route.txstatus \subseteq Relay!NatBits \cup Relay!P2pBits
      BY <1>3 DEF Relay!RT_Info
    <3>2. \A left \in BOOLEAN : Relay!TxBit(route, left) \in Relay!NatBits \cup Relay!P2pBits
      BY DEF Relay!TxBit, Relay!NatBits, Relay!P2pBits
    <3>3. Relay!IsLeft(1, src, c) \in BOOLEAN
      BY DEF Relay!IsLeft
    <3> QED BY <3>1, <3>2, <3>3 DEF BitsAfter
  <2> QED BY <1>1, <1>2, <1>6, <2>1, <2>2, RelayTxready
<1>7. CASE type = "TXACC"
  BY <1>2, <1>7, RelayTxacc
<1> QED BY <1>4, <1>5, <1>6, <1>7 DEF Relayed

LEMMA RelayStepIs ==
    ASSUME TypeInv, RelayStep
    PROVE  \E m \in net :
             /\ m.to = RS /\ m.from[2] \in Addr /\ m.from = Pub(m.from[2]) /\ m.type \in Relayed
             /\ m.callno \in Client
             /\ RelayAction(m.from[2], m.callno, m.type)
             /\ net' = (net \ {m}) \cup {Sent(m, d) : d \in out'}
             /\ UNCHANGED <<session, addr, ready, bounds>>
<1>1. PICK m \in net :
        /\ m.to = RS
        /\ RelayAction(m.from[2], m.callno, m.type)
        /\ net' = (net \ {m}) \cup {Sent(m, d) : d \in out'}
        /\ UNCHANGED <<session, addr, ready, bounds>>
  BY DEF RelayStep, Sent, Data
<1>2. /\ m.callno \in Client /\ m.type \in Relayed
      /\ \E a \in Addr : m.from = Pub(a)
  BY <1>1 DEF TypeInv, Datagram
<1>3. m.from[2] \in Addr /\ m.from = Pub(m.from[2])
  BY <1>2, PlacesDiffer
<1> QED BY <1>1, <1>2, <1>3

LEMMA RelayStepTyped == ASSUME TypeInv, RelayStep PROVE TypeInv'
<1>1. PICK m \in net :
         /\ m.from[2] \in Addr /\ m.type \in Relayed /\ m.callno \in Client
         /\ RelayAction(m.from[2], m.callno, m.type)
         /\ net' = (net \ {m}) \cup {Sent(m, d) : d \in out'}
         /\ UNCHANGED <<session, addr, ready, bounds>>
  BY RelayStepIs
<1>2. Relay!TypeOK'
  BY <1>1, RelayTyped DEF TypeInv
<1>3. TypeOK'
  BY <1>1, <1>2 DEF TypeInv, TypeOK, bounds
<1>4. ASSUME NEW d \in out' PROVE Datagram(Sent(m, d))
  <2>1. PICK at : at = IF d.event \in {"INIT_NAT", "INIT_P2P"} THEN m.from[2] ELSE NoAddr
    OBVIOUS
  <2>2. PICK x : x = Data(RS, Pub(d.to), m.callno, d.type, d.event, at)
    OBVIOUS
  <2>3. x.from = RS /\ x.to = Pub(d.to) /\ x.callno = m.callno /\ x.event = d.event /\ x.at = at
    BY <2>2, DataFields
  <2>4. Datagram(x)
    BY <1>1, <2>1, <2>3, PlacesAre, PlacesDiffer DEF Datagram
  <2> QED BY <2>1, <2>2, <2>4 DEF Sent
<1>5. \A x \in net' : Datagram(x)'
  BY <1>1, <1>4 DEF TypeInv, Datagram
<1> QED BY <1>3, <1>5 DEF TypeInv

LEMMA NextTyped == TypeInv /\ [Next]_vars => TypeInv'
<1> SUFFICES ASSUME TypeInv, [Next]_vars PROVE TypeInv'
  OBVIOUS
<1>1. ASSUME NEW c \in Client,
             \/ Txreq(c) \/ Txcnt(c) \/ Txacc(c) \/ Txrel(c) \/ Txready(c)
             \/ HeartbeatInitNat(c) \/ HeartbeatInitP2p(c)
             \/ HeartbeatSwitch(c) \/ HeartbeatNone(c) \/ NoSession(c)
             \/ Retransmit(c) \/ GiveUp(c) \/ SendRsHeartbeat(c)
      PROVE  TypeInv'
  BY <1>1, TxreqTyped, TxcntTyped, TxaccTyped, TxrelTyped, HeartbeatInitTyped,
     QuietHandlersTyped, TimersTyped
<1>2. CASE UNCHANGED vars
  BY <1>2 DEF TypeInv, TypeOK, Datagram, vars, bounds, relayTables, Relay!TypeOK
<1> QED BY <1>1, <1>2, NetworkTyped, RelayStepTyped DEF Next

LEMMA InitTyped == Init => TypeInv
<1> SUFFICES ASSUME Init PROVE TypeInv
  OBVIOUS
<1>1. Relay!TypeOK
  BY DEF Init, Relay!Init, Relay!TypeOK, Relay!RT_Info, Relay!Blank, Relay!RouteIds,
         Relay!Status, Relay!Pkt
<1>2. session \in [Client -> Session]
  BY PlacesAre DEF Init, Session, Transferring, Path
<1>3. TypeOK
  BY <1>1, <1>2, TransferAssumption DEF Init, TypeOK
<1>4. ASSUME NEW c \in Client PROVE Datagram(ServerFrame(c, "TXREQ"))
  <2>1. PICK m : m = ServerFrame(c, "TXREQ")
    OBVIOUS
  <2>2. m.from = Server /\ m.to = Pub(addr[c]) /\ m.callno = c /\ m.event = "-"
    BY <2>1 DEF ServerFrame
  <2>3. Datagram(m)
    BY <2>2, PlacesAre, PlacesDiffer DEF Datagram
  <2> QED BY <2>1, <2>3
<1> QED BY <1>3, <1>4 DEF TypeInv, Init

\* The sessions, the addresses and the relay's table keep their types, whatever is lost,
\* comes late, is sent again, and wherever the clients move.
THEOREM TypeCorrect == Spec => []TypeOK
BY InitTyped, NextTyped, PTL DEF Spec, TypeInv

-----------------------------------------------------------------------------
(* The invariant of a call whose clients have not moved. *)

SameNet == \A c, d \in Client : Ip[addr[c]] = Ip[addr[d]]

\* The kind of direct path the two addresses call for, and the names that go with it.
Kind      == IF SameNet THEN "P2P" ELSE "NAT"
At(c)     == IF SameNet THEN Lan(addr[c]) ELSE Pub(addr[c])
Began     == IF SameNet THEN "BEGIN_P2P" ELSE "BEGIN_NAT"
Proved    == IF SameNet THEN "READY_P2P" ELSE "READY_NAT"
TryDirect == IF SameNet THEN "INIT_P2P" ELSE "INIT_NAT"
Switched  == IF SameNet THEN "P2PED" ELSE "NATTED"
LegBit(c) == IF SameNet THEN IF Left(c) THEN "lP2P" ELSE "rP2P"
                        ELSE IF Left(c) THEN "lNAT" ELSE "rNAT"

\* The frames of such a call.
Released(c)    == Data(Server, Pub(addr[c]), c, "TXREL", "-", NoAddr)
Asked(c)       == Data(Server, Pub(addr[c]), c, "TXREQ", "-", NoAddr)
Ready(c)       == Data(Pub(addr[c]), Server, c, "TXREADY", "-", NoAddr)
Up(c, type)    == Data(Pub(addr[c]), RS, c, type, "-", NoAddr)
Down(c, d, type) == Data(RS, Pub(addr[d]), c, type, "-", NoAddr)
Tell(c)        == Data(RS, Pub(addr[Other(c)]), c, "HEARTBEAT", TryDirect, addr[c])
Beat(c)        == Data(RS, Pub(addr[Other(c)]), c, "HEARTBEAT", "NONE", NoAddr)
Announce(c, d) == Data(RS, Pub(addr[d]), c, "HEARTBEAT", Kind, NoAddr)
Across(c, type) == Data(At(c), At(Other(c)), c, type, "-", NoAddr)

Gone(c)   == session[c].peeraddr # Server
Was(c, x) == session[c].transferring = x
Tried(c)  == Was(c, Began) \/ Was(c, Proved)
Saved(c)  == IF Left(c) THEN route.l_pkt ELSE route.r_pkt
HasBit(c) == LegBit(c) \in route.txstatus

\* The route and its legs.
Joined ==
    /\ route.l_callno \in Client /\ route.r_callno = Other(route.l_callno)
    /\ route.l_addr = addr[route.l_callno] /\ route.r_addr = addr[route.r_callno]
    /\ \A c \in Client : 1 \in index[c]

Legs ==
    /\ \A c \in Client : addr[c] # addr[Other(c)]
    /\ rti = 0 <=> route.status = "IDEL"
    /\ route.status \in {"IDEL", "SETTING", "SETTED", Switched}
    /\ route.status # "IDEL" => route.token = RelayToken
    /\ route.status = "SETTING" =>
         /\ route.l_pkt = "TXCNT" /\ route.l_callno \in Client
         /\ route.l_addr = addr[route.l_callno] /\ 1 \in index[route.l_callno]
    /\ route.status \in {"SETTED", Switched} => Joined
    /\ route.txstatus \subseteq {LegBit(c) : c \in Client}

\* The relay phase: the session of a client, and a frame, that fit it.
EarlySession(c, s) ==
    /\ s.transferring \in {"NONE", "BEGIN_RS", "READY_RS"}
    /\ s.transfer = (IF s.transferring = "NONE" THEN Nowhere ELSE RS)
    /\ Server \notin {s.transfer_nat, s.transfer_p2p}
    /\ s.peeraddr \in {Server, RS} /\ s.path \in {"SERVER", "RS"}
    /\ s.transferring = "NONE" => s.sched = {}
    /\ s.transferring = "BEGIN_RS" => "TXREADY" \notin s.sched
    /\ s.transferring = "READY_RS" => s.sched \subseteq {"TXREADY"}
    /\ s.transferring = "READY_RS" \/ "TXACC" \in s.sched => route.status = "SETTED"
    /\ c \in ready => s.transferring = "READY_RS" /\ s.sched = {}
    /\ s.peeraddr # Server => ready = Client

EarlyFrame(m) ==
    \E c \in Client :
        \/ m = Asked(c) /\ Was(c, "NONE")
        \/ m = Released(c) /\ ready = Client
        \/ m = Ready(c) /\ Was(c, "READY_RS")
        \/ m = Up(c, "TXCNT")
        \/ m = Up(c, "TXACC") /\ route.status = "SETTED"
        \/ \E d \in Client : m \in {Down(c, d, "TXCNT"), Down(c, d, "TXACC")}
                             /\ route.status = "SETTED"

Early ==
    /\ route.txstatus = {} /\ route.status # Switched
    /\ \A c \in Client : EarlySession(c, session[c])
    /\ \A m \in net : EarlyFrame(m)

\* After the first heartbeat.
LateSession(c, s) ==
    /\ s.sched = {}
    /\ s.transferring \in {"READY_RS", Began, Proved}
    /\ s.transfer \in {RS, At(Other(c))}
    /\ Server \notin {s.transfer_nat, s.transfer_p2p}
    /\ s.peeraddr \in {Server, RS, At(Other(c))}
    /\ s.peeraddr = Server => s.transfer = RS
    /\ s.peeraddr = At(Other(c)) => route.status = Switched
    /\ s.path \in {"SERVER", "RS"} \/ (s.path = Kind /\ s.peeraddr = At(Other(c)))
    /\ s.transferring \in {Began, Proved} =>
         /\ XferAddr(s, Kind) = At(Other(c))
         /\ Saved(Other(c)) = "HEARTBEAT" /\ Gone(Other(c))
    /\ HasBit(c) \/ route.status = Switched => s.transferring = Proved /\ s.peeraddr # Server

LateFrame(m) ==
    \E c \in Client :
        \/ m \in {Released(c), Ready(c), Beat(c), Across(c, "TXACC"), Across(c, "HEARTBEAT")}
        \/ m = Up(c, "HEARTBEAT") /\ Gone(c)
        \/ m = Up(c, "TXREADY") /\ Was(c, Proved) /\ Gone(c)
        \/ m = Across(c, "TXCNT") /\ Tried(c)
        \/ /\ m = Tell(c) /\ Saved(c) = "HEARTBEAT" /\ Gone(c)
           /\ route.status = "SETTED" /\ ~HasBit(Other(c))
        \/ \E d \in Client : m = Announce(c, d) /\ route.status = Switched

\* The frames that a heartbeat of c leads to, one after the other.
InRound(m, c) ==
    IF m.event \in {"NAT", "P2P"} THEN m.callno # c
    ELSE \/ m.type \in {"HEARTBEAT", "TXACC"} /\ m.callno = c
         \/ m.type \in {"TXCNT", "TXREADY"} /\ m.callno # c

Single ==
    \A c \in Client : \A m, n \in net :
        InRound(m, c) /\ InRound(n, c) =>
            m = n \/ (m.event \in {"NAT", "P2P"} /\ n.event \in {"NAT", "P2P"})

Late ==
    /\ route.status \in {"SETTED", Switched} /\ ready = Client
    /\ \A c \in Client : LateSession(c, session[c])
    /\ \A m \in net : LateFrame(m)
    /\ Single

\* With nothing lost, who is not on the direct path yet will hear of it.
Informed ==
    route.status = Switched /\ lost = 0 => \A c \in Client :
        \/ session[c].peeraddr = At(Other(c))
        \/ \E d \in Client : Announce(d, c) \in net

\* When the server has released the call, a client has gone or will learn of it.
AllReleased == ready = Client => \A c \in Client : Gone(c) \/ Released(c) \in net

CallInv ==
    /\ Legs /\ AllReleased
    /\ beats = 0 => Early
    /\ beats > 0 => Late /\ Informed

IInv == TypeInv /\ (moves = 0 => CallInv)

-----------------------------------------------------------------------------
(* The frames and what keeps them true. *)

LEMMA FramesAre ==
    /\ \A c : /\ Asked(c).from = Server /\ Asked(c).to = Pub(addr[c]) /\ Asked(c).callno = c
              /\ Asked(c).type = "TXREQ" /\ Asked(c).event = "-"
              /\ Released(c).from = Server /\ Released(c).to = Pub(addr[c])
              /\ Released(c).callno = c
              /\ Released(c).type = "TXREL" /\ Released(c).event = "-"
              /\ Ready(c).from = Pub(addr[c]) /\ Ready(c).to = Server /\ Ready(c).callno = c
              /\ Ready(c).type = "TXREADY" /\ Ready(c).event = "-"
              /\ Tell(c).from = RS /\ Tell(c).to = Pub(addr[Other(c)]) /\ Tell(c).callno = c
              /\ Tell(c).type = "HEARTBEAT" /\ Tell(c).event = TryDirect /\ Tell(c).at = addr[c]
              /\ Beat(c).from = RS /\ Beat(c).to = Pub(addr[Other(c)]) /\ Beat(c).callno = c
              /\ Beat(c).type = "HEARTBEAT" /\ Beat(c).event = "NONE"
    /\ \A c, type :
           /\ Up(c, type).from = Pub(addr[c]) /\ Up(c, type).to = RS /\ Up(c, type).callno = c
           /\ Up(c, type).type = type /\ Up(c, type).event = "-"
           /\ Across(c, type).from = At(c) /\ Across(c, type).to = At(Other(c))
           /\ Across(c, type).callno = c
           /\ Across(c, type).type = type /\ Across(c, type).event = "-"
    /\ \A c, d :
           /\ Announce(c, d).from = RS /\ Announce(c, d).to = Pub(addr[d])
           /\ Announce(c, d).callno = c
           /\ Announce(c, d).type = "HEARTBEAT" /\ Announce(c, d).event = Kind
    /\ \A c, d, type :
           /\ Down(c, d, type).from = RS /\ Down(c, d, type).to = Pub(addr[d])
           /\ Down(c, d, type).callno = c
           /\ Down(c, d, type).type = type /\ Down(c, d, type).event = "-"
BY DataFields DEF Asked, Released, Ready, Up, Down, Tell, Beat, Announce, Across

LEMMA KindsAre ==
    /\ Kind \in {"NAT", "P2P"}
    /\ TryDirect \in {"INIT_NAT", "INIT_P2P"}
    /\ Began \in {"BEGIN_NAT", "BEGIN_P2P"} /\ Proved \in {"READY_NAT", "READY_P2P"}
    /\ Switched \in {"NATTED", "P2PED"}
BY DEF Kind, TryDirect, Began, Proved, Switched

LEMMA AtIs ==
    ASSUME NEW c, NEW d
    PROVE  /\ At(c) \notin {Server, RS, Nowhere}
           /\ At(c) = Pub(addr[c]) \/ At(c) = Lan(addr[c])
           /\ At(c) = At(d) => addr[c] = addr[d]
BY PlacesDiffer DEF At

\* Frames by the places they are sent to.
LEMMA FrameSent ==
    ASSUME NEW c \in Client, NEW type
    PROVE  /\ Frame(c, Server, type) = {Data(Pub(addr[c]), Server, c, type, "-", NoAddr)}
           /\ Frame(c, Server, "TXREADY") = {Ready(c)}
           /\ Frame(c, RS, type) = {Up(c, type)}
           /\ Frame(c, At(Other(c)), type) = {Across(c, type)}
<1>1. /\ Frame(c, Server, type) = {Data(Pub(addr[c]), Server, c, type, "-", NoAddr)}
      /\ Frame(c, Server, "TXREADY") = {Data(Pub(addr[c]), Server, c, "TXREADY", "-", NoAddr)}
      /\ Frame(c, RS, type) = {Data(Pub(addr[c]), RS, c, type, "-", NoAddr)}
  BY FrameIs, PlacesDiffer
<1>2. PICK a : a = At(Other(c))
  OBVIOUS
<1>3. a # Nowhere /\ (IF a[1] = "lan" THEN Lan(addr[c]) ELSE Pub(addr[c])) = At(c)
  <2>1. CASE SameNet
    BY <1>2, <2>1, PlacesDiffer DEF At
  <2>2. CASE ~SameNet
    BY <1>2, <2>2, PlacesDiffer DEF At
  <2> QED BY <2>1, <2>2
<1>4. Frame(c, a, type) = {Data(At(c), a, c, type, "-", NoAddr)}
  BY <1>3, FrameIs
<1> QED BY <1>1, <1>2, <1>4 DEF Ready, Up, Across

\* Where no client moves, frames stay what they are.
LEMMA FramesStay ==
    ASSUME addr' = addr
    PROVE  /\ SameNet' <=> SameNet
           /\ Kind' = Kind /\ Began' = Began /\ Proved' = Proved
           /\ TryDirect' = TryDirect /\ Switched' = Switched
           /\ \A c : /\ At(c)' = At(c) /\ Asked(c)' = Asked(c) /\ Released(c)' = Released(c)
                     /\ Ready(c)' = Ready(c) /\ Tell(c)' = Tell(c) /\ Beat(c)' = Beat(c)
           /\ \A c, d : /\ Up(c, d)' = Up(c, d) /\ Across(c, d)' = Across(c, d)
                        /\ Announce(c, d)' = Announce(c, d)
           /\ \A c, d, type : Down(c, d, type)' = Down(c, d, type)
<1>1. SameNet' <=> SameNet
  BY DEF SameNet
<1>2. /\ Kind' = Kind /\ Began' = Began /\ Proved' = Proved
      /\ TryDirect' = TryDirect /\ Switched' = Switched /\ \A c : At(c)' = At(c)
  BY <1>1 DEF Kind, Began, Proved, TryDirect, Switched, At
<1>3. \A c : /\ Asked(c)' = Asked(c) /\ Released(c)' = Released(c)
             /\ Ready(c)' = Ready(c) /\ Beat(c)' = Beat(c)
  BY DEF Asked, Released, Ready, Beat
<1>4. \A c, d : /\ Up(c, d)' = Up(c, d) /\ Across(c, d)' = Across(c, d)
                /\ Announce(c, d)' = Announce(c, d)
  BY <1>2 DEF Up, Across, Announce
<1>5. \A c, d, type : Down(c, d, type)' = Down(c, d, type)
  BY DEF Down
<1>6. \A c : Tell(c)' = Tell(c)
  BY <1>2 DEF Tell
<1> QED BY <1>1, <1>2, <1>3, <1>4, <1>5, <1>6

LEMMA RouteStays ==
    ASSUME addr' = addr, UNCHANGED relayTables
    PROVE  /\ route' = route /\ (Legs' <=> Legs)
           /\ \A c : /\ (Left(c)' <=> Left(c)) /\ Saved(c)' = Saved(c) /\ LegBit(c)' = LegBit(c)
                     /\ (HasBit(c)' <=> HasBit(c))
<1>1. route' = route /\ (SameNet' <=> SameNet) /\ Switched' = Switched
  BY FramesStay DEF relayTables, route
<1>2. \A c : (Left(c)' <=> Left(c)) /\ Saved(c)' = Saved(c)
  BY <1>1 DEF Left, Saved
<1>3. \A c : LegBit(c)' = LegBit(c)
  BY <1>1, <1>2 DEF LegBit
<1>4. \A c : HasBit(c)' <=> HasBit(c)
  BY <1>1, <1>3 DEF HasBit
<1>5. Joined' <=> Joined
  BY <1>1 DEF Joined, relayTables
<1>6. {LegBit(c) : c \in Client}' = {LegBit(c) : c \in Client}
  BY <1>3
<1>7. Legs' <=> Legs
  BY <1>1, <1>5, <1>6 DEF Legs, relayTables
<1> QED BY <1>1, <1>2, <1>3, <1>4, <1>7

\* Which client a frame reaches.
LEMMA ReachesWhom ==
    ASSUME TypeOK, Legs, NEW c \in Client, NEW m, Reaches(m, c)
    PROVE  /\ m.to \in {Pub(addr[c]), Lan(addr[c])} /\ m.to \notin {Server, RS}
           /\ \A d \in Client : m.to = Pub(addr[d]) => d = c
           /\ \A d \in Client : m.to = At(Other(d)) => d = Other(c)
<1>1. m.to \in {Pub(addr[c]), Lan(addr[c])}
  BY DEF Reaches
<1>2. \A d \in Client : addr[d] = addr[c] => d = c
  BY OtherIs DEF Legs
<1>3. ASSUME NEW d \in Client, m.to = Pub(addr[d]) PROVE d = c
  BY <1>1, <1>2, <1>3, PlacesDiffer
<1>4. ASSUME NEW d \in Client, m.to = At(Other(d)) PROVE d = Other(c)
  <2>1. Other(d) \in Client /\ (d = c \/ d = Other(c)) /\ Other(d) # d
    BY OtherIs
  <2>2. addr[Other(d)] = addr[c]
    BY <1>1, <1>4, AtIs, PlacesDiffer
  <2> QED BY <1>2, <2>1, <2>2, OtherIs
<1> QED BY <1>1, <1>3, <1>4, PlacesDiffer

-----------------------------------------------------------------------------
(* The relay phase. *)

\* What a client sends in the relay phase, with session s.
EarlySends(c, s, f) ==
    \/ f = Up(c, "TXCNT")
    \/ f = Up(c, "TXACC") /\ route.status = "SETTED"
    \/ f = Ready(c) /\ s.transferring = "READY_RS"

\* A step in which client c goes on with session s, and of the frames some stay and
\* some are new.
LEMMA EarlyStep ==
    ASSUME TypeOK, Legs, AllReleased, Early, NEW c \in Client, NEW s, NEW kept, NEW frames,
           session' = [session EXCEPT ![c] = s],
           net' = kept \cup frames, kept \subseteq net,
           UNCHANGED <<addr, ready, beats, relayTables>>, beats = 0,
           EarlySession(c, s),
           Was(c, "NONE") => s.transferring = "NONE" \/ Asked(c) \notin kept,
           Was(c, "READY_RS") => s.transferring = "READY_RS",
           Gone(c) => s.peeraddr # Server,
           \A d \in Client : Released(d) \in net \ kept => d = c /\ s.peeraddr # Server,
           \A f \in frames : EarlySends(c, s, f)
    PROVE  CallInv'
<1>1. /\ session'[c] = s
      /\ \A d \in Client : d # c => session'[d] = session[d]
  BY DEF TypeOK
<1>2. /\ route' = route /\ Legs' /\ Switched' = Switched
      /\ \A d : /\ Asked(d)' = Asked(d) /\ Released(d)' = Released(d) /\ Ready(d)' = Ready(d)
                /\ \A type : Up(d, type)' = Up(d, type)
                /\ \A e, type : Down(d, e, type)' = Down(d, e, type)
  BY RouteStays, FramesStay
<1>3. ASSUME NEW d \in Client PROVE EarlySession(d, session[d])'
  <2>1. EarlySession(d, session'[d])
    BY <1>1 DEF Early
  <2> QED BY <1>2, <2>1 DEF EarlySession
<1>4. ASSUME NEW m \in kept PROVE EarlyFrame(m)'
  <2>1. EarlyFrame(m)
    BY DEF Early
  <2>2. PICK d \in Client :
        \/ m = Asked(d) /\ Was(d, "NONE")
        \/ m = Released(d) /\ ready = Client
        \/ m = Ready(d) /\ Was(d, "READY_RS")
        \/ m = Up(d, "TXCNT")
        \/ m = Up(d, "TXACC") /\ route.status = "SETTED"
        \/ \E e \in Client : m \in {Down(d, e, "TXCNT"), Down(d, e, "TXACC")}
                             /\ route.status = "SETTED"
    BY <2>1 DEF EarlyFrame
  <2>3. /\ Was(d, "NONE") /\ m = Asked(d) => Was(d, "NONE")'
        /\ Was(d, "READY_RS") => Was(d, "READY_RS")'
    BY <1>1 DEF Was
  <2> QED BY <1>2, <2>2, <2>3 DEF EarlyFrame
<1>5. ASSUME NEW f \in frames PROVE EarlyFrame(f)'
  <2>1. s.transferring = "READY_RS" => Was(c, "READY_RS")'
    BY <1>1 DEF Was
  <2> QED BY <1>2, <2>1 DEF EarlyFrame, EarlySends
<1>6. Early'
  BY <1>2, <1>3, <1>4, <1>5 DEF Early
<1>7. AllReleased'
  <2> SUFFICES ASSUME ready = Client, NEW d \in Client PROVE Gone(d)' \/ Released(d) \in net'
    BY <1>2 DEF AllReleased
  <2>1. Gone(d) \/ Released(d) \in net
    BY DEF AllReleased
  <2>2. Gone(d) => Gone(d)'
    BY <1>1 DEF Gone
  <2>3. Released(d) \in net \ kept => Gone(d)'
    BY <1>1 DEF Gone
  <2> QED BY <2>1, <2>2, <2>3
<1> QED BY <1>2, <1>6, <1>7 DEF CallInv

\* A client takes frame m.
LEMMA EarlyTake ==
    ASSUME TypeOK, Legs, AllReleased, Early, beats = 0, NEW c \in Client, NEW m \in net,
           NEW s, NEW frames, Take(c, m, s, frames), Reaches(m, c),
           EarlySession(c, s),
           Was(c, "NONE") => s.transferring = "NONE" \/ m = Asked(c),
           Was(c, "READY_RS") => s.transferring = "READY_RS",
           Gone(c) => s.peeraddr # Server,
           m = Released(c) => s.peeraddr # Server,
           \A f \in frames : EarlySends(c, s, f)
    PROVE  CallInv'
<1>1. PICK kept : kept = net \ {m}
  OBVIOUS
<1>2. /\ session' = [session EXCEPT ![c] = s] /\ net' = kept \cup frames /\ kept \subseteq net
      /\ UNCHANGED <<addr, ready, beats, relayTables>>
  BY <1>1 DEF Take, bounds
<1>3. m = Asked(c) => Asked(c) \notin kept
  BY <1>1
<1>4. ASSUME NEW d \in Client, Released(d) \in net \ kept PROVE d = c /\ s.peeraddr # Server
  <2>1. m = Released(d)
    BY <1>1, <1>4
  <2>2. m.to = Pub(addr[d])
    BY <2>1, FramesAre
  <2> QED BY <2>1, <2>2, ReachesWhom
<1> QED BY <1>2, <1>3, <1>4, EarlyStep

\* The frames that reach a client in the relay phase.
LEMMA EarlyArrival ==
    ASSUME TypeOK, Legs, Early, NEW c \in Client, NEW m \in net, Reaches(m, c)
    PROVE  \/ m = Asked(c) /\ m.type = "TXREQ" /\ m.from = Server /\ Was(c, "NONE")
           \/ m = Released(c) /\ m.type = "TXREL" /\ m.from = Server /\ ready = Client
           \/ m.type \in {"TXCNT", "TXACC"} /\ m.from = RS /\ route.status = "SETTED"
<1>1. PICK d \in Client :
        \/ m = Asked(d) /\ Was(d, "NONE")
        \/ m = Released(d) /\ ready = Client
        \/ m = Ready(d)
        \/ m = Up(d, "TXCNT")
        \/ m = Up(d, "TXACC")
        \/ \E e \in Client : m \in {Down(d, e, "TXCNT"), Down(d, e, "TXACC")}
                             /\ route.status = "SETTED"
  BY DEF Early, EarlyFrame
<1>2. m # Ready(d) /\ m # Up(d, "TXCNT") /\ m # Up(d, "TXACC")
  BY ReachesWhom, FramesAre
<1>3. CASE m = Asked(d) /\ Was(d, "NONE")
  BY <1>3, ReachesWhom, FramesAre
<1>4. CASE m = Released(d) /\ ready = Client
  BY <1>4, ReachesWhom, FramesAre
<1>5. CASE \E e \in Client : m \in {Down(d, e, "TXCNT"), Down(d, e, "TXACC")}
                             /\ route.status = "SETTED"
  BY <1>5, FramesAre
<1> QED BY <1>1, <1>2, <1>3, <1>4, <1>5

LEMMA EarlyTxreq ==
    ASSUME TypeOK, Legs, AllReleased, Early, beats = 0, NEW c \in Client, Txreq(c)
    PROVE  CallInv'
<1>1. PICK s : s = [session[c] EXCEPT !.transfer = RS, !.transferring = "BEGIN_RS",
                                      !.sched = @ \cup {"TXCNT"}]
  OBVIOUS
<1>2. PICK m \in net : Reaches(m, c) /\ m.type = "TXREQ" /\ Take(c, m, s, Frame(c, RS, "TXCNT"))
  BY <1>1 DEF Txreq, Arrives
<1>3. m = Asked(c) /\ Was(c, "NONE")
  BY <1>2, EarlyArrival
<1>4. EarlySession(c, session[c]) /\ session[c] \in Session
  BY SessionFields DEF Early
<1>5. /\ s.transfer = RS /\ s.transferring = "BEGIN_RS" /\ s.sched = {"TXCNT"}
      /\ s.transfer_nat = session[c].transfer_nat /\ s.transfer_p2p = session[c].transfer_p2p
      /\ s.peeraddr = session[c].peeraddr /\ s.path = session[c].path
  BY <1>1, <1>3, <1>4 DEF Session, EarlySession, Was
<1>6. EarlySession(c, s)
  BY <1>3, <1>4, <1>5 DEF EarlySession, Was
<1>7. \A f \in Frame(c, RS, "TXCNT") : EarlySends(c, s, f)
  BY FrameSent DEF EarlySends
<1>8. m # Released(c)
  BY <1>2, FramesAre
<1> QED BY <1>2, <1>3, <1>5, <1>6, <1>7, <1>8, EarlyTake DEF Was, Gone

LEMMA EarlyTxcnt ==
    ASSUME TypeOK, Legs, AllReleased, Early, beats = 0, NEW c \in Client, Txcnt(c)
    PROVE  CallInv'
<1>1. EarlySession(c, session[c]) /\ session[c] \in Session
  BY SessionFields DEF Early
<1>2. PICK m \in net :
        /\ m.type = "TXCNT" /\ Reaches(m, c) /\ session[c].transferring # "NONE"
        /\ LET s   == TxcntSession(session[c], m.from)
               acc == Frame(c, m.from, "TXACC")
           IN  CASE s.transferring = "BEGIN_RS" ->
                      Take(c, m, [s EXCEPT !.transfer = m.from, !.sched = @ \cup {"TXACC"}], acc)
                 [] s.transferring \in {"BEGIN_NAT", "READY_NAT"} ->
                      Take(c, m, [s EXCEPT !.transfer_nat = m.from], acc)
                 [] s.transferring \in {"BEGIN_P2P", "READY_P2P"} ->
                      Take(c, m, [s EXCEPT !.transfer_p2p = m.from], acc)
                 [] s.transferring \in {"READY_RS", "REL"} -> Take(c, m, s, {})
  BY DEF Txcnt
<1>3. m.from = RS /\ route.status = "SETTED"
  BY <1>2, EarlyArrival
<1>4. TxcntSession(session[c], m.from) = session[c]
  BY <1>1, <1>2, <1>3 DEF TxcntSession, ForwardMatch, EarlySession
<1>5. m # Released(c) /\ m # Asked(c)
  BY <1>2, FramesAre
<1>6. CASE session[c].transferring = "READY_RS"
  <2>1. Take(c, m, session[c], {})
    BY <1>2, <1>4, <1>6
  <2> QED BY <1>1, <1>2, <1>5, <2>1, EarlyTake DEF Was, Gone
<1>7. CASE session[c].transferring = "BEGIN_RS"
  <2>1. PICK s : s = [session[c] EXCEPT !.transfer = RS, !.sched = @ \cup {"TXACC"}]
    OBVIOUS
  <2>2. Take(c, m, s, Frame(c, RS, "TXACC"))
    BY <1>2, <1>3, <1>4, <1>7, <2>1
  <2>3. /\ s.transfer = RS /\ s.transferring = "BEGIN_RS"
        /\ s.sched = session[c].sched \cup {"TXACC"}
        /\ s.transfer_nat = session[c].transfer_nat /\ s.transfer_p2p = session[c].transfer_p2p
        /\ s.peeraddr = session[c].peeraddr /\ s.path = session[c].path
    BY <1>1, <1>7, <2>1 DEF Session
  <2>4. EarlySession(c, s)
    BY <1>1, <1>3, <1>7, <2>3 DEF EarlySession
  <2>5. \A f \in Frame(c, RS, "TXACC") : EarlySends(c, s, f)
    BY <1>3, FrameSent DEF EarlySends
  <2> QED BY <1>2, <1>5, <1>7, <2>2, <2>3, <2>4, <2>5, EarlyTake DEF Was, Gone
<1> QED BY <1>1, <1>2, <1>6, <1>7 DEF EarlySession

LEMMA EarlyTxacc ==
    ASSUME TypeOK, Legs, AllReleased, Early, beats = 0, NEW c \in Client, Txacc(c)
    PROVE  CallInv'
<1>1. EarlySession(c, session[c]) /\ session[c] \in Session
  BY SessionFields DEF Early
<1>2. PICK s : s = [StopTransfer(session[c]) EXCEPT !.transferring = Answered(@)]
  OBVIOUS
<1>3. PICK m \in net :
        /\ m.type = "TXACC" /\ Reaches(m, c) /\ ForwardMatch(session[c], m.from)
        /\ IF s.transferring = session[c].transferring
           THEN Take(c, m, s, {})
           ELSE Take(c, m, IF s.transferring = "READY_RS"
                           THEN [s EXCEPT !.sched = {"TXREADY"}] ELSE s,
                     Frame(c, s.peeraddr, "TXREADY"))
  BY <1>2 DEF Txacc, Arrives
<1>4. m.from = RS /\ route.status = "SETTED"
  BY <1>3, EarlyArrival
<1>5. m # Released(c) /\ m # Asked(c)
  BY <1>3, FramesAre
<1>6. /\ s.transferring = Answered(session[c].transferring) /\ s.sched = {}
      /\ s.transfer = session[c].transfer
      /\ s.transfer_nat = session[c].transfer_nat /\ s.transfer_p2p = session[c].transfer_p2p
      /\ s.peeraddr = session[c].peeraddr /\ s.path = session[c].path /\ s \in Session
  BY <1>1, <1>2 DEF StopTransfer, Session, Answered, Transferring, Sched
<1>7. session[c].transferring # "NONE"
  BY <1>1, <1>3, <1>4, PlacesDiffer DEF ForwardMatch, EarlySession, Early, Was
<1>8. CASE session[c].transferring = "READY_RS"
  <2>1. s.transferring = "READY_RS"
    BY <1>6, <1>8 DEF Answered
  <2>2. EarlySession(c, s)
    BY <1>1, <1>6, <1>8, <2>1 DEF EarlySession
  <2>3. Take(c, m, s, {})
    BY <1>3, <1>8, <2>1
  <2> QED BY <1>3, <1>5, <1>6, <1>8, <2>1, <2>2, <2>3, EarlyTake DEF Was, Gone
<1>9. CASE session[c].transferring = "BEGIN_RS"
  <2>1. s.transferring = "READY_RS"
    BY <1>6, <1>9 DEF Answered
  <2>2. s.peeraddr = Server /\ c \notin ready
    BY <1>1, <1>6, <1>9 DEF EarlySession
  <2>3. PICK t : t = [s EXCEPT !.sched = {"TXREADY"}]
    OBVIOUS
  <2>4. Take(c, m, t, Frame(c, Server, "TXREADY"))
    BY <1>3, <1>9, <2>1, <2>2, <2>3
  <2>5. /\ t.transferring = "READY_RS" /\ t.sched = {"TXREADY"}
        /\ t.transfer = session[c].transfer
        /\ t.transfer_nat = session[c].transfer_nat /\ t.transfer_p2p = session[c].transfer_p2p
        /\ t.peeraddr = session[c].peeraddr /\ t.path = session[c].path
    BY <1>6, <2>1, <2>3 DEF Session
  <2>6. EarlySession(c, t)
    BY <1>1, <1>4, <1>9, <2>2, <2>5 DEF EarlySession
  <2>7. \A f \in Frame(c, Server, "TXREADY") : EarlySends(c, t, f)
    BY <2>5, FrameSent DEF EarlySends
  <2> QED BY <1>3, <1>5, <1>9, <2>4, <2>5, <2>6, <2>7, EarlyTake DEF Was, Gone
<1> QED BY <1>1, <1>7, <1>8, <1>9 DEF EarlySession

LEMMA EarlyTxrel ==
    ASSUME TypeOK, Legs, AllReleased, Early, beats = 0, NEW c \in Client, Txrel(c)
    PROVE  CallInv'
<1>1. EarlySession(c, session[c]) /\ session[c] \in Session
  BY SessionFields DEF Early
<1>2. PICK s : s = CompleteTransfer(session[c], "RS")
  OBVIOUS
<1>3. PICK m \in net :
        /\ m.type = "TXREL" /\ Reaches(m, c)
        /\ session[c].transferring # "NONE" => Take(c, m, s, {})
  BY <1>2 DEF Txrel, Arrives
<1>4. ready = Client
  BY <1>3, EarlyArrival
<1>5. session[c].transferring = "READY_RS"
  BY <1>1, <1>4 DEF EarlySession
<1>6. s.peeraddr = RS /\ s.sched = {} /\ s.path = "RS" /\ s.transfer = RS
      /\ s.transferring = "READY_RS"
      /\ s.transfer_nat = session[c].transfer_nat /\ s.transfer_p2p = session[c].transfer_p2p
  BY <1>1, <1>2, <1>5 DEF EarlySession, CompleteTransfer, StopTransfer, XferAddr, Session
<1>7. EarlySession(c, s)
  BY <1>1, <1>4, <1>5, <1>6 DEF EarlySession
<1>8. Take(c, m, s, {}) /\ m # Asked(c)
  BY <1>3, <1>5, FramesAre
<1> QED BY <1>3, <1>5, <1>6, <1>7, <1>8, PlacesDiffer, EarlyTake DEF Was, Gone

\* No heartbeat and no TXREADY reaches a client yet, and a frame that finds no session
\* changes none.
LEMMA EarlyNoSession ==
    ASSUME TypeOK, Legs, AllReleased, Early, beats = 0, NEW c \in Client,
           \/ Txready(c) \/ NoSession(c) \/ HeartbeatInitNat(c) \/ HeartbeatInitP2p(c)
           \/ HeartbeatSwitch(c) \/ HeartbeatNone(c)
    PROVE  CallInv'
<1>1. ASSUME NEW m \in net, Reaches(m, c) PROVE m.type \notin {"HEARTBEAT", "TXREADY"}
  BY <1>1, EarlyArrival
<1>2. ~(\/ Txready(c) \/ HeartbeatInitNat(c) \/ HeartbeatInitP2p(c)
        \/ HeartbeatSwitch(c) \/ HeartbeatNone(c))
  BY <1>1 DEF Txready, HeartbeatInitNat, HeartbeatInitP2p, HeartbeatSwitch, HeartbeatNone, Arrives
<1>3. PICK m \in net :
        /\ Reaches(m, c) /\ Take(c, m, session[c], {})
        /\ m.type # "TXCNT" => ~ForwardMatch(session[c], m.from)
  BY <1>2 DEF NoSession
<1>4. EarlySession(c, session[c])
  BY DEF Early
<1>5. m = Released(c) => session[c].peeraddr # Server
  BY <1>3, FramesAre DEF ForwardMatch
<1> QED BY <1>3, <1>4, <1>5, EarlyTake DEF Was, Gone

LEMMA EarlyTimers ==
    ASSUME TypeOK, Legs, AllReleased, Early, beats = 0, NEW c \in Client,
           Retransmit(c) \/ GiveUp(c)
    PROVE  CallInv'
<1>1. EarlySession(c, session[c]) /\ session[c] \in Session
  BY SessionFields DEF Early
<1>2. CASE Retransmit(c)
  <2>1. PICK f \in session[c].sched :
          /\ net' = net \cup Frame(c, IF f = "TXREADY" THEN session[c].peeraddr
                                      ELSE session[c].transfer, f)
          /\ UNCHANGED <<session, addr, ready, bounds, relayTables>>
    BY <1>2 DEF Retransmit
  <2>2. session' = [session EXCEPT ![c] = session[c]]
    BY <2>1 DEF TypeOK
  <2>3. f \in Sched
    BY SessionFields
  <2>4. PICK frames :
          /\ frames = Frame(c, IF f = "TXREADY" THEN session[c].peeraddr
                               ELSE session[c].transfer, f)
          /\ net' = net \cup frames
    BY <2>1
  <2>5. ASSUME NEW x \in frames PROVE EarlySends(c, session[c], x)
    <3>1. CASE f = "TXREADY"
      <4>1. session[c].transferring = "READY_RS"
        BY <1>1, <2>1, <3>1 DEF EarlySession
      <4>2. session[c].peeraddr = Server
        BY <1>1, <2>1 DEF EarlySession
      <4> QED BY <2>4, <2>5, <3>1, <4>1, <4>2, FrameSent DEF EarlySends
    <3>2. CASE f \in {"TXCNT", "TXACC"}
      <4>1. session[c].transfer = RS
        BY <1>1, <2>1 DEF EarlySession
      <4>2. x = Up(c, f)
        BY <2>4, <2>5, <3>2, <4>1, FrameSent
      <4>3. f = "TXACC" => route.status = "SETTED"
        BY <1>1, <2>1 DEF EarlySession
      <4> QED BY <3>2, <4>2, <4>3 DEF EarlySends
    <3> QED BY <2>3, <3>1, <3>2 DEF Sched
  <2> QED BY <1>1, <2>1, <2>2, <2>4, <2>5, EarlyStep DEF bounds, Was, Gone
<1>3. CASE GiveUp(c)
  <2>1. PICK f \in session[c].sched \ {"TXREADY"} :
          /\ session' = [session EXCEPT ![c].sched = @ \ {f}]
          /\ UNCHANGED <<addr, ready, net, bounds, relayTables>>
    BY <1>3 DEF GiveUp
  <2>2. PICK s : s = [session[c] EXCEPT !.sched = @ \ {f}]
    OBVIOUS
  <2>3. /\ s.transferring = session[c].transferring /\ s.sched = session[c].sched \ {f}
        /\ s.transfer = session[c].transfer
        /\ s.transfer_nat = session[c].transfer_nat /\ s.transfer_p2p = session[c].transfer_p2p
        /\ s.peeraddr = session[c].peeraddr /\ s.path = session[c].path
    BY <1>1, <2>2 DEF Session
  <2>4. EarlySession(c, s)
    BY <1>1, <2>3 DEF EarlySession
  <2>5. session' = [session EXCEPT ![c] = s]
    BY <2>1, <2>2
  <2>6. PICK none : none = {}
    OBVIOUS
  <2>7. net' = net \cup none
    BY <2>1, <2>6
  <2>8. \A x \in none : EarlySends(c, s, x)
    BY <2>6
  <2>9. /\ Was(c, "NONE") => s.transferring = "NONE"
        /\ Was(c, "READY_RS") => s.transferring = "READY_RS"
        /\ Gone(c) => s.peeraddr # Server
    BY <2>3 DEF Was, Gone
  <2> QED BY <2>1, <2>4, <2>5, <2>7, <2>8, <2>9, EarlyStep DEF bounds
<1> QED BY <1>2, <1>3

LEMMA EarlyLose ==
    ASSUME TypeOK, Legs, AllReleased, Early, beats = 0, Lose
    PROVE  CallInv'
<1>1. PICK m \in net :
        /\ m.from # Server /\ net' = net \ {m}
        /\ UNCHANGED <<session, addr, ready, beats, relayTables>>
  BY DEF Lose
<1>2. PICK c \in Client : TRUE
  BY TransferAssumption
<1>3. EarlySession(c, session[c])
  BY DEF Early
<1>4. PICK kept : kept = net \ {m}
  OBVIOUS
<1>7. PICK none : none = {}
  OBVIOUS
<1>8. net' = kept \cup none /\ kept \subseteq net
  BY <1>1, <1>4, <1>7
<1>5. \A d \in Client : Released(d) \notin net \ kept
  BY <1>1, <1>4, FramesAre
<1>6. session' = [session EXCEPT ![c] = session[c]]
  BY <1>1 DEF TypeOK
<1>9. \A x \in none : EarlySends(c, session[c], x)
  BY <1>7
<1> QED BY <1>1, <1>3, <1>5, <1>6, <1>8, <1>9, EarlyStep DEF Was, Gone

LEMMA EarlyServerTxready ==
    ASSUME TypeOK, Legs, AllReleased, Early, beats = 0, NEW c \in Client, ServerTxready(c)
    PROVE  CallInv'
<1>1. PICK m \in net :
        /\ m.to = Server /\ m.callno = c
        /\ ready' = ready \cup {c}
        /\ session' = [session EXCEPT ![c].sched = @ \ {"TXREADY"}]
        /\ net' = (net \ {m}) \cup
                  (IF ready' = Client /\ ready # Client
                   THEN {ServerFrame(d, "TXREL") : d \in Client} ELSE {})
        /\ UNCHANGED <<addr, bounds, relayTables>>
  BY DEF ServerTxready
<1>2. EarlyFrame(m)
  BY DEF Early
<1>3. m = Ready(c) /\ Was(c, "READY_RS")
  BY <1>1, <1>2, FramesAre, PlacesDiffer DEF EarlyFrame
<1>4. /\ route' = route /\ Legs' /\ Switched' = Switched
      /\ \A d : /\ Asked(d)' = Asked(d) /\ Released(d)' = Released(d) /\ Ready(d)' = Ready(d)
                /\ \A type : Up(d, type)' = Up(d, type)
                /\ \A e, type : Down(d, e, type)' = Down(d, e, type)
  BY <1>1, RouteStays, FramesStay
<1>5. ready \subseteq Client /\ (ready = Client => ready' = Client)
  BY <1>1 DEF TypeOK
<1>6. PICK s : s = [session[c] EXCEPT !.sched = @ \ {"TXREADY"}]
  OBVIOUS
<1>7. session'[c] = s /\ \A d \in Client : d # c => session'[d] = session[d]
  BY <1>1, <1>6 DEF TypeOK
<1>8. EarlySession(c, session[c]) /\ session[c] \in Session
  BY SessionFields DEF Early
<1>9. /\ s.transferring = session[c].transferring /\ s.sched = session[c].sched \ {"TXREADY"}
      /\ s.transfer = session[c].transfer
      /\ s.transfer_nat = session[c].transfer_nat /\ s.transfer_p2p = session[c].transfer_p2p
      /\ s.peeraddr = session[c].peeraddr /\ s.path = session[c].path
  BY <1>6, <1>8 DEF Session
<1>10. ASSUME NEW d \in Client PROVE EarlySession(d, session[d])'
  <2>1. CASE d = c
    BY <1>3, <1>4, <1>5, <1>7, <1>8, <1>9, <2>1 DEF EarlySession, Was
  <2>2. CASE d # c
    <3>1. EarlySession(d, session[d]) /\ (d \in ready' => d \in ready)
      BY <1>1, <2>2 DEF Early
    <3> QED BY <1>4, <1>5, <1>7, <2>2, <3>1 DEF EarlySession
  <2> QED BY <2>1, <2>2
<1>11. \A x : \A d \in Client : Was(d, x)' <=> Was(d, x)
  BY <1>7, <1>9 DEF Was
<1>12. \A d : ServerFrame(d, "TXREL") = Released(d)
  BY DEF ServerFrame, Released, Data
<1>13. ASSUME NEW x \in net' PROVE EarlyFrame(x)'
  <2>1. CASE x \in net
    <3>1. EarlyFrame(x)
      BY <2>1 DEF Early
    <3> QED BY <1>4, <1>5, <1>11, <3>1 DEF EarlyFrame
  <2>2. CASE x \notin net
    <3>1. ready' = Client /\ \E d \in Client : x = Released(d)
      BY <1>1, <1>12, <1>13, <2>2
    <3> QED BY <1>4, <3>1 DEF EarlyFrame
  <2> QED BY <2>1, <2>2
<1>14. AllReleased'
  <2> SUFFICES ASSUME ready' = Client, NEW d \in Client PROVE Gone(d)' \/ Released(d) \in net'
    BY <1>4 DEF AllReleased
  <2>1. CASE ready = Client
    <3>1. Gone(d) \/ Released(d) \in net
      BY <2>1 DEF AllReleased
    <3>2. Released(d) # m
      BY <1>3, FramesAre
    <3>3. Gone(d)' <=> Gone(d)
      BY <1>7, <1>9 DEF Gone
    <3> QED BY <1>1, <3>1, <3>2, <3>3
  <2>2. CASE ready # Client
    BY <1>1, <1>12, <2>2
  <2> QED BY <2>1, <2>2
<1>15. Early'
  BY <1>4, <1>10, <1>13 DEF Early
<1> QED BY <1>1, <1>4, <1>14, <1>15 DEF CallInv, bounds

LEMMA SendtoIs ==
    ASSUME NEW to, NEW type, NEW event, NEW d \in Relay!Sendto(to, type, event)
    PROVE  d.to = to /\ d.type = type /\ d.event = event
BY DEF Relay!Sendto

\* A datagram with no word about the path leaves the relay.
LEMMA SentIs ==
    ASSUME NEW m, NEW to, NEW type, NEW event, NEW d \in Relay!Sendto(to, type, event),
           event \notin {"INIT_NAT", "INIT_P2P"}
    PROVE  Sent(m, d) = Data(RS, Pub(to), m.callno, type, event, NoAddr)
BY SendtoIs DEF Sent

\* The relay's own steps in the relay phase.
LEMMA EarlyRelayStep ==
    ASSUME TypeOK, AllReleased, Early, beats = 0, NEW m \in net, m.to = RS,
           net' = (net \ {m}) \cup {Sent(m, d) : d \in out'},
           UNCHANGED <<session, addr, ready, bounds>>,
           Legs', route'.txstatus = {}, route'.status # Switched,
           route.status = "SETTED" => route'.status = "SETTED",
           \A d \in out' : \E c, e \in Client : \E type \in {"TXCNT", "TXACC"} :
               Sent(m, d) = Down(c, e, type) /\ route'.status = "SETTED"
    PROVE  CallInv'
<1>1. /\ Switched' = Switched
      /\ \A d : /\ Asked(d)' = Asked(d) /\ Released(d)' = Released(d) /\ Ready(d)' = Ready(d)
                /\ \A type : Up(d, type)' = Up(d, type)
                /\ \A e, type : Down(d, e, type)' = Down(d, e, type)
  BY FramesStay
<1>2. ASSUME NEW c \in Client PROVE EarlySession(c, session[c])'
  <2>1. EarlySession(c, session[c])
    BY DEF Early
  <2> QED BY <2>1 DEF EarlySession
<1>3. ASSUME NEW x \in net' PROVE EarlyFrame(x)'
  <2>1. CASE x \in net
    <3>1. EarlyFrame(x)
      BY <2>1 DEF Early
    <3>2. \A c \in Client : \A y : Was(c, y)' <=> Was(c, y)
      BY DEF Was
    <3> QED BY <1>1, <3>1, <3>2 DEF EarlyFrame
  <2>2. CASE x \notin net
    <3>1. PICK c \in Client, e \in Client, type \in {"TXCNT", "TXACC"} :
            x = Down(c, e, type) /\ route'.status = "SETTED"
      BY <1>3, <2>2
    <3> QED BY <1>1, <3>1 DEF EarlyFrame
  <2> QED BY <2>1, <2>2
<1>4. Early'
  BY <1>1, <1>2, <1>3 DEF Early
<1>5. AllReleased'
  <2> SUFFICES ASSUME ready = Client, NEW c \in Client PROVE Gone(c)' \/ Released(c) \in net'
    BY <1>1 DEF AllReleased
  <2>1. Gone(c) \/ Released(c) \in net
    BY DEF AllReleased
  <2>2. Released(c) # m
    BY FramesAre, PlacesDiffer
  <2> QED BY <1>1, <2>1, <2>2 DEF Gone
<1> QED BY <1>4, <1>5 DEF CallInv, bounds

LEMMA EarlyRelay ==
    ASSUME TypeInv, Legs, AllReleased, Early, beats = 0, RelayStep
    PROVE  CallInv'
<1>1. PICK m \in net :
        /\ m.to = RS /\ m.from[2] \in Addr /\ m.from = Pub(m.from[2]) /\ m.callno \in Client
        /\ RelayAction(m.from[2], m.callno, m.type)
        /\ net' = (net \ {m}) \cup {Sent(m, d) : d \in out'}
        /\ UNCHANGED <<session, addr, ready, bounds>>
  BY RelayStepIs
<1>2. PICK c \in Client : m = Up(c, "TXCNT") \/ (m = Up(c, "TXACC") /\ route.status = "SETTED")
  <2>1. EarlyFrame(m)
    BY DEF Early
  <2> QED BY <1>1, <2>1, FramesAre, PlacesDiffer DEF EarlyFrame
<1>3. m.from[2] = addr[c] /\ m.callno = c
  BY <1>2, FramesAre, PlacesDiffer
<1>4. addr[c] \in Addr /\ TypeOK
  BY DEF TypeInv, TypeOK
<1>5. /\ (SameNet' <=> SameNet) /\ Switched' = Switched /\ Switched \in {"NATTED", "P2PED"}
      /\ \A d, e, type : Down(d, e, type) = Data(RS, Pub(addr[e]), d, type, "-", NoAddr)
  BY <1>1, FramesStay, KindsAre DEF Down
<1>6. route.txstatus = {} /\ route.status # Switched /\ route \in Relay!RT_Info
  BY <1>4, OneRoute DEF Early
<1>7. ASSUME UNCHANGED relayTables, out' = {} PROVE CallInv'
  <2>1. route' = route /\ Legs'
    BY <1>1, <1>7, RouteStays
  <2> QED BY <1>1, <1>4, <1>6, <1>7, <2>1, EarlyRelayStep
<1>8. CASE m = Up(c, "TXCNT")
  <2>1. RelayAction(addr[c], c, "TXCNT")
    BY <1>1, <1>3, <1>8, FramesAre
  <2>2. PICK new, same, joined :
          /\ new = [Relay!Blank EXCEPT !.token = RelayToken, !.l_addr = addr[c],
                             !.l_callno = c, !.status = "SETTING", !.l_pkt = "TXCNT"]
          /\ same = [route EXCEPT !.l_addr = addr[c], !.l_pkt = "TXCNT"]
          /\ joined = [route EXCEPT !.r_callno = c, !.r_addr = addr[c], !.status = "SETTED"]
    OBVIOUS
  <2>3. CASE /\ rti = 0 /\ rti' = 1 /\ Becomes(new) /\ out' = {}
             /\ index' = [index EXCEPT ![c] = @ \cup {1}]
    <3>1. /\ new \in Relay!RT_Info /\ new.status = "SETTING" /\ new.txstatus = {}
          /\ new.token = RelayToken /\ new.l_pkt = "TXCNT"
          /\ new.l_addr = addr[c] /\ new.l_callno = c
      BY <1>4, <2>2 DEF Relay!Blank, Relay!RT_Info, Relay!Status, Relay!Pkt
    <3>2. route' = new
      BY <1>4, <2>3, <3>1, OneRoute
    <3>3. 1 \in index'[c]
      BY <1>4, <2>3 DEF TypeOK, Relay!TypeOK
    <3>4. Legs'
      BY <1>1, <1>5, <2>3, <3>1, <3>2, <3>3 DEF Legs
    <3>5. route.status = "IDEL"
      BY <2>3 DEF Legs
    <3> QED BY <1>1, <1>4, <1>5, <2>3, <3>1, <3>2, <3>4, <3>5, EarlyRelayStep
  <2>4. CASE /\ rti # 0 /\ route.status = "SETTING" /\ Left(c) /\ Becomes(same)
             /\ out' = {} /\ UNCHANGED <<nroutes, rti, index>>
    <3>1. /\ same \in Relay!RT_Info /\ same.status = route.status
          /\ same.txstatus = route.txstatus
          /\ same.token = route.token /\ same.l_pkt = "TXCNT"
          /\ same.l_addr = addr[c] /\ same.l_callno = c
      BY <1>4, <1>6, <2>2, <2>4 DEF Relay!RT_Info, Relay!Pkt, Left
    <3>2. route' = same
      BY <1>4, <2>4, <3>1, OneRoute
    <3>3. Legs'
      BY <1>1, <1>5, <1>6, <2>4, <3>1, <3>2 DEF Legs, Left
    <3> QED BY <1>1, <1>4, <1>5, <1>6, <2>4, <3>1, <3>2, <3>3, EarlyRelayStep
  <2>5. CASE /\ rti # 0 /\ route.status = "SETTING" /\ ~Left(c) /\ Becomes(joined)
             /\ out' = Relay!Sendto(route.l_addr, "TXCNT", "-")
                       \cup Relay!Sendto(addr[c], route.l_pkt, "-")
             /\ index' = [index EXCEPT ![c] = @ \cup {1}] /\ UNCHANGED <<nroutes, rti>>
    <3>1. /\ joined \in Relay!RT_Info /\ joined.status = "SETTED"
          /\ joined.txstatus = route.txstatus /\ joined.token = route.token
          /\ joined.l_addr = route.l_addr /\ joined.l_callno = route.l_callno
          /\ joined.r_addr = addr[c] /\ joined.r_callno = c
      BY <1>4, <1>6, <2>2, <2>5 DEF Relay!RT_Info, Relay!Status
    <3>2. route' = joined
      BY <1>4, <2>5, <3>1, OneRoute
    <3>3. /\ route.l_callno = Other(c) /\ route.l_addr = addr[Other(c)] /\ route.l_pkt = "TXCNT"
          /\ 1 \in index[Other(c)] /\ route.token = RelayToken
      BY <2>5, OtherIs DEF Legs, Left
    <3>4. \A d \in Client : 1 \in index'[d]
      BY <1>4, <2>5, <3>3, OtherIs DEF TypeOK, Relay!TypeOK
    <3>5. Joined'
      BY <1>1, <3>1, <3>2, <3>3, <3>4, OtherIs DEF Joined
    <3>6. Legs'
      BY <1>1, <1>5, <1>6, <2>5, <3>1, <3>2, <3>3, <3>5 DEF Legs
    <3>7. ASSUME NEW d \in out'
          PROVE  \E e \in Client : Sent(m, d) = Down(c, e, "TXCNT")
      <4>1. CASE d \in Relay!Sendto(addr[Other(c)], "TXCNT", "-")
        BY <1>3, <1>5, <4>1, SentIs, OtherIs
      <4>2. CASE d \in Relay!Sendto(addr[c], "TXCNT", "-")
        BY <1>3, <1>5, <4>2, SentIs
      <4> QED BY <2>5, <3>3, <3>7, <4>1, <4>2
    <3> QED BY <1>1, <1>4, <1>5, <1>6, <3>1, <3>2, <3>6, <3>7, EarlyRelayStep
  <2> QED BY <1>4, <1>7, <2>1, <2>2, <2>3, <2>4, <2>5, RelayTxcnt
<1>9. CASE m = Up(c, "TXACC") /\ route.status = "SETTED"
  <2>1. RelayAction(addr[c], c, "TXACC")
    BY <1>1, <1>3, <1>9, FramesAre
  <2>2. UNCHANGED relayTables
    BY <1>4, <2>1, RelayTxacc
  <2>3. route' = route /\ Legs'
    BY <1>1, <2>2, RouteStays
  <2>4. Joined
    BY <1>9 DEF Legs
  <2>5. PICK l \in Client, r \in Client : route.l_addr = addr[l] /\ route.r_addr = addr[r]
    BY <2>4, OtherIs DEF Joined
  <2>6. ASSUME NEW d \in out'
        PROVE  \E e \in Client : Sent(m, d) = Down(c, e, "TXACC")
    <3>1. PICK e \in Client : d \in Relay!Sendto(addr[e], "TXACC", "-")
      BY <1>4, <2>1, <2>5, <2>6, RelayTxacc
    <3> QED BY <1>3, <1>5, <3>1, SentIs
  <2> QED BY <1>1, <1>4, <1>6, <1>9, <2>3, <2>6, EarlyRelayStep
<1> QED BY <1>2, <1>8, <1>9

-----------------------------------------------------------------------------
(* The first heartbeat. *)

LEMMA FirstHeartbeat ==
    ASSUME TypeOK, Legs, AllReleased, Early, beats = 0, NEW c \in Client, SendRsHeartbeat(c)
    PROVE  CallInv'
<1>1. /\ Gone(c) /\ UnderWay(c) = {} /\ beats' = beats + 1
      /\ net' = net \cup Frame(c, session[c].transfer, "HEARTBEAT")
      /\ UNCHANGED <<session, addr, ready, lost, moves, relayTables>>
  BY DEF SendRsHeartbeat, Gone
<1>2. \A d \in Client : EarlySession(d, session[d])
  BY DEF Early
<1>3. ready = Client
  BY <1>1, <1>2 DEF EarlySession, Gone
<1>4. \A d \in Client : /\ Was(d, "READY_RS") /\ session[d].sched = {}
                        /\ session[d].transfer = RS
  BY <1>2, <1>3 DEF EarlySession, Was
<1>5. route.status = "SETTED" /\ route.txstatus = {}
  BY <1>2, <1>4 DEF EarlySession, Early, Was
<1>6. net' = net \cup {Up(c, "HEARTBEAT")}
  BY <1>1, <1>4, FrameSent
<1>7. /\ route' = route /\ Legs' /\ Switched' = Switched /\ Kind' = Kind
      /\ Began' = Began /\ Proved' = Proved
      /\ \A d : /\ At(d)' = At(d) /\ Released(d)' = Released(d) /\ Ready(d)' = Ready(d)
                /\ \A type : Up(d, type)' = Up(d, type)
                /\ (HasBit(d)' <=> HasBit(d))
  BY <1>1, RouteStays, FramesStay
<1>8. ASSUME NEW m \in net PROVE \E d \in Client : m = Released(d) \/ m = Ready(d)
  <2>1. EarlyFrame(m)
    BY DEF Early
  <2>2. m \notin UnderWay(c)
    BY <1>1
  <2>3. \A d \in Client, e \in Client :
          /\ m # Up(d, "TXCNT") /\ m # Up(d, "TXACC")
          /\ m # Down(d, e, "TXCNT") /\ m # Down(d, e, "TXACC")
    BY <2>2, FramesAre DEF UnderWay
  <2>4. \A d \in Client : ~Was(d, "NONE")
    BY <1>4 DEF Was
  <2> QED BY <2>1, <2>3, <2>4 DEF EarlyFrame
<1>9. ASSUME NEW d \in Client PROVE LateSession(d, session[d])'
  <2>1. ~HasBit(d) /\ route.status # Switched
    BY <1>5, KindsAre DEF HasBit
  <2>2. EarlySession(d, session[d])
    BY <1>2
  <2>3. session[d].transferring \notin {Began, Proved}
    BY <1>4, KindsAre DEF Was
  <2>4. session[d].peeraddr # At(Other(d))
    BY <2>2, AtIs DEF EarlySession
  <2>5. LateSession(d, session[d])
    BY <1>4, <2>1, <2>2, <2>3, <2>4 DEF LateSession, EarlySession, Was
  <2> QED BY <1>1, <1>7, <2>1, <2>2, <2>3, <2>4, <2>5 DEF LateSession
<1>10. ASSUME NEW m \in net' PROVE LateFrame(m)'
  BY <1>1, <1>6, <1>7, <1>8, <1>10 DEF LateFrame, Gone
<1>11. ASSUME NEW d \in Client, NEW m \in net', InRound(m, d)
       PROVE  (m = Up(c, "HEARTBEAT") /\ d = c) \/ (m = Ready(c) /\ d # c)
  <2>1. CASE m = Up(c, "HEARTBEAT")
    BY <1>11, <2>1, FramesAre DEF InRound
  <2>2. CASE m \in net
    <3>1. PICK e \in Client : m = Released(e) \/ m = Ready(e)
      BY <1>8, <2>2
    <3>2. m = Ready(e) /\ e # d
      BY <1>11, <3>1, FramesAre DEF InRound
    <3>3. m \notin UnderWay(c)
      BY <1>1
    <3>4. e = c
      BY <2>2, <3>2, <3>3, FramesAre DEF UnderWay
    <3> QED BY <3>2, <3>4
  <2> QED BY <1>6, <2>1, <2>2
<1>12. Single'
  BY <1>11 DEF Single
<1>13. Late'
  BY <1>1, <1>3, <1>5, <1>7, <1>9, <1>10, <1>12 DEF Late
<1>14. AllReleased' /\ Informed'
  BY <1>1, <1>5, <1>6, <1>7, KindsAre DEF AllReleased, Informed, Gone
<1> QED BY <1>1, <1>7, <1>13, <1>14 DEF CallInv

-----------------------------------------------------------------------------
(* After the first heartbeat. *)

\* A step that takes frame old of a round leaves one frame of the round, or its announcements.
LEMMA RoundGoesOn ==
    ASSUME Single, NEW old \in net, NEW kept, NEW frames,
           net' = kept \cup frames, kept \subseteq net, old \notin kept,
           \A f \in frames, c \in Client : InRound(f, c) => InRound(old, c),
           frames # {} => old.event \notin {"NAT", "P2P"},
           \A f, g \in frames : f = g \/ (f.event \in {"NAT", "P2P"} /\ g.event \in {"NAT", "P2P"})
    PROVE  Single'
<1> SUFFICES ASSUME NEW c \in Client, NEW m \in net', NEW n \in net',
                    InRound(m, c), InRound(n, c)
             PROVE  m = n \/ (m.event \in {"NAT", "P2P"} /\ n.event \in {"NAT", "P2P"})
  BY DEF Single
<1>1. ASSUME NEW x \in kept, InRound(x, c), NEW f \in frames, InRound(f, c) PROVE FALSE
  <2>1. InRound(old, c) /\ old.event \notin {"NAT", "P2P"} /\ x \in net /\ x # old
    BY <1>1
  <2> QED BY <1>1, <2>1 DEF Single
<1>2. CASE m \in kept /\ n \in kept
  BY <1>2 DEF Single
<1>3. CASE m \in frames /\ n \in frames
  BY <1>3
<1> QED BY <1>1, <1>2, <1>3

\* What client c sends on with session s.
LateSends(c, s, f) ==
    \/ f = Ready(c) \/ f = Across(c, "TXACC")
    \/ f = Up(c, "TXREADY") /\ s.transferring = Proved /\ s.peeraddr # Server
    \/ f = Across(c, "TXCNT") /\ s.transferring \in {Began, Proved}

\* Client c takes frame m and goes on with session s.
LEMMA LateTake ==
    ASSUME TypeOK, Legs, AllReleased, Late, Informed, beats > 0,
           NEW c \in Client, NEW m \in net, NEW s, NEW frames,
           Take(c, m, s, frames), Reaches(m, c),
           LateSession(c, s),
           Gone(c) => s.peeraddr # Server,
           Tried(c) => s.transferring \in {Began, Proved},
           Was(c, Proved) => s.transferring = Proved \/ Up(c, "TXREADY") \notin net,
           session[c].peeraddr = At(Other(c)) => s.peeraddr = At(Other(c)),
           m = Released(c) => s.peeraddr # Server,
           route.status = Switched => \A d \in Client : m = Announce(d, c)
                                                        => s.peeraddr = At(Other(c)),
           \A f \in frames : /\ LateSends(c, s, f)
                             /\ \A d \in Client : InRound(f, d) => InRound(m, d),
           \A f, g \in frames : f = g,
           frames # {} => m.event \notin {"NAT", "P2P"}
    PROVE  CallInv'
<1>1. /\ session' = [session EXCEPT ![c] = s] /\ net' = (net \ {m}) \cup frames
      /\ UNCHANGED <<addr, ready, beats, lost, moves, relayTables>>
  BY DEF Take, bounds
<1>2. session'[c] = s /\ \A d \in Client : d # c => session'[d] = session[d]
  BY <1>1 DEF TypeOK
<1>3. /\ route' = route /\ Legs' /\ Switched' = Switched /\ Kind' = Kind
      /\ Began' = Began /\ Proved' = Proved
      /\ \A d : /\ At(d)' = At(d) /\ Released(d)' = Released(d) /\ Ready(d)' = Ready(d)
                /\ Tell(d)' = Tell(d) /\ Beat(d)' = Beat(d)
                /\ \A type : Up(d, type)' = Up(d, type) /\ Across(d, type)' = Across(d, type)
                /\ \A e : Announce(d, e)' = Announce(d, e)
                /\ (HasBit(d)' <=> HasBit(d)) /\ Saved(d)' = Saved(d)
  BY <1>1, RouteStays, FramesStay
<1>4. \A d \in Client : Gone(d) => Gone(d)'
  BY <1>2 DEF Gone
<1>5. \A d \in Client : Tried(d) => Tried(d)'
  BY <1>2, <1>3 DEF Tried, Was
<1>6. ASSUME NEW d \in Client PROVE LateSession(d, session[d])'
  <2>1. LateSession(d, session'[d])
    BY <1>2 DEF Late
  <2>2. Gone(Other(d)) => Gone(Other(d))'
    BY <1>4, OtherIs
  <2> QED BY <1>3, <2>1, <2>2 DEF LateSession
<1>7. ASSUME NEW x \in net, x # m PROVE LateFrame(x)'
  <2>1. LateFrame(x)
    BY DEF Late
  <2>2. ASSUME NEW d \in Client, x = Up(d, "TXREADY"), Was(d, Proved) PROVE Was(d, Proved)'
    <3>1. d = c => s.transferring = Proved
      BY <2>2, <1>7
    <3> QED BY <1>2, <1>3, <2>2, <3>1 DEF Was
  <2>3. PICK d \in Client :
          \/ x \in {Released(d), Ready(d), Beat(d), Across(d, "TXACC"), Across(d, "HEARTBEAT")}
          \/ x = Up(d, "HEARTBEAT") /\ Gone(d)
          \/ x = Up(d, "TXREADY") /\ Was(d, Proved) /\ Gone(d)
          \/ x = Across(d, "TXCNT") /\ Tried(d)
          \/ /\ x = Tell(d) /\ Saved(d) = "HEARTBEAT" /\ Gone(d)
             /\ route.status = "SETTED" /\ ~HasBit(Other(d))
          \/ \E e \in Client : x = Announce(d, e) /\ route.status = Switched
    BY <2>1 DEF LateFrame
  <2> QED BY <1>3, <1>4, <1>5, <2>2, <2>3 DEF LateFrame
<1>8. ASSUME NEW f \in frames PROVE LateFrame(f)'
  <2>1. /\ s.peeraddr # Server => Gone(c)'
        /\ s.transferring = Proved => Was(c, Proved)'
        /\ s.transferring \in {Began, Proved} => Tried(c)'
    BY <1>2, <1>3 DEF Gone, Was, Tried
  <2>2. LateSends(c, s, f)
    OBVIOUS
  <2> QED BY <1>3, <2>1, <2>2 DEF LateFrame, LateSends
<1>9. Single'
  <2>1. PICK kept : kept = net \ {m}
    OBVIOUS
  <2> QED BY <1>1, <2>1, RoundGoesOn DEF Late
<1>10. Late'
  BY <1>1, <1>3, <1>6, <1>7, <1>8, <1>9 DEF Late
<1>11. AllReleased'
  <2> SUFFICES ASSUME ready = Client, NEW d \in Client PROVE Gone(d)' \/ Released(d) \in net'
    BY <1>1, <1>3 DEF AllReleased
  <2>1. Gone(d) \/ Released(d) \in net
    BY DEF AllReleased
  <2>2. m = Released(d) => Gone(d)'
    <3>1. m = Released(d) => d = c
      BY ReachesWhom, FramesAre
    <3> QED BY <1>2, <3>1 DEF Gone
  <2> QED BY <1>1, <1>4, <2>1, <2>2
<1>12. Informed'
  <2> SUFFICES ASSUME route.status = Switched, lost = 0, NEW d \in Client
               PROVE  \/ session'[d].peeraddr = At(Other(d))
                      \/ \E e \in Client : Announce(e, d) \in net'
    BY <1>1, <1>3 DEF Informed
  <2>1. \/ session[d].peeraddr = At(Other(d))
        \/ \E e \in Client : Announce(e, d) \in net
    BY DEF Informed
  <2>2. session[d].peeraddr = At(Other(d)) => session'[d].peeraddr = At(Other(d))
    BY <1>2
  <2>3. ASSUME NEW e \in Client, m = Announce(e, d) PROVE session'[d].peeraddr = At(Other(d))
    <3>1. d = c
      BY <2>3, ReachesWhom, FramesAre
    <3> QED BY <1>2, <2>3, <3>1
  <2> QED BY <1>1, <2>1, <2>2, <2>3
<1> QED BY <1>1, <1>3, <1>10, <1>11, <1>12 DEF CallInv

\* The frames that reach a client after the first heartbeat.
LEMMA LateArrival ==
    ASSUME TypeOK, Legs, Late, NEW c \in Client, NEW m \in net, Reaches(m, c)
    PROVE  \/ m = Released(c)
           \/ m \in {Beat(Other(c)), Across(Other(c), "TXACC"), Across(Other(c), "HEARTBEAT")}
           \/ m = Across(Other(c), "TXCNT") /\ Tried(Other(c))
           \/ /\ m = Tell(Other(c)) /\ Saved(Other(c)) = "HEARTBEAT" /\ Gone(Other(c))
              /\ route.status = "SETTED" /\ ~HasBit(c)
           \/ \E d \in Client : m = Announce(d, c) /\ route.status = Switched
<1>1. PICK d \in Client :
        \/ m \in {Released(d), Ready(d), Beat(d), Across(d, "TXACC"), Across(d, "HEARTBEAT")}
        \/ m = Up(d, "HEARTBEAT")
        \/ m = Up(d, "TXREADY")
        \/ m = Across(d, "TXCNT") /\ Tried(d)
        \/ /\ m = Tell(d) /\ Saved(d) = "HEARTBEAT" /\ Gone(d)
           /\ route.status = "SETTED" /\ ~HasBit(Other(d))
        \/ \E e \in Client : m = Announce(d, e) /\ route.status = Switched
  BY DEF Late, LateFrame
<1>2. m # Ready(d) /\ m # Up(d, "HEARTBEAT") /\ m # Up(d, "TXREADY")
  BY ReachesWhom, FramesAre
<1>3. m \in {Beat(d), Tell(d)} => d = Other(c)
  <2>1. m.to = Pub(addr[Other(d)]) => Other(d) = c
    BY ReachesWhom, OtherIs
  <2> QED BY <2>1, FramesAre, OtherIs
<1>4. \A type : m = Across(d, type) => d = Other(c)
  BY ReachesWhom, FramesAre
<1>5. m = Released(d) => d = c
  BY ReachesWhom, FramesAre
<1>6. \A e \in Client : m = Announce(d, e) => e = c
  BY ReachesWhom, FramesAre
<1> QED BY <1>1, <1>2, <1>3, <1>4, <1>5, <1>6, OtherIs

\* The same, by the type of the frame and by what it says of the path.
LEMMA LateArrivalOf ==
    ASSUME TypeOK, Legs, Late, NEW c \in Client, NEW m \in net, Reaches(m, c)
    PROVE  /\ m.type \in {"TXREL", "TXCNT", "TXACC", "HEARTBEAT"}
           /\ m.type = "TXREL" => m = Released(c)
           /\ m.type = "TXCNT" => m = Across(Other(c), "TXCNT") /\ Tried(Other(c))
           /\ m.type = "TXACC" => m = Across(Other(c), "TXACC")
           /\ m.type = "HEARTBEAT" /\ m.event \in {"INIT_NAT", "INIT_P2P"} =>
                /\ m = Tell(Other(c)) /\ Saved(Other(c)) = "HEARTBEAT" /\ Gone(Other(c))
                /\ route.status = "SETTED" /\ ~HasBit(c)
           /\ m.type = "HEARTBEAT" /\ m.event \in {"RS", "NAT", "P2P"} =>
                route.status = Switched /\ \E d \in Client : m = Announce(d, c)
<1>1. CASE m = Released(c)
  BY <1>1, FramesAre
<1>2. CASE m \in {Beat(Other(c)), Across(Other(c), "TXACC"), Across(Other(c), "HEARTBEAT")}
  BY <1>2, FramesAre
<1>3. CASE m = Across(Other(c), "TXCNT") /\ Tried(Other(c))
  BY <1>3, FramesAre
<1>4. CASE /\ m = Tell(Other(c)) /\ Saved(Other(c)) = "HEARTBEAT" /\ Gone(Other(c))
           /\ route.status = "SETTED" /\ ~HasBit(c)
  BY <1>4, FramesAre, KindsAre
<1>5. CASE \E d \in Client : m = Announce(d, c) /\ route.status = Switched
  BY <1>5, FramesAre, KindsAre
<1> QED BY <1>1, <1>2, <1>3, <1>4, <1>5, LateArrival

\* The session of a client that takes a frame and goes on as it is.
LEMMA LateIdle ==
    ASSUME TypeOK, Legs, AllReleased, Late, Informed, beats > 0,
           NEW c \in Client, NEW m \in net, Take(c, m, session[c], {}), Reaches(m, c),
           m = Released(c) => Gone(c),
           \A d \in Client : m = Announce(d, c) => session[c].peeraddr = At(Other(c))
    PROVE  CallInv'
<1>1. LateSession(c, session[c])
  BY DEF Late
<1>2. PICK none : none = {}
  OBVIOUS
<1>3. Take(c, m, session[c], none)
  BY <1>2
<1>4. /\ \A f \in none : /\ LateSends(c, session[c], f)
                         /\ \A d \in Client : InRound(f, d) => InRound(m, d)
      /\ \A f, g \in none : f = g
      /\ none # {} => m.event \notin {"NAT", "P2P"}
  BY <1>2
<1>5. /\ Gone(c) => session[c].peeraddr # Server
      /\ Tried(c) => session[c].transferring \in {Began, Proved}
      /\ Was(c, Proved) => session[c].transferring = Proved
  BY DEF Gone, Tried, Was
<1> QED BY <1>1, <1>3, <1>4, <1>5, LateTake DEF Gone

LEMMA LateTxcnt ==
    ASSUME TypeOK, Legs, AllReleased, Late, Informed, beats > 0, NEW c \in Client, Txcnt(c)
    PROVE  CallInv'
<1>1. LateSession(c, session[c]) /\ session[c] \in Session
  BY SessionFields DEF Late
<1>2. PICK m \in net :
        /\ m.type = "TXCNT" /\ Reaches(m, c) /\ session[c].transferring # "NONE"
        /\ LET s   == TxcntSession(session[c], m.from)
               acc == Frame(c, m.from, "TXACC")
           IN  CASE s.transferring = "BEGIN_RS" ->
                      Take(c, m, [s EXCEPT !.transfer = m.from, !.sched = @ \cup {"TXACC"}], acc)
                 [] s.transferring \in {"BEGIN_NAT", "READY_NAT"} ->
                      Take(c, m, [s EXCEPT !.transfer_nat = m.from], acc)
                 [] s.transferring \in {"BEGIN_P2P", "READY_P2P"} ->
                      Take(c, m, [s EXCEPT !.transfer_p2p = m.from], acc)
                 [] s.transferring \in {"READY_RS", "REL"} -> Take(c, m, s, {})
  BY DEF Txcnt
<1>3. m = Across(Other(c), "TXCNT") /\ Tried(Other(c)) /\ m.from = At(Other(c))
      /\ m.callno = Other(c) /\ m.event = "-"
  BY <1>2, LateArrivalOf, FramesAre
<1>4. Gone(c)
  <2>1. LateSession(Other(c), session[Other(c)])
    BY OtherIs DEF Late
  <2> QED BY <1>3, <2>1, OtherIs DEF LateSession, Tried, Was
<1>5. m # Released(c) /\ \A d \in Client : m # Announce(d, c)
  BY <1>2, FramesAre
<1>6. PICK s : s = TxcntSession(session[c], m.from)
  OBVIOUS
<1>7. CASE session[c].transferring = "READY_RS"
  <2>1. /\ s.transferring = "READY_RS" /\ s.sched = session[c].sched
        /\ s.transfer \in {session[c].transfer, At(Other(c))}
        /\ s.transfer_nat = session[c].transfer_nat /\ s.transfer_p2p = session[c].transfer_p2p
        /\ s.peeraddr = session[c].peeraddr /\ s.path = session[c].path
    BY <1>1, <1>3, <1>6, <1>7 DEF TxcntSession, Session
  <2>2. PICK none : none = {}
    OBVIOUS
  <2>3. Take(c, m, s, none)
    BY <1>2, <1>6, <2>1, <2>2
  <2>4. "READY_RS" \notin {Began, Proved}
    BY KindsAre
  <2>5. LateSession(c, s)
    BY <1>1, <1>4, <1>7, <2>1, <2>4 DEF LateSession, Gone
  <2>6. ~Tried(c) /\ ~Was(c, Proved)
    BY <1>7, <2>4 DEF Tried, Was
  <2>7. /\ \A f \in none : /\ LateSends(c, s, f)
                           /\ \A d \in Client : InRound(f, d) => InRound(m, d)
        /\ \A f, g \in none : f = g
        /\ none # {} => m.event \notin {"NAT", "P2P"}
    BY <2>2
  <2> QED BY <1>2, <1>4, <1>5, <2>1, <2>3, <2>5, <2>6, <2>7, LateTake DEF Gone
<1>8. CASE session[c].transferring \in {Began, Proved}
  <2>1. XferAddr(session[c], Kind) = At(Other(c))
    BY <1>1, <1>8 DEF LateSession
  <2>2. s = session[c]
    BY <1>2, <1>3, <1>6, <2>1 DEF TxcntSession, ForwardMatch, XferAddr, Kind
  <2>3. Take(c, m, session[c], Frame(c, At(Other(c)), "TXACC"))
    <3>1. CASE SameNet
      <4>1. session[c].transfer_p2p = At(Other(c))
        BY <2>1, <3>1 DEF XferAddr, Kind
      <4>2. [session[c] EXCEPT !.transfer_p2p = At(Other(c))] = session[c]
        BY <1>1, <4>1 DEF Session
      <4>3. session[c].transferring \in {"BEGIN_P2P", "READY_P2P"}
        BY <1>8, <3>1 DEF Began, Proved
      <4> QED BY <1>2, <1>3, <1>6, <2>2, <4>2, <4>3
    <3>2. CASE ~SameNet
      <4>1. session[c].transfer_nat = At(Other(c))
        BY <2>1, <3>2 DEF XferAddr, Kind
      <4>2. [session[c] EXCEPT !.transfer_nat = At(Other(c))] = session[c]
        BY <1>1, <4>1 DEF Session
      <4>3. session[c].transferring \in {"BEGIN_NAT", "READY_NAT"}
        BY <1>8, <3>2 DEF Began, Proved
      <4> QED BY <1>2, <1>3, <1>6, <2>2, <4>2, <4>3
    <3> QED BY <3>1, <3>2
  <2>4. PICK frames : frames = {Across(c, "TXACC")}
    OBVIOUS
  <2>5. Take(c, m, session[c], frames)
    BY <2>3, <2>4, FrameSent
  <2>6. \A d \in Client : InRound(Across(c, "TXACC"), d) => InRound(m, d)
    BY <1>2, <1>3, FramesAre, OtherIs DEF InRound
  <2>7. /\ \A f \in frames : /\ LateSends(c, session[c], f)
                             /\ \A d \in Client : InRound(f, d) => InRound(m, d)
        /\ \A f, g \in frames : f = g
        /\ frames # {} => m.event \notin {"NAT", "P2P"}
    BY <1>3, <2>4, <2>6 DEF LateSends
  <2>8. /\ Gone(c) => session[c].peeraddr # Server
        /\ Was(c, Proved) => session[c].transferring = Proved
    BY DEF Gone, Was
  <2> QED BY <1>1, <1>2, <1>5, <1>8, <2>5, <2>7, <2>8, LateTake
<1> QED BY <1>1, <1>7, <1>8 DEF LateSession

LEMMA LateTxacc ==
    ASSUME TypeOK, Legs, AllReleased, Late, Informed, beats > 0, NEW c \in Client, Txacc(c)
    PROVE  CallInv'
<1>1. LateSession(c, session[c]) /\ session[c] \in Session
  BY SessionFields DEF Late
<1>2. PICK s : s = [StopTransfer(session[c]) EXCEPT !.transferring = Answered(@)]
  OBVIOUS
<1>3. PICK m \in net :
        /\ m.type = "TXACC" /\ Reaches(m, c)
        /\ IF s.transferring = session[c].transferring
           THEN Take(c, m, s, {})
           ELSE Take(c, m, IF s.transferring = "READY_RS"
                           THEN [s EXCEPT !.sched = {"TXREADY"}] ELSE s,
                     Frame(c, s.peeraddr, "TXREADY"))
  BY <1>2 DEF Txacc, Arrives
<1>4. m = Across(Other(c), "TXACC") /\ m.callno = Other(c) /\ m.event = "-"
  BY <1>3, LateArrivalOf, FramesAre
<1>5. m # Released(c) /\ \A d \in Client : m # Announce(d, c)
  BY <1>3, FramesAre
<1>6. /\ s.transferring = Answered(session[c].transferring) /\ s.sched = {}
      /\ s.transfer = session[c].transfer
      /\ s.transfer_nat = session[c].transfer_nat /\ s.transfer_p2p = session[c].transfer_p2p
      /\ s.peeraddr = session[c].peeraddr /\ s.path = session[c].path
  BY <1>1, <1>2 DEF StopTransfer, Session
<1>7. CASE session[c].transferring \in {"READY_RS", Proved}
  <2>1. s.transferring = session[c].transferring
    BY <1>6, <1>7, KindsAre DEF Answered
  <2>2. s = session[c]
    <3>1. session[c].sched = {}
      BY <1>1 DEF LateSession
    <3> QED BY <1>1, <1>2, <1>6, <2>1, <3>1 DEF StopTransfer, Session
  <2>3. Take(c, m, session[c], {})
    BY <1>3, <2>1, <2>2
  <2> QED BY <1>3, <1>5, <2>3, LateIdle
<1>8. CASE session[c].transferring = Began
  <2>1. s.transferring = Proved /\ Proved \notin {Began, "READY_RS"}
    BY <1>6, <1>8 DEF Answered, Began, Proved
  <2>2. Take(c, m, s, Frame(c, s.peeraddr, "TXREADY"))
    BY <1>3, <1>8, <2>1
  <2>3. ~HasBit(c) /\ route.status # Switched /\ ~Was(c, Proved)
    BY <1>1, <1>8, <2>1 DEF LateSession, Was
  <2>4. XferAddr(s, Kind) = XferAddr(session[c], Kind)
    BY <1>6 DEF XferAddr
  <2>5. LateSession(c, s)
    BY <1>1, <1>6, <1>8, <2>1, <2>3, <2>4 DEF LateSession
  <2>6. PICK f : f = IF s.peeraddr = Server THEN Ready(c) ELSE Up(c, "TXREADY")
    OBVIOUS
  <2>7. s.peeraddr \in {Server, RS}
    BY <2>3, <2>5 DEF LateSession
  <2>8. Frame(c, s.peeraddr, "TXREADY") = {f}
    BY <2>6, <2>7, FrameSent, PlacesDiffer
  <2>9. LateSends(c, s, f)
    BY <2>1, <2>6 DEF LateSends
  <2>10. \A d \in Client : InRound(f, d) => InRound(m, d)
    <3>1. f.type = "TXREADY" /\ f.callno = c /\ f.event = "-"
      BY <2>6, FramesAre
    <3> QED BY <1>3, <1>4, <3>1, OtherIs DEF InRound
  <2>11. PICK frames : frames = {f}
    OBVIOUS
  <2>12. Take(c, m, s, frames)
    BY <2>2, <2>8, <2>11
  <2>13. /\ \A g \in frames : /\ LateSends(c, s, g)
                              /\ \A d \in Client : InRound(g, d) => InRound(m, d)
         /\ \A g, h \in frames : g = h
         /\ frames # {} => m.event \notin {"NAT", "P2P"}
    BY <1>4, <2>9, <2>10, <2>11
  <2> QED BY <1>3, <1>5, <1>6, <2>1, <2>3, <2>5, <2>12, <2>13, LateTake DEF Gone
<1> QED BY <1>1, <1>7, <1>8 DEF LateSession

LEMMA LateTxrel ==
    ASSUME TypeOK, Legs, AllReleased, Late, Informed, beats > 0, NEW c \in Client, Txrel(c)
    PROVE  CallInv'
<1>1. LateSession(c, session[c]) /\ session[c] \in Session
  BY SessionFields DEF Late
<1>2. PICK s : s = CompleteTransfer(session[c], "RS")
  OBVIOUS
<1>3. PICK m \in net :
        /\ m.type = "TXREL" /\ Reaches(m, c) /\ ForwardMatch(session[c], m.from)
        /\ session[c].transferring # "NONE" => Take(c, m, s, {})
  BY <1>2 DEF Txrel, Arrives
<1>4. m = Released(c) /\ m.from = Server /\ \A d \in Client : m # Announce(d, c)
  BY <1>3, LateArrivalOf, FramesAre
<1>5. session[c].peeraddr = Server
  BY <1>1, <1>3, <1>4, PlacesDiffer, AtIs DEF ForwardMatch, LateSession
<1>6. session[c].transfer = RS
  BY <1>1, <1>5 DEF LateSession
<1>7. /\ s.peeraddr = RS /\ s.sched = {} /\ s.path = "RS" /\ s.transfer = RS
      /\ s.transferring = session[c].transferring
      /\ s.transfer_nat = session[c].transfer_nat /\ s.transfer_p2p = session[c].transfer_p2p
  BY <1>1, <1>2, <1>6 DEF CompleteTransfer, StopTransfer, XferAddr, Session
<1>8. XferAddr(s, Kind) = XferAddr(session[c], Kind)
  BY <1>6, <1>7 DEF XferAddr
<1>9. ~HasBit(c) /\ route.status # Switched
  BY <1>1, <1>5 DEF LateSession
<1>10. LateSession(c, s)
  BY <1>1, <1>7, <1>8, <1>9, AtIs DEF LateSession
<1>11. session[c].transferring # "NONE"
  BY <1>1, KindsAre DEF LateSession
<1>12. PICK none : none = {}
  OBVIOUS
<1>13. Take(c, m, s, none)
  BY <1>3, <1>11, <1>12
<1>14. /\ \A g \in none : /\ LateSends(c, s, g)
                          /\ \A d \in Client : InRound(g, d) => InRound(m, d)
       /\ \A g, h \in none : g = h
       /\ none # {} => m.event \notin {"NAT", "P2P"}
  BY <1>12
<1>15. /\ s.peeraddr # Server /\ session[c].peeraddr # At(Other(c))
       /\ Tried(c) => s.transferring \in {Began, Proved}
       /\ Was(c, Proved) => s.transferring = Proved
  BY <1>5, <1>7, PlacesDiffer, AtIs DEF Tried, Was
<1> QED BY <1>3, <1>4, <1>9, <1>10, <1>13, <1>14, <1>15, LateTake

LEMMA LateInit ==
    ASSUME TypeOK, Legs, AllReleased, Late, Informed, beats > 0, NEW c \in Client,
           HeartbeatInitNat(c) \/ HeartbeatInitP2p(c)
    PROVE  CallInv'
<1>1. LateSession(c, session[c]) /\ session[c] \in Session
  BY SessionFields DEF Late
<1>2. PICK viaNat, viaP2p :
        /\ viaNat = [session[c] EXCEPT !.transferring = "BEGIN_NAT",
                                       !.transfer_nat = Pub(addr[Other(c)])]
        /\ viaP2p = [session[c] EXCEPT !.transferring = "BEGIN_P2P",
                                       !.transfer_p2p = Lan(addr[Other(c)])]
  OBVIOUS
<1>3. PICK m \in net :
        /\ m.type = "HEARTBEAT" /\ Reaches(m, c)
        /\ \/ /\ m.event = "INIT_NAT"
              /\ Take(c, m, [session[c] EXCEPT !.transferring = "BEGIN_NAT",
                                               !.transfer_nat = Pub(m.at)],
                      Frame(c, Pub(m.at), "TXCNT"))
           \/ /\ m.event = "INIT_P2P"
              /\ Take(c, m, [session[c] EXCEPT !.transferring = "BEGIN_P2P",
                                               !.transfer_p2p = Lan(m.at)],
                      Frame(c, Lan(m.at), "TXCNT"))
  BY DEF HeartbeatInitNat, HeartbeatInitP2p, Arrives
<1>4. /\ m = Tell(Other(c)) /\ Saved(Other(c)) = "HEARTBEAT" /\ Gone(Other(c))
      /\ route.status = "SETTED" /\ ~HasBit(c)
  BY <1>3, LateArrivalOf
<1>5. m.at = addr[Other(c)] /\ m.event = TryDirect /\ m.callno = Other(c)
  BY <1>4, FramesAre
<1>6. m # Released(c) /\ \A d \in Client : m # Announce(d, c)
  BY <1>3, <1>5, FramesAre, KindsAre
<1>7. route.status # Switched
  BY <1>4, KindsAre
<1>8. PICK s : s = IF SameNet THEN viaP2p ELSE viaNat
  OBVIOUS
<1>9. Take(c, m, s, Frame(c, At(Other(c)), "TXCNT"))
  <2>1. CASE SameNet
    BY <1>2, <1>3, <1>5, <1>8, <2>1 DEF At, TryDirect
  <2>2. CASE ~SameNet
    BY <1>2, <1>3, <1>5, <1>8, <2>2 DEF At, TryDirect
  <2> QED BY <2>1, <2>2
<1>10. /\ s.transferring = Began /\ XferAddr(s, Kind) = At(Other(c))
       /\ s.sched = session[c].sched /\ s.transfer = session[c].transfer
       /\ s.transfer_nat \in {session[c].transfer_nat, At(Other(c))}
       /\ s.transfer_p2p \in {session[c].transfer_p2p, At(Other(c))}
       /\ s.peeraddr = session[c].peeraddr /\ s.path = session[c].path
  <2>1. CASE SameNet
    BY <1>1, <1>2, <1>8, <2>1 DEF At, Began, Kind, XferAddr, Session
  <2>2. CASE ~SameNet
    BY <1>1, <1>2, <1>8, <2>2 DEF At, Began, Kind, XferAddr, Session
  <2> QED BY <2>1, <2>2
<1>11. LateSession(c, s)
  BY <1>1, <1>4, <1>7, <1>10, AtIs DEF LateSession
<1>12. Up(c, "TXREADY") \notin net
  <2>1. InRound(m, Other(c))
    BY <1>3, <1>5, KindsAre DEF InRound
  <2>2. InRound(Up(c, "TXREADY"), Other(c)) /\ Up(c, "TXREADY") # m
    BY <1>3, FramesAre, OtherIs DEF InRound
  <2>3. m.event \notin {"NAT", "P2P"}
    BY <1>5, KindsAre
  <2> QED BY <2>1, <2>2, <2>3, OtherIs DEF Late, Single
<1>13. PICK frames : frames = {Across(c, "TXCNT")}
  OBVIOUS
<1>14. Take(c, m, s, frames)
  BY <1>9, <1>13, FrameSent
<1>15. \A d \in Client : InRound(Across(c, "TXCNT"), d) => InRound(m, d)
  BY <1>3, <1>5, FramesAre, KindsAre, OtherIs DEF InRound
<1>16. /\ \A f \in frames : /\ LateSends(c, s, f)
                            /\ \A d \in Client : InRound(f, d) => InRound(m, d)
       /\ \A f, g \in frames : f = g
       /\ frames # {} => m.event \notin {"NAT", "P2P"}
  BY <1>5, <1>10, <1>13, <1>15, KindsAre DEF LateSends
<1>17. s.transferring \in {Began, Proved}
  BY <1>10
<1> QED BY <1>3, <1>6, <1>10, <1>11, <1>12, <1>14, <1>16, <1>17, LateTake DEF Gone

LEMMA LateSwitch ==
    ASSUME TypeOK, Legs, AllReleased, Late, Informed, beats > 0, NEW c \in Client,
           HeartbeatSwitch(c)
    PROVE  CallInv'
<1>1. LateSession(c, session[c]) /\ session[c] \in Session
  BY SessionFields DEF Late
<1>2. PICK m \in net :
        /\ m.type = "HEARTBEAT" /\ m.event \in {"RS", "NAT", "P2P"} /\ Reaches(m, c)
        /\ Take(c, m, CompleteTransfer(session[c], m.event), {})
  BY DEF HeartbeatSwitch, Arrives
<1>3. route.status = Switched /\ \E d \in Client : m = Announce(d, c)
  BY <1>2, LateArrivalOf
<1>4. m.event = Kind /\ m # Released(c)
  BY <1>2, <1>3, FramesAre
<1>5. session[c].transferring = Proved /\ XferAddr(session[c], Kind) = At(Other(c))
  BY <1>1, <1>3 DEF LateSession
<1>6. PICK s : s = CompleteTransfer(session[c], Kind)
  OBVIOUS
<1>7. /\ s.peeraddr = At(Other(c)) /\ s.sched = {} /\ s.path = Kind
      /\ s.transferring = Proved /\ s.transfer = session[c].transfer
      /\ s.transfer_nat = session[c].transfer_nat /\ s.transfer_p2p = session[c].transfer_p2p
  <2>1. PICK a, k : a = XferAddr(session[c], Kind) /\ k = Kind
    OBVIOUS
  <2>2. s = [[session[c] EXCEPT !.sched = {}] EXCEPT !.peeraddr = a, !.path = k]
    BY <1>6, <2>1 DEF CompleteTransfer, StopTransfer
  <2> QED BY <1>1, <1>5, <2>1, <2>2 DEF Session
<1>8. XferAddr(s, Kind) = XferAddr(session[c], Kind)
  BY <1>7, KindsAre DEF XferAddr
<1>9. LateSession(c, s)
  BY <1>1, <1>3, <1>5, <1>7, <1>8, AtIs DEF LateSession
<1>10. PICK none : none = {}
  OBVIOUS
<1>11. Take(c, m, s, none)
  BY <1>2, <1>4, <1>6, <1>10
<1>12. /\ \A g \in none : /\ LateSends(c, s, g)
                          /\ \A d \in Client : InRound(g, d) => InRound(m, d)
       /\ \A g, h \in none : g = h
       /\ none # {} => m.event \notin {"NAT", "P2P"}
  BY <1>10
<1>13. s.peeraddr # Server
  BY <1>7, AtIs
<1> QED BY <1>2, <1>4, <1>7, <1>9, <1>11, <1>12, <1>13, LateTake

\* A frame that says nothing, or finds no session.
LEMMA LateNoSession ==
    ASSUME TypeOK, Legs, AllReleased, Late, Informed, beats > 0, NEW c \in Client,
           Txreq(c) \/ Txready(c) \/ HeartbeatNone(c) \/ NoSession(c)
    PROVE  CallInv'
<1>1. ~Txreq(c) /\ ~Txready(c)
  BY LateArrivalOf DEF Txreq, Txready, Arrives
<1>2. LateSession(c, session[c])
  BY DEF Late
<1>3. CASE HeartbeatNone(c)
  <2>1. PICK m \in net : /\ m.type = "HEARTBEAT" /\ m.event \in {"NONE", "-", "INIT_P2P"} /\ Reaches(m, c)
                         /\ Take(c, m, session[c], {})
    BY <1>3 DEF HeartbeatNone, Arrives
  <2>2. m # Released(c) /\ \A d \in Client : m # Announce(d, c)
    BY <2>1, FramesAre, KindsAre
  <2> QED BY <2>1, <2>2, LateIdle
<1>4. CASE NoSession(c)
  <2>1. PICK m \in net : /\ Reaches(m, c) /\ Take(c, m, session[c], {})
                         /\ m.type # "TXCNT" => ~ForwardMatch(session[c], m.from)
    BY <1>4 DEF NoSession
  <2>2. m = Released(c) => Gone(c)
    BY <2>1, FramesAre DEF ForwardMatch, Gone
  <2>3. ASSUME NEW d \in Client, m = Announce(d, c) PROVE session[c].peeraddr = At(Other(c))
    <3>1. m.type = "HEARTBEAT" /\ m.event \in {"NAT", "P2P"} /\ m.from = RS
      BY <2>3, FramesAre, KindsAre
    <3>2. route.status = Switched
      BY <2>1, <3>1, LateArrivalOf
    <3>3. session[c].peeraddr \notin {Server, RS}
      BY <1>2, <2>1, <3>1, <3>2 DEF LateSession, ForwardMatch
    <3> QED BY <1>2, <3>3 DEF LateSession
  <2> QED BY <2>1, <2>2, <2>3, LateIdle
<1> QED BY <1>1, <1>3, <1>4

\* A step that leaves the sessions and the route as they are.
LEMMA LateNetwork ==
    ASSUME Legs, AllReleased, Late, Informed, beats > 0, NEW gone,
           net \ net' \subseteq {gone}, \A m \in net' \ net : LateFrame(m),
           UNCHANGED <<session, addr, ready, relayTables>>,
           beats' > 0, Single',
           \A c \in Client : gone # Released(c),
           \/ lost' # 0
           \/ lost' = lost /\ \A c, d \in Client : gone # Announce(d, c)
    PROVE  CallInv'
<1>1. /\ route' = route /\ Legs' /\ Switched' = Switched /\ Kind' = Kind
      /\ Began' = Began /\ Proved' = Proved
      /\ \A d : /\ At(d)' = At(d) /\ Released(d)' = Released(d) /\ Ready(d)' = Ready(d)
                /\ Tell(d)' = Tell(d) /\ Beat(d)' = Beat(d)
                /\ \A type : Up(d, type)' = Up(d, type) /\ Across(d, type)' = Across(d, type)
                /\ \A e : Announce(d, e)' = Announce(d, e)
                /\ (HasBit(d)' <=> HasBit(d)) /\ Saved(d)' = Saved(d)
  BY RouteStays, FramesStay
<1>2. \A d : (Gone(d)' <=> Gone(d)) /\ \A x : Was(d, x)' <=> Was(d, x)
  BY DEF Gone, Was
<1>3. \A d : Tried(d)' <=> Tried(d)
  BY <1>1, <1>2 DEF Tried
<1>4. ASSUME NEW d \in Client PROVE LateSession(d, session[d])'
  <2>1. LateSession(d, session[d])
    BY DEF Late
  <2> QED BY <1>1, <1>2, <2>1 DEF LateSession
<1>5. ASSUME NEW m \in net' PROVE LateFrame(m)'
  <2>1. LateFrame(m)
    BY DEF Late
  <2> QED BY <1>1, <1>2, <1>3, <2>1 DEF LateFrame
<1>6. Late'
  BY <1>1, <1>4, <1>5 DEF Late
<1>7. AllReleased'
  BY <1>1, <1>2 DEF AllReleased
<1>8. Informed'
  <2> SUFFICES ASSUME route.status = Switched, lost' = 0, NEW d \in Client
               PROVE  \/ session[d].peeraddr = At(Other(d))
                      \/ \E e \in Client : Announce(e, d) \in net'
    BY <1>1 DEF Informed
  <2>1. \/ session[d].peeraddr = At(Other(d))
        \/ \E e \in Client : Announce(e, d) \in net
    BY DEF Informed
  <2> QED BY <2>1
<1> QED BY <1>1, <1>6, <1>7, <1>8 DEF CallInv

LEMMA LateHeartbeat ==
    ASSUME TypeOK, Legs, AllReleased, Late, Informed, beats > 0, NEW c \in Client,
           SendRsHeartbeat(c)
    PROVE  CallInv'
<1>1. /\ Gone(c) /\ UnderWay(c) = {} /\ beats' = beats + 1
      /\ net' = net \cup Frame(c, session[c].transfer, "HEARTBEAT")
      /\ UNCHANGED <<session, addr, ready, lost, moves, relayTables>>
  BY DEF SendRsHeartbeat, Gone
<1>2. session[c].transfer \in {RS, At(Other(c))}
  BY DEF Late, LateSession
<1>3. PICK f : f = IF session[c].transfer = RS THEN Up(c, "HEARTBEAT") ELSE Across(c, "HEARTBEAT")
  OBVIOUS
<1>4. net' = net \cup {f}
  BY <1>1, <1>2, <1>3, FrameSent
<1>5. f.type = "HEARTBEAT" /\ f.callno = c /\ f.event = "-" /\ LateFrame(f)
  BY <1>1, <1>3, FramesAre DEF LateFrame
<1>6. \A d \in Client : InRound(f, d) => d = c
  BY <1>5 DEF InRound
<1>7. \A m \in net : ~InRound(m, c)
  BY <1>1 DEF InRound, UnderWay
<1>8. Single'
  BY <1>4, <1>6, <1>7 DEF Single, Late
<1>9. beats' > 0
  BY <1>1 DEF TypeOK
<1>10. \A d \in Client, e \in Client : Released(d) # f /\ Announce(e, d) # f
  BY <1>5, FramesAre, KindsAre
<1>11. net \ net' \subseteq {f} /\ \A m \in net' \ net : LateFrame(m)
  BY <1>4, <1>5
<1> QED BY <1>1, <1>8, <1>9, <1>10, <1>11, LateNetwork

LEMMA LateLose ==
    ASSUME TypeOK, Legs, AllReleased, Late, Informed, beats > 0, Lose
    PROVE  CallInv'
<1>1. PICK m \in net :
        /\ m.from # Server /\ net' = net \ {m}
        /\ IF m.to \in Direct /\ m.from \in Direct THEN UNCHANGED lost
           ELSE lost < MaxLost /\ lost' = lost + 1
        /\ UNCHANGED <<session, addr, ready, beats, moves, relayTables>>
  BY DEF Lose
<1>2. Single'
  BY <1>1 DEF Late, Single
<1>3. \A c \in Client : m # Released(c)
  BY <1>1, FramesAre
<1>4. ASSUME lost' # lost PROVE lost' # 0
  BY <1>1, <1>4 DEF TypeOK
<1>5. ASSUME lost' = lost, NEW c \in Client, NEW d \in Client PROVE m # Announce(d, c)
  <2>1. m.from \in Direct
    BY <1>1, <1>5, TransferAssumption DEF TypeOK
  <2> QED BY <2>1, FramesAre, PlacesAre
<1>6. net \ net' \subseteq {m} /\ net' \ net = {}
  BY <1>1
<1> QED BY <1>1, <1>2, <1>3, <1>4, <1>5, <1>6, LateNetwork

LEMMA LateServerTxready ==
    ASSUME TypeOK, Legs, AllReleased, Late, Informed, beats > 0, NEW c \in Client,
           ServerTxready(c)
    PROVE  CallInv'
<1>1. PICK m \in net :
        /\ m.to = Server /\ m.callno = c
        /\ ready' = ready \cup {c}
        /\ session' = [session EXCEPT ![c].sched = @ \ {"TXREADY"}]
        /\ ready = Client => net' = net \ {m}
        /\ UNCHANGED <<addr, bounds, relayTables>>
  BY DEF ServerTxready
<1>2. ready = Client /\ ready' = ready /\ net' = net \ {m}
  BY <1>1 DEF Late
<1>3. session[c].sched = {} /\ session[c] \in Session
  BY SessionFields DEF Late, LateSession
<1>4. [session[c] EXCEPT !.sched = @ \ {"TXREADY"}] = session[c]
  BY <1>3 DEF Session
<1>5. session' = session
  BY <1>1, <1>4 DEF TypeOK
<1>6. Single'
  BY <1>2 DEF Late, Single
<1>7. \A d, e \in Client : m # Released(d) /\ m # Announce(e, d)
  BY <1>1, FramesAre, PlacesDiffer
<1>8. net \ net' \subseteq {m} /\ net' \ net = {}
  BY <1>2
<1> QED BY <1>1, <1>2, <1>5, <1>6, <1>7, <1>8, LateNetwork DEF bounds

\* What the relay knows of two joined legs.
LEMMA JoinedIs ==
    ASSUME TypeOK, Legs, Joined, NEW c \in Client
    PROVE  /\ Left(c) <=> ~Left(Other(c))
           /\ LegAddr(c) = addr[c] /\ PeerOf(c) = addr[Other(c)]
           /\ Relay!IsLeft(1, addr[c], c) <=> Left(c)
           /\ Relay!SameIp(route) <=> SameNet
           /\ addr[c] \in Addr /\ addr[c] # NoAddr
           /\ {LegBit(d) : d \in Client} = {LegBit(c), LegBit(Other(c))}
           /\ LegBit(c) # LegBit(Other(c))
           /\ {LegBit(d) : d \in Client} = (IF SameNet THEN Relay!P2pBits ELSE Relay!NatBits)
<1>1. PICK l \in Client : l = route.l_callno
  BY DEF Joined
<1>2. /\ route.r_callno = Other(l) /\ route.l_addr = addr[l] /\ route.r_addr = addr[Other(l)]
      /\ Other(l) \in Client /\ Other(l) # l /\ (c = l \/ c = Other(l)) /\ Other(Other(l)) = l
  BY <1>1, OtherIs DEF Joined
<1>3. Left(c) <=> c = l
  BY <1>1 DEF Left
<1>4. Left(Other(c)) <=> Other(c) = l
  BY <1>1 DEF Left
<1>5. Left(c) <=> ~Left(Other(c))
  BY <1>2, <1>3, <1>4
<1>6. LegAddr(c) = addr[c] /\ PeerOf(c) = addr[Other(c)]
  BY <1>2, <1>3 DEF LegAddr, PeerOf
<1>7. Relay!IsLeft(1, addr[c], c) <=> Left(c)
  BY <1>1, <1>2, <1>3 DEF Relay!IsLeft, route
<1>8. Relay!SameIp(route) <=> Ip[addr[l]] = Ip[addr[Other(l)]]
  BY <1>2 DEF Relay!SameIp
<1>9. \A d \in Client : d = l \/ d = Other(l)
  BY OtherIs
<1>10. Relay!SameIp(route) <=> SameNet
  BY <1>2, <1>8, <1>9 DEF SameNet
<1>11. addr[c] \in Addr /\ addr[c] # NoAddr
  BY TransferAssumption DEF TypeOK
<1>12. \A d \in Client : d = c \/ d = Other(c)
  BY OtherIs
<1>13. {LegBit(d) : d \in Client} = {LegBit(c), LegBit(Other(c))}
  BY <1>12, OtherIs
<1>14. LegBit(c) # LegBit(Other(c)) /\ {LegBit(c), LegBit(Other(c))} =
                                         (IF SameNet THEN Relay!P2pBits ELSE Relay!NatBits)
  BY <1>5 DEF LegBit, Relay!P2pBits, Relay!NatBits
<1> QED BY <1>5, <1>6, <1>7, <1>10, <1>11, <1>13, <1>14

\* The relay's own steps after the first heartbeat.
LEMMA LateRelayStep ==
    ASSUME AllReleased, Late, beats > 0, NEW m \in net, m.to = RS, net \ net' \subseteq {m},
           UNCHANGED <<session, addr, ready, bounds>>,
           Legs', route'.status \in {"SETTED", Switched},
           route.status = Switched => route'.status = Switched,
           \A c \in Client : Saved(c) = "HEARTBEAT" => Saved(c)' = "HEARTBEAT",
           \A c \in Client : HasBit(c)' \/ route'.status = Switched => Was(c, Proved) /\ Gone(c),
           \A c \in Client : Tell(c) \in net \cap net' =>
                route'.status = "SETTED" /\ ~HasBit(Other(c))',
           \A f \in net' \ net : LateFrame(f)',
           Single', Informed'
    PROVE  CallInv'
<1>1. /\ Switched' = Switched /\ Kind' = Kind /\ Began' = Began /\ Proved' = Proved
      /\ \A d : /\ At(d)' = At(d) /\ Released(d)' = Released(d) /\ Ready(d)' = Ready(d)
                /\ Tell(d)' = Tell(d) /\ Beat(d)' = Beat(d)
                /\ \A type : Up(d, type)' = Up(d, type) /\ Across(d, type)' = Across(d, type)
                /\ \A e : Announce(d, e)' = Announce(d, e)
  BY FramesStay
<1>2. \A d : (Gone(d)' <=> Gone(d)) /\ \A x : Was(d, x)' <=> Was(d, x)
  BY DEF Gone, Was
<1>3. \A d : Tried(d)' <=> Tried(d)
  BY <1>1, <1>2 DEF Tried
<1>4. ASSUME NEW d \in Client PROVE LateSession(d, session[d])'
  <2>1. LateSession(d, session[d])
    BY DEF Late
  <2>2. Saved(Other(d)) = "HEARTBEAT" => Saved(Other(d))' = "HEARTBEAT"
    BY OtherIs
  <2>3. HasBit(d)' \/ route'.status = Switched =>
          session[d].transferring = Proved /\ session[d].peeraddr # Server
    BY DEF Was, Gone
  <2> QED BY <1>1, <1>2, <2>1, <2>2, <2>3 DEF LateSession
<1>5. ASSUME NEW x \in net' PROVE LateFrame(x)'
  <2>1. CASE x \in net
    <3>1. LateFrame(x)
      BY <2>1 DEF Late
    <3>2. PICK d \in Client :
            \/ x \in {Released(d), Ready(d), Beat(d), Across(d, "TXACC"), Across(d, "HEARTBEAT")}
            \/ x = Up(d, "HEARTBEAT") /\ Gone(d)
            \/ x = Up(d, "TXREADY") /\ Was(d, Proved) /\ Gone(d)
            \/ x = Across(d, "TXCNT") /\ Tried(d)
            \/ x = Tell(d) /\ Saved(d) = "HEARTBEAT" /\ Gone(d)
            \/ \E e \in Client : x = Announce(d, e) /\ route.status = Switched
      BY <3>1 DEF LateFrame
    <3>3. x = Tell(d) => route'.status = "SETTED" /\ ~HasBit(Other(d))'
      BY <1>5, <2>1
    <3> QED BY <1>1, <1>2, <1>3, <3>2, <3>3 DEF LateFrame
  <2>2. CASE x \notin net
    BY <1>5, <2>2
  <2> QED BY <2>1, <2>2
<1>6. Late'
  BY <1>1, <1>4, <1>5 DEF Late
<1>7. AllReleased'
  <2> SUFFICES ASSUME ready = Client, NEW c \in Client PROVE Gone(c)' \/ Released(c) \in net'
    BY <1>1 DEF AllReleased
  <2>1. Gone(c) \/ Released(c) \in net
    BY DEF AllReleased
  <2>2. Released(c) # m
    BY FramesAre, PlacesDiffer
  <2> QED BY <1>2, <2>1, <2>2
<1> QED BY <1>6, <1>7 DEF CallInv, bounds

\* The relay tells a client to try the direct path only while the other one has not.
LEMMA ToldIs ==
    ASSUME Late, NEW c \in Client, Tell(c) \in net
    PROVE  route.status = "SETTED" /\ ~HasBit(Other(c))
<1>1. PICK x : x = Tell(c)
  OBVIOUS
<1>2. /\ x.from = RS /\ x.type = "HEARTBEAT" /\ x.event \in {"INIT_NAT", "INIT_P2P"}
      /\ x.callno = c
  BY <1>1, FramesAre, KindsAre
<1>3. PICK b \in Client :
        \/ x \in {Released(b), Ready(b), Beat(b), Across(b, "TXACC"), Across(b, "HEARTBEAT")}
        \/ x = Up(b, "HEARTBEAT") /\ Gone(b)
        \/ x = Up(b, "TXREADY") /\ Was(b, Proved) /\ Gone(b)
        \/ x = Across(b, "TXCNT") /\ Tried(b)
        \/ /\ x = Tell(b) /\ Saved(b) = "HEARTBEAT" /\ Gone(b)
           /\ route.status = "SETTED" /\ ~HasBit(Other(b))
        \/ \E g \in Client : x = Announce(b, g) /\ route.status = Switched
  BY <1>1 DEF Late, LateFrame
<1>4. \A g : x \notin {Released(g), Ready(g), Beat(g), Up(g, "HEARTBEAT"), Up(g, "TXREADY")}
  BY <1>2, FramesAre, PlacesDiffer
<1>5. \A g : x \notin {Across(g, "TXACC"), Across(g, "HEARTBEAT"), Across(g, "TXCNT")}
  BY <1>2, FramesAre, PlacesDiffer, AtIs
<1>6. \A g, h : x # Announce(g, h)
  BY <1>2, FramesAre, KindsAre
<1>7. x = Tell(b) => b = c
  BY <1>2, FramesAre
<1> QED BY <1>3, <1>4, <1>5, <1>6, <1>7

LEMMA LateRelayHeartbeat ==
    ASSUME TypeOK, Legs, AllReleased, Late, Informed, beats > 0,
           NEW c \in Client, Up(c, "HEARTBEAT") \in net, Gone(c),
           RelayAction(addr[c], c, "HEARTBEAT"),
           net' = (net \ {Up(c, "HEARTBEAT")}) \cup {Sent(Up(c, "HEARTBEAT"), d) : d \in out'},
           UNCHANGED <<session, addr, ready, bounds>>
    PROVE  CallInv'
<1>1. Joined /\ rti # 0 /\ route.token = RelayToken /\ route.status \in {"SETTED", Switched}
  BY KindsAre DEF Late, Legs
<1>2. PICK m : m = Up(c, "HEARTBEAT")
  OBVIOUS
<1>3. /\ m \in net /\ m.to = RS /\ m.from[2] = addr[c] /\ m.callno = c /\ m.type = "HEARTBEAT"
      /\ m.event = "-" /\ net' = (net \ {m}) \cup {Sent(m, d) : d \in out'}
  BY <1>2, FramesAre, PlacesDiffer
<1>4. /\ addr[c] \in Addr /\ LegAddr(c) = addr[c] /\ PeerOf(c) = addr[Other(c)]
      /\ (Relay!SameIp(route) <=> SameNet) /\ (Left(c) <=> ~Left(Other(c)))
      /\ addr[Other(c)] \in Addr /\ addr[Other(c)] # NoAddr
  BY <1>1, JoinedIs, OtherIs
<1>5. /\ Becomes(Beaten(c)) /\ UNCHANGED <<nroutes, rti, index>>
      /\ out' = Relay!Sendto(PeerOf(c), "HEARTBEAT", Relay!HeartbeatEvent(route))
  BY <1>1, <1>4, RelayHeartbeat
<1>6. PICK event : event = Relay!HeartbeatEvent(route)
  OBVIOUS
<1>7. event = IF route.status = "SETTED" THEN TryDirect ELSE "NONE"
  BY <1>1, <1>4, <1>6, KindsAre DEF Relay!HeartbeatEvent, TryDirect
<1>8. PICK d : d = [to |-> addr[Other(c)], type |-> "HEARTBEAT", event |-> event]
  OBVIOUS
<1>81. d.to = addr[Other(c)] /\ d.type = "HEARTBEAT" /\ d.event = event
  BY <1>8
<1>82. out' = {d}
  BY <1>4, <1>5, <1>6, <1>8 DEF Relay!Sendto
<1>9. PICK f : f = IF route.status = "SETTED" THEN Tell(c) ELSE Beat(c)
  OBVIOUS
<1>10. Sent(m, d) = f
  <2>1. CASE route.status = "SETTED"
    BY <1>3, <1>7, <1>81, <1>9, <2>1, KindsAre DEF Sent, Tell
  <2>2. CASE route.status # "SETTED"
    BY <1>3, <1>7, <1>81, <1>9, <2>2 DEF Sent, Beat
  <2> QED BY <2>1, <2>2
<1>11. net' = (net \ {m}) \cup {f}
  BY <1>3, <1>82, <1>10
<1>12. f.type = "HEARTBEAT" /\ f.callno = c /\ f.event \notin {"NAT", "P2P"}
  BY <1>9, FramesAre, KindsAre
<1>13. Single'
  <2>1. \A e \in Client : InRound(f, e) => InRound(m, e)
    BY <1>3, <1>12 DEF InRound
  <2>2. PICK kept : kept = net \ {m}
    OBVIOUS
  <2>3. PICK frames : frames = {f}
    OBVIOUS
  <2>4. net' = kept \cup frames /\ kept \subseteq net /\ m \notin kept
    BY <1>11, <2>2, <2>3
  <2>5. \A g, h \in frames :
           g = h \/ (g.event \in {"NAT", "P2P"} /\ h.event \in {"NAT", "P2P"})
    BY <2>3
  <2>6. \A g \in frames, e \in Client : InRound(g, e) => InRound(m, e)
    BY <2>1, <2>3
  <2>7. Single /\ (frames # {} => m.event \notin {"NAT", "P2P"})
    BY <1>3 DEF Late
  <2> QED BY <1>3, <2>4, <2>5, <2>6, <2>7, RoundGoesOn, Zenon
<1>14. PICK r : r = Beaten(c)
  OBVIOUS
<1>15. /\ r \in Relay!RT_Info /\ r.status = route.status /\ r.txstatus = {}
       /\ r.token = route.token /\ r.l_addr = route.l_addr /\ r.r_addr = route.r_addr
       /\ r.l_callno = route.l_callno /\ r.r_callno = route.r_callno
       /\ r.l_pkt = IF Left(c) THEN "HEARTBEAT" ELSE route.l_pkt
       /\ r.r_pkt = IF Left(c) THEN route.r_pkt ELSE "HEARTBEAT"
  BY <1>14, OneRoute DEF Beaten, Relay!RT_Info, Relay!Pkt
<1>16. route' = r
  BY <1>5, <1>14, <1>15, OneRoute
<1>17. \A e : (Left(e)' <=> Left(e)) /\ ~HasBit(e)'
  BY <1>15, <1>16 DEF Left, HasBit
<1>18. \A e \in Client : Saved(e)' = IF e = c THEN "HEARTBEAT" ELSE Saved(e)
  BY <1>4, <1>15, <1>16, <1>17, OtherIs DEF Saved
<1>19. Joined'
  BY <1>1, <1>5, <1>15, <1>16 DEF Joined
<1>20. (SameNet' <=> SameNet) /\ Switched' = Switched /\ Tell(c)' = Tell(c) /\ Beat(c)' = Beat(c)
       /\ (\A e, g : Announce(e, g)' = Announce(e, g)) /\ (\A b : At(b)' = At(b))
  BY FramesStay
<1>21. Legs'
  BY <1>1, <1>5, <1>15, <1>16, <1>19, <1>20, KindsAre DEF Legs
<1>22. LateFrame(f)'
  <2>1. Gone(c)' /\ Saved(c)' = "HEARTBEAT" /\ ~HasBit(Other(c))' /\ route'.status = route.status
    BY <1>15, <1>16, <1>17, <1>18 DEF Gone
  <2> QED BY <1>9, <1>20, <2>1 DEF LateFrame
<1>23. Informed'
  <2>1. \A e, g \in Client : Announce(e, g) # m
    BY <1>3, FramesAre, KindsAre
  <2> QED BY <1>11, <1>15, <1>16, <1>20, <2>1 DEF Informed, bounds
<1>24. \A e \in Client : route.status = Switched => Was(e, Proved) /\ Gone(e)
  BY DEF Late, LateSession, Was, Gone
<1>25. \A e \in Client : Tell(e) \in net => route.status = "SETTED"
  BY ToldIs
<1> QED BY <1>1, <1>3, <1>11, <1>13, <1>15, <1>16, <1>17, <1>18, <1>21, <1>22, <1>23, <1>24,
           <1>25, LateRelayStep

\* The bit of one leg, and what the announcement says once both bits are there.
LEMMA ReadyBits ==
    ASSUME TypeOK, Legs, Joined, NEW c \in Client, route.status = "SETTED"
    PROVE  /\ BitsAfter(c, addr[c]) = route.txstatus \cup {LegBit(c)}
           /\ ~HasBit(Other(c)) => /\ BitsAfter(c, addr[c]) = {LegBit(c)}
                                  /\ WithBits({LegBit(c)}) =
                                       [route EXCEPT !.txstatus = {LegBit(c)}]
                                  /\ News({LegBit(c)}) = {}
           /\ HasBit(Other(c)) =>
                /\ BitsAfter(c, addr[c]) = {LegBit(d) : d \in Client}
                /\ WithBits({LegBit(d) : d \in Client}) =
                     [route EXCEPT !.txstatus = {LegBit(d) : d \in Client}, !.status = Switched]
                /\ News({LegBit(d) : d \in Client}) = Relay!Notify(route, Kind)
<1>1. /\ Relay!IsLeft(1, addr[c], c) <=> Left(c)
      /\ Relay!SameIp(route) <=> SameNet
      /\ LegBit(c) # LegBit(Other(c))
      /\ {LegBit(d) : d \in Client} = {LegBit(c), LegBit(Other(c))}
      /\ {LegBit(d) : d \in Client} = (IF SameNet THEN Relay!P2pBits ELSE Relay!NatBits)
  BY JoinedIs
<1>2. Relay!TxBit(route, Relay!IsLeft(1, addr[c], c)) = LegBit(c)
  BY <1>1 DEF Relay!TxBit, LegBit
<1>3. BitsAfter(c, addr[c]) = route.txstatus \cup {LegBit(c)}
  BY <1>2 DEF BitsAfter
<1>4. route.txstatus \subseteq {LegBit(c), LegBit(Other(c))}
  BY <1>1 DEF Legs
<1>5. Relay!NatBits # Relay!P2pBits
  BY DEF Relay!NatBits, Relay!P2pBits
<1>6. ASSUME ~HasBit(Other(c))
      PROVE  BitsAfter(c, addr[c]) = {LegBit(c)}
  BY <1>3, <1>4, <1>6 DEF HasBit
<1>7. {LegBit(c)} # Relay!NatBits /\ {LegBit(c)} # Relay!P2pBits
  BY DEF Relay!NatBits, Relay!P2pBits
<1>8. /\ WithBits({LegBit(c)}) = [route EXCEPT !.txstatus = {LegBit(c)}]
      /\ News({LegBit(c)}) = {}
  <2>1. WithBits({LegBit(c)}) = [route EXCEPT !.txstatus = {LegBit(c)}, !.status = route.status]
    BY <1>7 DEF WithBits
  <2>2. [route EXCEPT !.txstatus = {LegBit(c)}, !.status = route.status] =
          [route EXCEPT !.txstatus = {LegBit(c)}]
    BY OneRoute DEF Relay!RT_Info
  <2> QED BY <1>7, <2>1, <2>2 DEF News
<1>9. ASSUME HasBit(Other(c))
      PROVE  BitsAfter(c, addr[c]) = {LegBit(d) : d \in Client}
  BY <1>1, <1>3, <1>4, <1>9 DEF HasBit
<1>10. PICK both : both = {LegBit(d) : d \in Client}
  OBVIOUS
<1>11. /\ WithBits(both) = [route EXCEPT !.txstatus = both, !.status = Switched]
       /\ News(both) = Relay!Notify(route, Kind)
  <2>1. CASE SameNet
    BY <1>1, <1>5, <1>10, <2>1 DEF WithBits, News, Switched, Kind
  <2>2. CASE ~SameNet
    BY <1>1, <1>5, <1>10, <2>2 DEF WithBits, News, Switched, Kind
  <2> QED BY <2>1, <2>2
<1> QED BY <1>3, <1>6, <1>8, <1>9, <1>10, <1>11

LEMMA LateFirstReady ==
    ASSUME TypeOK, Legs, AllReleased, Late, beats > 0,
           NEW c \in Client, Up(c, "TXREADY") \in net, Was(c, Proved), Gone(c),
           route.status = "SETTED", ~HasBit(Other(c)),
           Becomes([route EXCEPT !.txstatus = {LegBit(c)}]),
           net' = net \ {Up(c, "TXREADY")},
           UNCHANGED <<session, addr, ready, bounds, nroutes, rti, index>>
    PROVE  CallInv'
<1>1. Joined /\ rti # 0 /\ route.token = RelayToken
  BY KindsAre DEF Legs
<1>2. PICK m : m = Up(c, "TXREADY")
  OBVIOUS
<1>3. /\ m \in net /\ m.to = RS /\ m.callno = c /\ m.type = "TXREADY" /\ m.event = "-"
      /\ net' = net \ {m}
  BY <1>2, FramesAre
<1>4. Single'
  <2>1. Single
    BY DEF Late
  <2> QED BY <1>3, <2>1 DEF Single, InRound
<1>5. PICK r : r = [route EXCEPT !.txstatus = {LegBit(c)}]
  OBVIOUS
<1>6. /\ LegBit(c) # LegBit(Other(c)) /\ LegBit(c) \in Relay!NatBits \cup Relay!P2pBits
      /\ Other(c) \in Client /\ Other(Other(c)) = c /\ \A d \in Client : d = c \/ d = Other(c)
  BY <1>1, JoinedIs, OtherIs DEF LegBit, Relay!NatBits, Relay!P2pBits
<1>7. /\ r \in Relay!RT_Info /\ r.status = "SETTED" /\ r.txstatus = {LegBit(c)}
      /\ r.token = route.token /\ r.l_addr = route.l_addr /\ r.r_addr = route.r_addr
      /\ r.l_callno = route.l_callno /\ r.r_callno = route.r_callno
      /\ r.l_pkt = route.l_pkt /\ r.r_pkt = route.r_pkt
  BY <1>5, <1>6, OneRoute DEF Relay!RT_Info
<1>8. route' = r
  BY <1>5, <1>7, OneRoute
<1>9. /\ (SameNet' <=> SameNet) /\ Switched' = Switched
  BY FramesStay
<1>10. \A e : (Left(e)' <=> Left(e)) /\ Saved(e)' = Saved(e)
  BY <1>7, <1>8 DEF Left, Saved
<1>11. \A e : LegBit(e)' = LegBit(e)
  BY <1>9, <1>10 DEF LegBit
<1>12. HasBit(c)' /\ ~HasBit(Other(c))'
  BY <1>6, <1>7, <1>8, <1>11 DEF HasBit
<1>13. Joined'
  BY <1>1, <1>7, <1>8 DEF Joined
<1>14. Legs'
  BY <1>1, <1>6, <1>7, <1>8, <1>9, <1>11, <1>13, KindsAre DEF Legs
<1>15. Tell(Other(c)) \notin net
  <2>1. PICK x : x = Tell(Other(c))
    OBVIOUS
  <2>2. x.type = "HEARTBEAT" /\ x.callno = Other(c) /\ x.event \notin {"NAT", "P2P"}
    BY <2>1, FramesAre, KindsAre
  <2>3. InRound(x, Other(c)) /\ InRound(m, Other(c)) /\ x # m
    BY <1>3, <2>2, OtherIs DEF InRound
  <2> QED BY <1>3, <1>6, <2>1, <2>2, <2>3 DEF Late, Single
<1>16. route'.status = "SETTED" /\ route.status # Switched /\ route'.status # Switched'
  BY <1>7, <1>8, <1>9, KindsAre
<1>17. Informed'
  BY <1>16 DEF Informed
<1>18. \A e \in Client : HasBit(e)' \/ route'.status = Switched => Was(e, Proved) /\ Gone(e)
  BY <1>6, <1>9, <1>12, <1>16
<1>19. \A e \in Client : Tell(e) \in net \cap net' =>
                           route'.status = "SETTED" /\ ~HasBit(Other(e))'
  BY <1>6, <1>12, <1>15, <1>16
<1> QED BY <1>3, <1>4, <1>10, <1>14, <1>16, <1>17, <1>18, <1>19, LateRelayStep

LEMMA LateBothReady ==
    ASSUME TypeOK, Legs, AllReleased, Late, beats > 0,
           NEW c \in Client, Up(c, "TXREADY") \in net, Was(c, Proved), Gone(c),
           route.status = "SETTED", HasBit(Other(c)),
           Becomes([route EXCEPT !.txstatus = {LegBit(d) : d \in Client}, !.status = Switched]),
           out' = Relay!Notify(route, Kind),
           net' = (net \ {Up(c, "TXREADY")}) \cup {Sent(Up(c, "TXREADY"), d) : d \in out'},
           UNCHANGED <<session, addr, ready, bounds, nroutes, rti, index>>
    PROVE  CallInv'
<1>1. Joined /\ rti # 0 /\ route.token = RelayToken
  BY KindsAre DEF Legs
<1>2. PICK m : m = Up(c, "TXREADY")
  OBVIOUS
<1>3. /\ m \in net /\ m.to = RS /\ m.callno = c /\ m.type = "TXREADY" /\ m.event = "-"
      /\ net' = (net \ {m}) \cup {Sent(m, d) : d \in out'}
  BY <1>2, FramesAre
<1>4. /\ Other(c) \in Client /\ Other(c) # c /\ Other(Other(c)) = c
      /\ \A d \in Client : d = c \/ d = Other(c)
  BY OtherIs
<1>5. \A d \in Client : /\ Was(d, Proved) /\ Gone(d)
                       /\ Saved(Other(d)) = "HEARTBEAT"
  <2>1. LateSession(c, session[c]) /\ LateSession(Other(c), session[Other(c)])
    BY <1>4 DEF Late
  <2>2. Was(Other(c), Proved) /\ Gone(Other(c))
    BY <2>1 DEF LateSession, Was, Gone
  <2>3. Saved(Other(c)) = "HEARTBEAT" /\ Saved(c) = "HEARTBEAT"
    BY <1>4, <2>1, <2>2 DEF LateSession, Was
  <2> QED BY <1>4, <2>2, <2>3
<1>6. route.l_pkt = "HEARTBEAT" /\ route.r_pkt = "HEARTBEAT"
  <2>1. Left(c) <=> ~Left(Other(c))
    BY <1>1, JoinedIs
  <2>2. Saved(c) = "HEARTBEAT" /\ Saved(Other(c)) = "HEARTBEAT"
    BY <1>4, <1>5
  <2> QED BY <2>1, <2>2 DEF Saved
<1>7. PICK to_r : to_r = [to |-> route.r_addr, type |-> "HEARTBEAT", event |-> Kind]
  OBVIOUS
<1>8. PICK to_l : to_l = [to |-> route.l_addr, type |-> "HEARTBEAT", event |-> Kind]
  OBVIOUS
<1>9. PICK l \in Client : l = route.l_callno
  BY <1>1 DEF Joined
<1>10. /\ route.l_addr = addr[l] /\ route.r_addr = addr[Other(l)] /\ Other(l) \in Client
       /\ addr[l] # NoAddr /\ addr[Other(l)] # NoAddr /\ \A d \in Client : d = l \/ d = Other(l)
  BY <1>1, <1>9, OtherIs, TransferAssumption DEF Joined, TypeOK
<1>11. out' = {to_r, to_l}
  BY <1>6, <1>7, <1>8, <1>10 DEF Relay!Notify, Relay!Sendto
<1>12. Kind \notin {"INIT_NAT", "INIT_P2P"}
  BY KindsAre
<1>13. Sent(m, to_r) = Announce(c, Other(l))
  BY <1>3, <1>7, <1>10, <1>12 DEF Sent, Announce
<1>14. Sent(m, to_l) = Announce(c, l)
  BY <1>3, <1>8, <1>10, <1>12 DEF Sent, Announce
<1>15. net' = (net \ {m}) \cup {Announce(c, l), Announce(c, Other(l))}
  BY <1>3, <1>11, <1>13, <1>14
<1>16. Single'
  <2>1. PICK kept : kept = net \ {m}
    OBVIOUS
  <2>2. PICK frames : frames = {Announce(c, l), Announce(c, Other(l))}
    OBVIOUS
  <2>3. net' = kept \cup frames /\ kept \subseteq net /\ m \notin kept
    BY <1>15, <2>1, <2>2
  <2>4. \A f \in frames : f.event \in {"NAT", "P2P"} /\ f.callno = c
    BY <2>2, FramesAre, KindsAre
  <2>5. \A f, g \in frames :
           f = g \/ (f.event \in {"NAT", "P2P"} /\ g.event \in {"NAT", "P2P"})
    BY <2>4
  <2>6. \A f \in frames, e \in Client : InRound(f, e) => InRound(m, e)
    BY <1>3, <2>4 DEF InRound
  <2>7. Single /\ (frames # {} => m.event \notin {"NAT", "P2P"})
    BY <1>3 DEF Late
  <2> QED BY <1>3, <2>3, <2>5, <2>6, <2>7, RoundGoesOn, Zenon
<1>17. PICK bits : bits = {LegBit(d) : d \in Client}
  OBVIOUS
<1>18. PICK r : r = [route EXCEPT !.txstatus = bits, !.status = Switched]
  OBVIOUS
<1>19. bits \subseteq Relay!NatBits \cup Relay!P2pBits /\ Switched \in {"NATTED", "P2PED"}
  BY <1>17, KindsAre DEF LegBit, Relay!NatBits, Relay!P2pBits
<1>20. /\ r \in Relay!RT_Info /\ r.status = Switched /\ r.txstatus = bits
       /\ r.token = route.token /\ r.l_addr = route.l_addr /\ r.r_addr = route.r_addr
       /\ r.l_callno = route.l_callno /\ r.r_callno = route.r_callno
       /\ r.l_pkt = route.l_pkt /\ r.r_pkt = route.r_pkt
  BY <1>18, <1>19, OneRoute DEF Relay!RT_Info, Relay!Status
<1>21. route' = r
  BY <1>17, <1>18, <1>20, OneRoute
<1>22. /\ (SameNet' <=> SameNet) /\ Switched' = Switched
       /\ (\A e, g : Announce(e, g)' = Announce(e, g)) /\ (\A b : At(b)' = At(b))
  BY FramesStay
<1>23. \A e : (Left(e)' <=> Left(e)) /\ Saved(e)' = Saved(e)
  BY <1>20, <1>21 DEF Left, Saved
<1>24. \A e : LegBit(e)' = LegBit(e)
  BY <1>22, <1>23 DEF LegBit
<1>25. Joined'
  BY <1>1, <1>20, <1>21 DEF Joined
<1>26. Legs'
  BY <1>1, <1>17, <1>20, <1>21, <1>22, <1>24, <1>25, KindsAre DEF Legs
<1>27. \A e \in Client : Tell(e) \notin net
  <2>1. Tell(Other(c)) \notin net
    <3>1. PICK x : x = Tell(Other(c))
      OBVIOUS
    <3>2. x.type = "HEARTBEAT" /\ x.callno = Other(c) /\ x.event \notin {"NAT", "P2P"}
      BY <3>1, FramesAre, KindsAre
    <3>3. InRound(x, Other(c)) /\ InRound(m, Other(c)) /\ x # m
      BY <1>3, <1>4, <3>2 DEF InRound
    <3> QED BY <1>3, <1>4, <3>1, <3>2, <3>3 DEF Late, Single
  <2>2. Tell(c) \notin net
    BY <1>4, ToldIs
  <2> QED BY <1>4, <2>1, <2>2
<1>28. \A f \in net' \ net : LateFrame(f)'
  <2>1. \A f \in net' \ net : f = Announce(c, l) \/ f = Announce(c, Other(l))
    BY <1>15
  <2>2. route'.status = Switched'
    BY <1>20, <1>21, <1>22
  <2> QED BY <1>9, <1>10, <1>22, <2>1, <2>2 DEF LateFrame
<1>29. Informed'
  <2>1. \A e \in Client : Announce(c, e) \in net'
    BY <1>10, <1>15
  <2> QED BY <1>22, <2>1 DEF Informed
<1>30. /\ route'.status = Switched
       /\ net \ net' \subseteq {m}
  BY <1>3, <1>20, <1>21
<1> QED BY <1>3, <1>5, <1>16, <1>23, <1>26, <1>27, <1>28, <1>29, <1>30, LateRelayStep

LEMMA LateRelayTxready ==
    ASSUME TypeOK, Legs, AllReleased, Late, Informed, beats > 0,
           NEW c \in Client, Up(c, "TXREADY") \in net, Was(c, Proved), Gone(c),
           RelayAction(addr[c], c, "TXREADY"),
           net' = (net \ {Up(c, "TXREADY")}) \cup {Sent(Up(c, "TXREADY"), d) : d \in out'},
           UNCHANGED <<session, addr, ready, bounds>>
    PROVE  CallInv'
<1>1. addr[c] \in Addr
  BY DEF TypeOK
<1>2. CASE out' = {} /\ UNCHANGED relayTables
  <2>1. PICK m : m = Up(c, "TXREADY")
    OBVIOUS
  <2>2. m.type = "TXREADY" /\ net' = net \ {m}
    BY <1>2, <2>1, FramesAre
  <2>3. Single'
    <3>1. Single
      BY DEF Late
    <3> QED BY <2>2, <3>1 DEF Single, InRound
  <2>4. net \ net' \subseteq {m} /\ \A x \in net' \ net : LateFrame(x)
    BY <2>2
  <2>5. (\A e \in Client : m # Released(e)) /\ \A e, d \in Client : m # Announce(d, e)
    BY <2>2, FramesAre
  <2>6. lost' = lost /\ beats' > 0
    BY DEF bounds
  <2> QED BY <1>2, <2>3, <2>4, <2>5, <2>6, LateNetwork
<1>3. CASE /\ Met(c, addr[c]) /\ Becomes(WithBits(BitsAfter(c, addr[c])))
           /\ out' = News(BitsAfter(c, addr[c]))
           /\ UNCHANGED <<nroutes, rti, index>>
  <2>1. route.status = "SETTED" /\ Joined
    BY <1>1, <1>3, MetIs, KindsAre DEF Late, Legs
  <2>2. CASE HasBit(Other(c))
    BY <1>3, <2>1, <2>2, ReadyBits, LateBothReady
  <2>3. CASE ~HasBit(Other(c))
    <3>1. Becomes([route EXCEPT !.txstatus = {LegBit(c)}]) /\ out' = {}
      BY <1>3, <2>1, <2>3, ReadyBits
    <3>2. net' = net \ {Up(c, "TXREADY")}
      BY <3>1
    <3> QED BY <1>3, <2>1, <2>3, <3>1, <3>2, LateFirstReady
  <2> QED BY <2>2, <2>3
<1> QED BY <1>1, <1>2, <1>3, RelayTxready

\* Once heartbeats are sent, nothing else but the TXREADY of a tried path goes up.
LEMMA LateRelay ==
    ASSUME TypeInv, Legs, AllReleased, Late, Informed, beats > 0, RelayStep
    PROVE  CallInv'
<1>1. PICK m \in net :
        /\ m.to = RS /\ RelayAction(m.from[2], m.callno, m.type)
        /\ net' = (net \ {m}) \cup {Sent(m, d) : d \in out'}
        /\ UNCHANGED <<session, addr, ready, bounds>>
  BY RelayStepIs
<1>2. PICK c \in Client :
        \/ m \in {Released(c), Ready(c), Beat(c), Across(c, "TXACC"), Across(c, "HEARTBEAT")}
        \/ m = Up(c, "HEARTBEAT") /\ Gone(c)
        \/ m = Up(c, "TXREADY") /\ Was(c, Proved) /\ Gone(c)
        \/ m = Across(c, "TXCNT") /\ Tried(c)
        \/ m = Tell(c) \/ \E d \in Client : m = Announce(c, d)
  BY DEF Late, LateFrame
<1>3. /\ m \notin {Released(c), Ready(c), Beat(c), Tell(c)}
      /\ \A d : m # Announce(c, d)
  BY <1>1, FramesAre, PlacesDiffer
<1>4. m \notin {Across(c, "TXACC"), Across(c, "HEARTBEAT"), Across(c, "TXCNT")}
  BY <1>1, FramesAre, AtIs
<1>5. TypeOK
  BY DEF TypeInv
<1>6. CASE m = Up(c, "HEARTBEAT") /\ Gone(c)
  <2>1. m.from[2] = addr[c] /\ m.callno = c /\ m.type = "HEARTBEAT"
    BY <1>6, FramesAre, PlacesDiffer
  <2> QED BY <1>1, <1>5, <1>6, <2>1, LateRelayHeartbeat
<1>7. CASE m = Up(c, "TXREADY") /\ Was(c, Proved) /\ Gone(c)
  <2>1. m.from[2] = addr[c] /\ m.callno = c /\ m.type = "TXREADY"
    BY <1>7, FramesAre, PlacesDiffer
  <2> QED BY <1>1, <1>5, <1>7, <2>1, LateRelayTxready
<1> QED BY <1>2, <1>3, <1>4, <1>6, <1>7

-----------------------------------------------------------------------------
(* The invariant of every step, and what follows from it. *)

LEMMA CallInit == Init => CallInv
<1> SUFFICES ASSUME Init PROVE CallInv
  OBVIOUS
<1>1. /\ session = [c \in Client |->
            [peeraddr |-> Server, transfer |-> Nowhere, transfer_nat |-> Nowhere,
             transfer_p2p |-> Nowhere, transferring |-> "NONE", sched |-> {},
             path |-> "SERVER"]]
      /\ \A c \in Client : addr[c] # addr[Other(c)]
      /\ ready = {} /\ net = {ServerFrame(c, "TXREQ") : c \in Client} /\ beats = 0
      /\ Relay!Init
  BY DEF Init
<1>2. rti = 0 /\ route.status = "IDEL" /\ route.txstatus = {}
  BY <1>1 DEF Relay!Init, route, Relay!RouteIds, Relay!Blank
<1>3. Legs
  BY <1>1, <1>2, KindsAre DEF Legs
<1>4. \A c \in Client : EarlySession(c, session[c])
  BY <1>1, PlacesDiffer DEF EarlySession
<1>5. \A m \in net : EarlyFrame(m)
  <2>1. \A c : ServerFrame(c, "TXREQ") = Asked(c)
    BY DEF ServerFrame, Asked, Data
  <2> QED BY <1>1, <2>1 DEF EarlyFrame, Was
<1>6. AllReleased
  <2>1. ready # Client
    BY <1>1, TransferAssumption
  <2> QED BY <2>1 DEF AllReleased
<1>7. Early
  BY <1>2, <1>4, <1>5, KindsAre DEF Early
<1>8. beats = 0 /\ ~(beats > 0)
  BY <1>1
<1> QED BY <1>3, <1>6, <1>7, <1>8 DEF CallInv

LEMMA CallStays == ASSUME CallInv, UNCHANGED vars PROVE CallInv'
<1>1. /\ UNCHANGED <<session, addr, ready, net, beats, lost>> /\ UNCHANGED relayTables
  BY DEF vars, bounds
<1>2. /\ Switched' = Switched /\ Kind' = Kind /\ Began' = Began /\ Proved' = Proved
      /\ \A c : /\ At(c)' = At(c) /\ Asked(c)' = Asked(c) /\ Released(c)' = Released(c)
                /\ Ready(c)' = Ready(c) /\ Tell(c)' = Tell(c) /\ Beat(c)' = Beat(c)
      /\ \A c, d : /\ Up(c, d)' = Up(c, d) /\ Across(c, d)' = Across(c, d)
                   /\ Announce(c, d)' = Announce(c, d)
      /\ \A c, d, type : Down(c, d, type)' = Down(c, d, type)
  BY <1>1, FramesStay
<1>3. /\ route' = route /\ (Legs' <=> Legs)
      /\ \A c : Saved(c)' = Saved(c) /\ (HasBit(c)' <=> HasBit(c))
  BY <1>1, RouteStays
<1>4. \A c : (Gone(c)' <=> Gone(c)) /\ (Tried(c)' <=> Tried(c)) /\ \A x : Was(c, x)' <=> Was(c, x)
  BY <1>1, <1>2 DEF Gone, Was, Tried
<1>5. AllReleased' /\ Legs'
  BY <1>1, <1>2, <1>3, <1>4 DEF CallInv, AllReleased
<1>6. CASE beats = 0
  <2>1. Early
    BY <1>6 DEF CallInv
  <2>2. \A c \in Client : EarlySession(c, session[c])'
    BY <1>1, <1>3, <2>1 DEF Early, EarlySession
  <2>3. \A m \in net : EarlyFrame(m)'
    BY <1>1, <1>2, <1>3, <1>4, <2>1 DEF Early, EarlyFrame
  <2> QED BY <1>1, <1>2, <1>3, <1>5, <1>6, <2>1, <2>2, <2>3 DEF CallInv, Early
<1>7. CASE beats > 0
  <2>1. Late /\ Informed
    BY <1>7 DEF CallInv
  <2>2. \A c \in Client : LateSession(c, session[c])'
    BY <1>1, <1>2, <1>3, <1>4, <2>1, OtherIs DEF Late, LateSession
  <2>3. \A m \in net : LateFrame(m)'
    BY <1>1, <1>2, <1>3, <1>4, <2>1 DEF Late, LateFrame
  <2>4. Single'
    BY <1>1, <2>1 DEF Late, Single, InRound
  <2>5. Informed'
    BY <1>1, <1>2, <1>3, <2>1 DEF Informed
  <2> QED BY <1>1, <1>2, <1>3, <1>5, <1>7, <2>1, <2>2, <2>3, <2>4, <2>5 DEF CallInv, Late
<1>8. CASE ~(beats = 0) /\ ~(beats > 0)
  BY <1>1, <1>5, <1>8 DEF CallInv
<1> QED BY <1>6, <1>7, <1>8

LEMMA MovedOnce ==
    ASSUME TypeInv, moves' = 0
    PROVE  ~ \E c \in Client, a \in Addr : Move(c, a)
BY DEF TypeInv, TypeOK, Move

LEMMA CallNext ==
    ASSUME TypeInv, CallInv, Next, moves' = 0
    PROVE  CallInv'
<1>1. TypeOK /\ Legs /\ AllReleased /\ beats \in Nat
  BY DEF TypeInv, TypeOK, CallInv
<1>2. CASE beats = 0
  <2>1. Early
    BY <1>2 DEF CallInv
  <2>2. ASSUME NEW c \in Client, Txreq(c) \/ Txcnt(c) \/ Txacc(c) \/ Txrel(c)
        PROVE  CallInv'
    BY <1>1, <1>2, <2>1, <2>2, EarlyTxreq, EarlyTxcnt, EarlyTxacc, EarlyTxrel
  <2>3. ASSUME NEW c \in Client,
               \/ Txready(c) \/ NoSession(c) \/ HeartbeatInitNat(c) \/ HeartbeatInitP2p(c)
               \/ HeartbeatSwitch(c) \/ HeartbeatNone(c)
        PROVE  CallInv'
    BY <1>1, <1>2, <2>1, <2>3, EarlyNoSession
  <2>4. ASSUME NEW c \in Client, Retransmit(c) \/ GiveUp(c) \/ SendRsHeartbeat(c)
        PROVE  CallInv'
    BY <1>1, <1>2, <2>1, <2>4, EarlyTimers, FirstHeartbeat
  <2>5. ASSUME NEW c \in Client, ServerTxready(c) PROVE CallInv'
    BY <1>1, <1>2, <2>1, <2>5, EarlyServerTxready
  <2>6. CASE RelayStep \/ Lose
    BY <1>1, <1>2, <2>1, <2>6, EarlyRelay, EarlyLose
  <2>7. ~ \E c \in Client, a \in Addr : Move(c, a)
    BY MovedOnce
  <2> QED BY <2>2, <2>3, <2>4, <2>5, <2>6, <2>7 DEF Next
<1>3. CASE beats > 0
  <2>1. Late /\ Informed
    BY <1>3 DEF CallInv
  <2>2. ASSUME NEW c \in Client, Txcnt(c) \/ Txacc(c) \/ Txrel(c)
        PROVE  CallInv'
    BY <1>1, <1>3, <2>1, <2>2, LateTxcnt, LateTxacc, LateTxrel
  <2>3. ASSUME NEW c \in Client, Txreq(c) \/ Txready(c) \/ HeartbeatNone(c) \/ NoSession(c)
        PROVE  CallInv'
    BY <1>1, <1>3, <2>1, <2>3, LateNoSession
  <2>4. ASSUME NEW c \in Client,
               HeartbeatInitNat(c) \/ HeartbeatInitP2p(c) \/ HeartbeatSwitch(c)
        PROVE  CallInv'
    BY <1>1, <1>3, <2>1, <2>4, LateInit, LateSwitch
  <2>5. ASSUME NEW c \in Client PROVE ~ Retransmit(c) /\ ~ GiveUp(c)
    BY <2>1 DEF Late, LateSession, Retransmit, GiveUp
  <2>6. ASSUME NEW c \in Client, SendRsHeartbeat(c) \/ ServerTxready(c) PROVE CallInv'
    BY <1>1, <1>3, <2>1, <2>6, LateHeartbeat, LateServerTxready
  <2>7. CASE RelayStep \/ Lose
    BY <1>1, <1>3, <2>1, <2>7, LateRelay, LateLose
  <2>8. ~ \E c \in Client, a \in Addr : Move(c, a)
    BY MovedOnce
  <2> QED BY <2>2, <2>3, <2>4, <2>5, <2>6, <2>7, <2>8 DEF Next
<1> QED BY <1>1, <1>2, <1>3

LEMMA MovesCounted ==
    ASSUME TypeInv, [Next]_vars, moves' = 0
    PROVE  moves = 0
<1>1. ASSUME NEW c \in Client,
             \/ Txreq(c) \/ Txcnt(c) \/ Txacc(c) \/ Txrel(c) \/ Txready(c)
             \/ HeartbeatInitNat(c) \/ HeartbeatInitP2p(c) \/ HeartbeatSwitch(c)
             \/ HeartbeatNone(c) \/ NoSession(c)
      PROVE  moves' = moves
  <2>1. \A m, s, frames : Take(c, m, s, frames) => moves' = moves
    BY DEF Take, bounds
  <2> HIDE DEF Take
  <2>2. CASE Txcnt(c)
    BY <2>1, <2>2, TxcntTakes DEF TypeInv
  <2>3. CASE Txacc(c)
    BY <2>1, <2>3 DEF Txacc
  <2> QED BY <1>1, <2>1, <2>2, <2>3 DEF Txreq, Txrel, Txready, HeartbeatInitNat, HeartbeatInitP2p,
              HeartbeatSwitch, HeartbeatNone, NoSession
<1>2. ASSUME NEW c \in Client, Retransmit(c) \/ GiveUp(c) \/ SendRsHeartbeat(c) \/ ServerTxready(c)
      PROVE  moves' = moves
  BY <1>2 DEF Retransmit, GiveUp, SendRsHeartbeat, ServerTxready, bounds
<1>3. CASE RelayStep \/ Lose
  BY <1>3 DEF RelayStep, Lose, bounds
<1>4. ~ \E c \in Client, a \in Addr : Move(c, a)
  BY MovedOnce
<1>5. CASE UNCHANGED vars
  BY <1>5 DEF vars, bounds
<1> QED BY <1>1, <1>2, <1>3, <1>4, <1>5 DEF Next

LEMMA InvStays == IInv /\ [Next]_vars => IInv'
<1> SUFFICES ASSUME IInv, [Next]_vars PROVE IInv'
  OBVIOUS
<1>1. TypeInv'
  BY NextTyped DEF IInv
<1>2. ASSUME moves' = 0 PROVE CallInv'
  <2>1. TypeInv /\ CallInv
    BY <1>2, MovesCounted DEF IInv
  <2>2. CASE Next
    BY <1>2, <2>1, <2>2, CallNext
  <2>3. CASE UNCHANGED vars
    BY <2>1, <2>3, CallStays
  <2> QED BY <2>2, <2>3
<1> QED BY <1>1, <1>2 DEF IInv

\* As long as no client has moved, the call is in the relay phase, with no heartbeat
\* sent, or after it, with one round of frames at most for each client's heartbeat.
THEOREM InductiveInvariant == Spec => []IInv
<1>1. Init => IInv
  BY InitTyped, CallInit DEF IInv
<1> QED BY <1>1, InvStays, PTL DEF Spec

\* Where a client of such a call sends to.
LEMMA PeerIs ==
    ASSUME IInv, moves = 0, NEW c \in Client
    PROVE  /\ session[c].peeraddr \in {Server, RS, At(Other(c))}
           /\ session[c].peeraddr = At(Other(c)) =>
                 route.status = Switched /\ \A d \in Client : session[d].transferring = Proved
           /\ session[c].path \in {"NAT", "P2P"} => session[c].peeraddr = At(Other(c))
           /\ At(Other(c)) \notin {Server, RS}
<1>1. CallInv /\ beats \in Nat
  BY DEF IInv, TypeInv, TypeOK
<1>2. At(Other(c)) \notin {Server, RS}
  BY AtIs
<1>3. CASE beats = 0
  <2>1. EarlySession(c, session[c])
    BY <1>1, <1>3 DEF CallInv, Early
  <2> QED BY <1>2, <2>1 DEF EarlySession
<1>4. CASE beats > 0
  <2>1. \A d \in Client : LateSession(d, session[d])
    BY <1>1, <1>4 DEF CallInv, Late
  <2> QED BY <1>2, <2>1 DEF LateSession
<1> QED BY <1>1, <1>3, <1>4

LEMMA AtReaches ==
    ASSUME TypeOK, NEW c \in Client
    PROVE  /\ At(c)[1] = "lan" <=> SameNet
           /\ At(c)[1] = "pub" <=> ~SameNet
           /\ <<At(c)[1], addr[Other(c)]>> = At(Other(c))
           /\ Reaches([to |-> At(c), from |-> <<At(c)[1], addr[Other(c)]>>], c)
<1>1. PICK m : m = [to |-> At(c), from |-> <<At(c)[1], addr[Other(c)]>>]
  OBVIOUS
<1>2. m.to = At(c) /\ m.from = <<At(c)[1], addr[Other(c)]>>
  BY <1>1
<1>3. m.from[1] = At(c)[1] /\ m.from[2] = addr[Other(c)] /\ Other(c) \in Client
  BY <1>2, OtherIs
<1>4. CASE SameNet
  <2>1. At(c) = Lan(addr[c]) /\ At(c)[1] = "lan" /\ At(Other(c)) = <<"lan", addr[Other(c)]>>
    BY <1>4 DEF At, Lan
  <2>2. Ip[addr[Other(c)]] = Ip[addr[c]]
    BY <1>3, <1>4 DEF SameNet
  <2> QED BY <1>1, <1>2, <1>3, <1>4, <2>1, <2>2 DEF Reaches
<1>5. CASE ~SameNet
  <2>1. At(c) = Pub(addr[c]) /\ At(c)[1] = "pub" /\ At(Other(c)) = <<"pub", addr[Other(c)]>>
    BY <1>5 DEF At, Pub
  <2> QED BY <1>1, <1>2, <1>3, <1>5, <2>1 DEF Reaches
<1> QED BY <1>4, <1>5

\* A client sends directly only along a path the relay has announced and both
\* clients have had an answer on, whatever was lost or late.
THEOREM DirectPathProven == Spec => []DirectPathIsProven
<1>1. IInv => DirectPathIsProven
  <2> SUFFICES ASSUME IInv, moves = 0, NEW c \in Client, session[c].peeraddr \in Direct
               PROVE  IF session[c].peeraddr[1] = "pub"
                      THEN /\ route.status = "NATTED"
                           /\ \A d \in Client : session[d].transferring = "READY_NAT"
                      ELSE /\ route.status = "P2PED"
                           /\ \A d \in Client : session[d].transferring = "READY_P2P"
    BY DEF DirectPathIsProven, route
  <2>1. TypeOK /\ Other(c) \in Client
    BY OtherIs DEF IInv, TypeInv
  <2>2. session[c].peeraddr = At(Other(c))
    BY PeerIs, PlacesAre
  <2>3. route.status = Switched /\ \A d \in Client : session[d].transferring = Proved
    BY <2>2, PeerIs
  <2>4. session[c].peeraddr[1] = "pub" <=> ~SameNet
    BY <2>1, <2>2, AtReaches
  <2> QED BY <2>3, <2>4 DEF Switched, Proved
<1> QED BY <1>1, InductiveInvariant, PTL

\* A client that told the application of a direct path sends to the address the
\* other client has on it.
THEOREM DirectPathReaches == Spec => []DirectPathReachesPeer
<1>1. IInv => DirectPathReachesPeer
  <2> SUFFICES ASSUME IInv, moves = 0, NEW c \in Client, session[c].path \in {"NAT", "P2P"}
               PROVE  Reaches([to |-> session[c].peeraddr,
                               from |-> <<session[c].peeraddr[1], addr[c]>>], Other(c))
    BY DEF DirectPathReachesPeer
  <2>1. TypeOK /\ Other(c) \in Client /\ Other(Other(c)) = c
    BY OtherIs DEF IInv, TypeInv
  <2>2. session[c].peeraddr = At(Other(c))
    BY PeerIs
  <2> QED BY <2>1, <2>2, AtReaches
<1> QED BY <1>1, InductiveInvariant, PTL

LEMMA RelayedHears ==
    ASSUME TypeOK, Legs, Joined, NEW c \in Client, route.status = "SETTED",
           session[c].peeraddr = RS, session[Other(c)].peeraddr = RS
    PROVE  Hears(c, Other(c))
<1>1. PICK d \in Client : d = Other(c)
  BY OtherIs
<1>2. Other(d) = c /\ Legs /\ Joined
  BY <1>1, OtherIs
<1>3. Met(d, addr[d])
  <2>1. LegAddr(d) = addr[d]
    BY <1>2, JoinedIs
  <2>2. (route.l_addr = addr[d] /\ route.l_callno = d) \/ (route.r_addr = addr[d] /\ route.r_callno = d)
    BY <2>1, OtherIs DEF LegAddr, Left, Joined
  <2> QED BY <2>2, MetIs DEF Joined
<1>4. Relay!PeerAddr(1, addr[d], d) = addr[c]
  <2>1. (Relay!IsLeft(1, addr[d], d) <=> Left(d)) /\ PeerOf(d) = addr[c]
    BY <1>2, JoinedIs
  <2> QED BY <2>1 DEF Relay!PeerAddr, PeerOf, route
<1>5. \E r \in Relay!Matches(addr[d], d) : Relay!PeerAddr(r, addr[d], d) = addr[c]
  BY <1>3, <1>4 DEF Met
<1>6. ReverseMatch(session[c], RS)
  BY DEF ReverseMatch
<1>7. session[d].peeraddr = RS /\ RS # Server
  BY <1>1, PlacesDiffer
<1>8. Hears(c, d)
  BY <1>5, <1>6, <1>7 DEF Hears
<1> QED BY <1>1, <1>8

LEMMA DirectHears ==
    ASSUME TypeOK, NEW c \in Client,
           \A d \in Client : session[d].peeraddr = At(Other(d))
    PROVE  Hears(c, Other(c))
<1>1. PICK d \in Client : d = Other(c)
  BY OtherIs
<1>2. session[d].peeraddr = At(c) /\ session[c].peeraddr = At(d)
  BY <1>1, OtherIs
<1>3. /\ <<At(c)[1], addr[d]>> = At(d)
      /\ Reaches([to |-> At(c), from |-> <<At(c)[1], addr[d]>>], c)
  BY <1>1, AtReaches
<1>4. ReverseMatch(session[c], <<At(c)[1], addr[d]>>)
  BY <1>2, <1>3 DEF ReverseMatch
<1>5. At(c) # Server /\ At(c) # RS
  BY AtIs
<1>6. Hears(c, d)
  BY <1>2, <1>3, <1>4, <1>5 DEF Hears
<1> QED BY <1>1, <1>6

\* Whenever frames, retries and heartbeats have come to rest, each client hears the
\* other, on the server, the relay or a direct path.
THEOREM Connected == Spec => []ConnectedWhenQuiet
<1>1. IInv => ConnectedWhenQuiet
  <2> SUFFICES ASSUME IInv, Quiet, moves = 0, lost = 0 \/ beats = 0, NEW c \in Client
               PROVE  Hears(c, Other(c))
    BY DEF ConnectedWhenQuiet
  <2>1. /\ TypeOK /\ Legs /\ AllReleased /\ beats \in Nat
        /\ beats = 0 => Early
        /\ beats > 0 => Late /\ Informed
    BY DEF IInv, TypeInv, TypeOK, CallInv
  <2>2. net = {} /\ \A d \in Client : session[d].sched = {}
    BY DEF Quiet
  <2>3. Other(c) \in Client
    BY OtherIs
  <2>4. ready = Client => \A d \in Client : session[d].peeraddr # Server
    BY <2>1, <2>2 DEF AllReleased, Gone
  <2>5. CASE beats = 0 /\ ready # Client
    <3>1. \A d \in Client : session[d].peeraddr = Server
      BY <2>1, <2>5 DEF Early, EarlySession
    <3> QED BY <2>3, <2>5, <3>1, PlacesDiffer DEF Hears
  <2>6. CASE beats = 0 /\ ready = Client
    <3>1. /\ \A d \in Client : session[d].peeraddr = RS
          /\ route.status = "SETTED"
      BY <2>1, <2>4, <2>6 DEF Early, EarlySession
    <3>2. Joined
      BY <2>1, <3>1 DEF Legs
    <3> QED BY <2>1, <2>3, <3>1, <3>2, RelayedHears
  <2>7. CASE beats > 0 /\ route.status = Switched
    <3>1. Informed /\ lost = 0
      BY <2>1, <2>7
    <3>2. \A d \in Client : session[d].peeraddr = At(Other(d))
      BY <2>2, <2>7, <3>1 DEF Informed
    <3> QED BY <2>1, <3>2, DirectHears
  <2>8. CASE beats > 0 /\ route.status # Switched
    <3>1. /\ route.status = "SETTED" /\ ready = Client
          /\ \A d \in Client : session[d].peeraddr \in {Server, RS}
      BY <2>1, <2>8 DEF Late, LateSession
    <3>2. \A d \in Client : session[d].peeraddr = RS
      BY <2>4, <3>1
    <3>3. Joined
      BY <2>1, <3>1 DEF Legs
    <3> QED BY <2>1, <2>3, <3>1, <3>2, <3>3, RelayedHears
  <2> QED BY <2>1, <2>5, <2>6, <2>7, <2>8
<1> QED BY <1>1, InductiveInvariant, PTL
=============================================================================
