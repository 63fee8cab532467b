-------------------------------- MODULE Transfer --------------------------------
(***************************************************************************)
(* One answered call leaves the server: the two IAX clients (iax2-client/  *)
(* iax.c) and the relay take it from the server to the relay, and then, if *)
(* both clients reach each other, to a path through their NATs (NAT) or on *)
(* their local network (P2P).                                              *)
(*                                                                         *)
(* The relay is the module RelayServer, with one token and one route: each *)
(* of its steps here is one of its own actions, on a datagram the network  *)
(* holds.  The clients are the transfer handlers of iax_header_to_event,   *)
(* with the session search before them and the frames schedq sends again.  *)
(* The server (Asterisk) is external: it asks both clients (TXREQ), waits  *)
(* for both (TXREADY) and releases both (TXREL); its frames are reliable.  *)
(*                                                                         *)
(* Sequence numbers and the media itself are not here: a path is judged by *)
(* where a mini frame sent now would go and whether it would be accepted.  *)
(***************************************************************************)
EXTENDS Integers

CONSTANTS
    Client,     \* the two clients; also their call numbers, which differ
    Addr, Ip,   \* public addresses and their IPs, as in RelayServer
    NoAddr, NoCallno, NoToken,
    MaxBeats,   \* bound on the heartbeats the clients send
    MaxLost,    \* bound on the datagrams lost on their way to or from the relay
    MaxMoves    \* bound on the times a client's public address changes

RelayToken == "token"

ASSUME TransferAssumption ==
    /\ \E c, d \in Client : c # d /\ Client = {c, d}
    /\ NoAddr \notin Addr /\ NoCallno \notin Client /\ NoToken # RelayToken
    /\ MaxBeats \in Nat /\ MaxLost \in Nat /\ MaxMoves \in Nat

VARIABLES
    session,    \* the iax_session of each client, the fields a transfer uses
    addr,       \* where each client sends from
    ready,      \* the clients the server has a TXREADY from
    net,        \* the datagrams under way
    beats, lost, moves,                     \* how much of each bound is used
    routes, nroutes, rti, index, out        \* the relay

relayTables == <<routes, nroutes, rti, index>>
bounds == <<beats, lost, moves>>
vars == <<session, addr, ready, net, bounds, relayTables, out>>

Relay == INSTANCE RelayServer WITH
            Callno <- Client, Token <- {RelayToken}, MaxRoutes <- 1

Other(c) == CHOOSE d \in Client : d # c

-----------------------------------------------------------------------------
(* Where a datagram is sent: the server, the relay, or a client by its       *)
(* public address or by its local one (IAX_IE_LOCAL_ADDR).                   *)

Server  == <<"server", NoAddr>>
RS      == <<"relay", NoAddr>>
Nowhere == <<"zero", NoAddr>>               \* a sockaddr_in that is all zero
Pub(a)  == <<"pub", a>>
Lan(a)  == <<"lan", a>>
Direct  == {"pub", "lan"} \X Addr
Place   == {Server, RS, Nowhere} \cup Direct

Transferring == {"NONE", "BEGIN_RS", "READY_RS", "BEGIN_NAT", "READY_NAT",
                 "BEGIN_P2P", "READY_P2P", "REL"}

\* Frames of a client in schedq that are sent again until they are stopped.
Sched == {"TXCNT", "TXACC", "TXREADY"}

\* The IAXC_CALL_STATE_TRANSFER_ bit of the call, what the application is told.
Path == {"SERVER", "RS", "NAT", "P2P"}

Session == [peeraddr : Place, transfer : Place, transfer_nat : Place,
            transfer_p2p : Place, transferring : Transferring, sched : SUBSET Sched,
            path : Path]

\* sendto of client c; the local network gives the frame its local source.
Frame(c, to, type) ==
    IF to = Nowhere THEN {}
    ELSE {[from |-> IF to[1] = "lan" THEN Lan(addr[c]) ELSE Pub(addr[c]),
           to |-> to, callno |-> c, type |-> type, event |-> "-", at |-> NoAddr]}

\* Which client, if any, a datagram to this place arrives at.
Reaches(m, c) ==
    \/ m.to = Pub(addr[c]) /\ m.from[1] # "lan"
    \/ m.to = Lan(addr[c]) /\ m.from[1] = "lan" /\ Ip[m.from[2]] = Ip[addr[c]]

-----------------------------------------------------------------------------
(* The session search: forward_match, and iax_txcnt_session after it.        *)

ForwardMatch(s, from) ==
    \/ from = s.peeraddr
    \/ s.transferring # "NONE" /\ from \in {s.transfer, s.transfer_nat, s.transfer_p2p}

\* A TXCNT of this transfer that no address matches is accepted all the same,
\* and its source becomes the transfer address.
TxcntSession(s, from) ==
    IF ForwardMatch(s, from) THEN s ELSE [s EXCEPT !.transfer = from]

XferAddrStale(s, x) ==      \* mutant: the address of the other direct path
    CASE x = "RS" -> s.transfer [] x = "NAT" -> s.transfer_p2p [] x = "P2P" -> s.transfer_nat

XferAddrOfPeer(s, x) ==     \* mutant: a release leaves the peer as it is
    CASE x = "RS" -> s.peeraddr [] x = "NAT" -> s.transfer_nat [] x = "P2P" -> s.transfer_p2p

\* The address of one kind of path (iax_get_xmit_addr, complete_transfer).
XferAddr(s, x) == CASE x = "RS" -> s.transfer [] x = "NAT" -> s.transfer_nat
                    [] x = "P2P" -> s.transfer_p2p

StopTransfer(s) == [s EXCEPT !.sched = {}]

\* complete_transfer with xfr2peer = 1, and the event to the application;
\* transferring keeps its value.
CompleteTransfer(s, x) ==
    [StopTransfer(s) EXCEPT !.peeraddr = XferAddr(s, x), !.path = x]

\* Client c takes m from the network, goes on with session s and sends frames.
Take(c, m, s, frames) ==
    /\ session' = [session EXCEPT ![c] = s]
    /\ net' = (net \ {m}) \cup frames
    /\ out' = {}
    /\ UNCHANGED <<addr, ready, bounds, relayTables>>

Arrives(c, m, type) ==
    /\ m.type = type
    /\ Reaches(m, c)
    /\ ForwardMatch(session[c], m.from)

-----------------------------------------------------------------------------
(* The transfer frames a client handles. *)

Txreq(c) ==
    \E m \in net :
        /\ Arrives(c, m, "TXREQ")
        /\ Take(c, m, [session[c] EXCEPT !.transfer = RS, !.transferring = "BEGIN_RS",
                                         !.sched = @ \cup {"TXCNT"}],
                Frame(c, RS, "TXCNT"))

\* A probe of the other client, through the relay or on a direct path.  Only the
\* answer on the relay path is sent again.
Txcnt(c) ==
    \E m \in net :
        /\ m.type = "TXCNT" /\ Reaches(m, c)
        /\ session[c].transferring # "NONE"
        /\ LET s   == TxcntSession(session[c], m.from)
               acc == Frame(c, m.from, "TXACC")
           IN  CASE s.transferring = "BEGIN_RS" ->
                      Take(c, m, [s EXCEPT !.transfer = m.from, !.sched = @ \cup {"TXACC"}], acc)
                 [] s.transferring \in {"BEGIN_NAT", "READY_NAT"} ->
                      Take(c, m, [s EXCEPT !.transfer_nat = m.from], acc)
                 [] s.transferring \in {"BEGIN_P2P", "READY_P2P"} ->
                      Take(c, m, [s EXCEPT !.transfer_p2p = m.from], acc)
                 [] s.transferring \in {"READY_RS", "REL"} -> Take(c, m, s, {})

AnsweredSame(x) ==          \* mutant: one state for both direct paths
    CASE x = "BEGIN_RS" -> "READY_RS"
      [] x \in {"BEGIN_NAT", "BEGIN_P2P"} -> "READY_NAT"
      [] OTHER -> x

\* The state that follows an answer, whatever path it came on.
Answered(x) == CASE x = "BEGIN_RS"  -> "READY_RS"
                 [] x = "BEGIN_NAT" -> "READY_NAT"
                 [] x = "BEGIN_P2P" -> "READY_P2P"
                 [] OTHER           -> x

\* All TXREADYs go to the peer the session has now; only the one of the relay
\* path is sent again.
Txacc(c) ==
    \E m \in net :
        /\ Arrives(c, m, "TXACC")
        /\ LET s == [StopTransfer(session[c]) EXCEPT !.transferring = Answered(@)]
           IN  IF s.transferring = session[c].transferring
               THEN Take(c, m, s, {})
               ELSE Take(c, m, IF s.transferring = "READY_RS"
                               THEN [s EXCEPT !.sched = {"TXREADY"}] ELSE s,
                         Frame(c, s.peeraddr, "TXREADY"))

Txrel(c) ==
    \E m \in net :
        /\ Arrives(c, m, "TXREL")
        /\ Take(c, m, IF session[c].transferring = "NONE"
                      THEN [StopTransfer(session[c]) EXCEPT !.path = "RS"]
                      ELSE CompleteTransfer(session[c], "RS"), {})

\* The relay says that the other leg may be tried directly, and where it is.
HeartbeatInitNat(c) ==
    \E m \in net :
        /\ Arrives(c, m, "HEARTBEAT") /\ m.event = "INIT_NAT"
        /\ Take(c, m, [session[c] EXCEPT !.transferring = "BEGIN_NAT",
                                         !.transfer_nat = Pub(m.at)],
                Frame(c, Pub(m.at), "TXCNT"))

HeartbeatInitP2p(c) ==
    \E m \in net :
        /\ Arrives(c, m, "HEARTBEAT") /\ m.event = "INIT_P2P"
        /\ Take(c, m, [session[c] EXCEPT !.transferring = "BEGIN_P2P",
                                         !.transfer_p2p = Lan(m.at)],
                Frame(c, Lan(m.at), "TXCNT"))

HeartbeatSwitch(c) ==
    \E m \in net :
        /\ Arrives(c, m, "HEARTBEAT") /\ m.event \in {"RS", "NAT", "P2P"}
        /\ Take(c, m, CompleteTransfer(session[c], m.event), {})

\* A heartbeat that says nothing: NONE, one that came without the relay, or an INIT_P2P
\* whose sender found no local address to put in it (iax.c:1447).
HeartbeatNone(c) ==
    \E m \in net :
        /\ Arrives(c, m, "HEARTBEAT") /\ m.event \in {"NONE", "-", "INIT_P2P"}
        /\ Take(c, m, session[c], {})

\* iax_handle_txready: a TXREADY that a switched session sent to its new peer.
Txready(c) ==
    \E m \in net :
        /\ Arrives(c, m, "TXREADY")
        /\ Take(c, m, [StopTransfer(session[c]) EXCEPT !.transferring = "REL"], {})

\* "No session": no address of the session matches the source.
NoSession(c) ==
    \E m \in net :
        /\ Reaches(m, c)
        /\ IF m.type = "TXCNT" THEN session[c].transferring = "NONE"
                               ELSE ~ForwardMatch(session[c], m.from)
        /\ Take(c, m, session[c], {})

-----------------------------------------------------------------------------
(* Timers of a client. *)

Retransmit(c) ==
    \E f \in session[c].sched :
        /\ net' = net \cup Frame(c, IF f = "TXREADY" THEN session[c].peeraddr
                                    ELSE session[c].transfer, f)
        /\ out' = {}
        /\ UNCHANGED <<session, addr, ready, bounds, relayTables>>

\* A transfer frame whose retries are used up is dropped and nothing is said.
GiveUp(c) ==
    \E f \in session[c].sched \ {"TXREADY"} :
        /\ session' = [session EXCEPT ![c].sched = @ \ {f}]
        /\ out' = {}
        /\ UNCHANGED <<addr, ready, net, bounds, relayTables>>

\* What may still be under way of the relay phase, and of the last heartbeat of c:
\* the heartbeat itself, the probe it causes, the answer to the probe, the TXREADY
\* after it and the announcement.  All of it is faster than the 5 s before the
\* first heartbeat and the 10 s between two.
UnderWay(c) ==
    {m \in net :
        \/ m.type \in {"TXCNT", "TXACC"} /\ RS \in {m.from, m.to}
        \/ /\ m.type \in {"HEARTBEAT", "TXACC"} /\ m.event \notin {"NAT", "P2P"}
           /\ m.callno = c
        \/ /\ m.type \in {"TXCNT", "TXREADY"} \/ m.event \in {"NAT", "P2P"}
           /\ m.callno # c}

\* The timer complete_transfer started: the session has left the server.
SendRsHeartbeat(c) ==
    /\ session[c].peeraddr # Server
    /\ beats < MaxBeats
    /\ UnderWay(c) = {}
    /\ beats' = beats + 1
    /\ net' = net \cup Frame(c, session[c].transfer, "HEARTBEAT")
    /\ out' = {}
    /\ UNCHANGED <<session, addr, ready, lost, moves, relayTables>>

-----------------------------------------------------------------------------
(* Relay, server and network. *)

RelayAction(src, c, type) ==
    CASE type = "TXCNT" -> \/ Relay!TxcntNewRoute(src, c, RelayToken)
                           \/ Relay!TxcntSameLeg(src, c, RelayToken)
                           \/ Relay!TxcntOtherLeg(src, c, RelayToken)
                           \/ Relay!TxcntDropped(RelayToken)
      [] type = "HEARTBEAT" -> \/ Relay!HeartbeatMoved(src, c, RelayToken)
                               \/ Relay!HeartbeatForwarded(src, c, RelayToken)
                               \/ Relay!HeartbeatUnknown(RelayToken)
      [] type = "TXREADY" -> Relay!Txready(src, c) \/ Relay!Discard(src, c)
      [] type = "TXACC" -> Relay!Forward(src, c, type) \/ Relay!Discard(src, c)

\* The apparent address in a forwarded heartbeat is the one it came from.
RelayStep ==
    \E m \in net :
        /\ m.to = RS
        /\ RelayAction(m.from[2], m.callno, m.type)
        /\ net' = (net \ {m}) \cup
              {[from |-> RS, to |-> Pub(d.to), callno |-> m.callno, type |-> d.type,
                event |-> d.event,
                at |-> IF d.event \in {"INIT_NAT", "INIT_P2P"} THEN m.from[2] ELSE NoAddr]
               : d \in out'}
        /\ UNCHANGED <<session, addr, ready, bounds>>

ServerFrame(c, type) == [from |-> Server, to |-> Pub(addr[c]), callno |-> c,
                         type |-> type, event |-> "-", at |-> NoAddr]

\* The acknowledgement of a TXREADY ends its retransmission; the last one
\* releases both clients.
ServerTxready(c) ==
    \E m \in net :
        /\ m.to = Server /\ m.callno = c
        /\ ready' = ready \cup {c}
        /\ session' = [session EXCEPT ![c].sched = @ \ {"TXREADY"}]
        /\ net' = (net \ {m}) \cup
                  (IF ready' = Client /\ ready # Client
                   THEN {ServerFrame(d, "TXREL") : d \in Client} ELSE {})
        /\ out' = {}
        /\ UNCHANGED <<addr, bounds, relayTables>>

\* What a NAT does to frames it did not ask for is no loss of the relay path.
Lose ==
    \E m \in net :
        /\ m.from # Server
        /\ IF m.to \in Direct /\ m.from \in Direct THEN UNCHANGED lost
           ELSE lost < MaxLost /\ lost' = lost + 1
        /\ net' = net \ {m}
        /\ out' = {}
        /\ UNCHANGED <<session, addr, ready, beats, moves, relayTables>>

\* The client's public address changes once the call has left the server.
Move(c, a) ==
    /\ moves < MaxMoves
    /\ session[c].peeraddr # Server
    /\ a \notin {addr[d] : d \in Client}
    /\ addr' = [addr EXCEPT ![c] = a]
    /\ moves' = moves + 1
    /\ net' = {m \in net : m.to \notin {Pub(addr[c]), Lan(addr[c])}}
    /\ out' = {}
    /\ UNCHANGED <<session, ready, beats, lost, relayTables>>

-----------------------------------------------------------------------------

Init ==
    /\ session = [c \in Client |->
            [peeraddr |-> Server, transfer |-> Nowhere, transfer_nat |-> Nowhere,
             transfer_p2p |-> Nowhere, transferring |-> "NONE", sched |-> {},
             path |-> "SERVER"]]
    /\ addr \in [Client -> Addr]
    /\ \A c \in Client : addr[c] # addr[Other(c)]
    /\ ready = {}
    /\ net = {ServerFrame(c, "TXREQ") : c \in Client}
    /\ beats = 0 /\ lost = 0 /\ moves = 0
    /\ Relay!Init

Next ==
    \/ \E c \in Client :
        \/ Txreq(c) \/ Txcnt(c) \/ Txacc(c) \/ Txrel(c) \/ Txready(c)
        \/ HeartbeatInitNat(c) \/ HeartbeatInitP2p(c)
        \/ HeartbeatSwitch(c) \/ HeartbeatNone(c) \/ NoSession(c)
        \/ Retransmit(c) \/ GiveUp(c) \/ SendRsHeartbeat(c)
        \/ ServerTxready(c)
        \/ \E a \in Addr : Move(c, a)
    \/ RelayStep \/ Lose

Spec == Init /\ [][Next]_vars

-----------------------------------------------------------------------------
(* Properties *)

\* The variables keep their types, and the relay its own.
TypeOK ==
    /\ session \in [Client -> Session]
    /\ addr \in [Client -> Addr]
    /\ ready \subseteq Client
    /\ lost \in 0 .. MaxLost /\ moves \in 0 .. MaxMoves /\ beats \in 0 .. MaxBeats
    /\ Relay!TypeOK

\* A mini frame carries no destination: reverse_match takes it by its source,
\* and looks at transfer and peeraddr only.
ReverseMatch(s, from) ==
    from = s.peeraddr \/ (s.transferring # "NONE" /\ from = s.transfer)

\* Would a mini frame that d sends now be taken by c?
Hears(c, d) ==
    LET to == session[d].peeraddr IN
    CASE to = Server -> session[c].peeraddr = Server /\ ready # Client
      [] to = RS     -> /\ \E r \in Relay!Matches(addr[d], d) :
                              Relay!PeerAddr(r, addr[d], d) = addr[c]
                        /\ ReverseMatch(session[c], RS)
      [] OTHER       -> /\ Reaches([to |-> to, from |-> <<to[1], addr[d]>>], c)
                        /\ ReverseMatch(session[c], <<to[1], addr[d]>>)

\* Nothing is under way and nothing will be sent again.
Quiet == net = {} /\ \A c \in Client : session[c].sched = {}

\* Whatever order frames, retries and heartbeats came in, when they have come to
\* rest each client hears the other, on the server, the relay or a direct path:
\* no client is released alone, and none is left on a path the other one has
\* gone from.  It holds with datagrams lost before the first heartbeat too: the
\* relay phase then ends with both clients on the server or both on the relay.
ConnectedWhenQuiet ==
    Quiet /\ moves = 0 /\ (lost = 0 \/ beats = 0) =>
        \A c \in Client : Hears(c, Other(c))

\* A client sends directly only along a path that is proven: the relay has
\* announced this kind of path, and both clients have had an answer to a probe
\* of this kind, even when datagrams were lost or came late.
DirectPathIsProven ==
    moves = 0 => \A c \in Client : session[c].peeraddr \in Direct =>
        IF session[c].peeraddr[1] = "pub"
        THEN /\ routes[1].status = "NATTED"
             /\ \A d \in Client : session[d].transferring = "READY_NAT"
        ELSE /\ routes[1].status = "P2PED"
             /\ \A d \in Client : session[d].transferring = "READY_P2P"

\* A client that told the application of a direct path sends to the address the
\* other client has, on the network both are on: never to the zero address, its
\* own, or a local address in another network.
DirectPathReachesPeer ==
    moves = 0 => \A c \in Client : session[c].path \in {"NAT", "P2P"} =>
        Reaches([to |-> session[c].peeraddr,
                 from |-> <<session[c].peeraddr[1], addr[c]>>], Other(c))

=============================================================================
