------------------------------ MODULE RelayServer ------------------------------
(***************************************************************************)
(* The VoIP relay of wtkrtc_proxy_server: one epoll thread that reads a    *)
(* UDP datagram and runs process_udp (wtk-relay.c) to its end on it.       *)
(*                                                                         *)
(* A route (struct RT_Info) joins the two legs of a call.  A leg is the    *)
(* address its datagrams come from and the call number it puts in them.    *)
(* The first leg to send a TXCNT with a relay token becomes the left one,  *)
(* the second the right one; from then on frames of one leg are forwarded  *)
(* to the other, and HEARTBEAT and TXREADY steer the pair towards talking  *)
(* directly, through their NATs (NATTED) or on one network (P2PED).        *)
(*                                                                         *)
(* The environment is the network at its worst: a datagram of any kind may *)
(* come from any address with any call number and any token, so lost,      *)
(* repeated and reordered datagrams, NAT rebindings, restarted clients and *)
(* clients that number their calls alike are all included.                 *)
(***************************************************************************)
EXTENDS Integers

CONSTANTS
    Addr,       \* the (IP, port) pairs clients send from
    Ip,         \* [Addr -> IP]: the IP half of an address (inonlyaddrcmp)
    Callno,     \* non-zero IAX call numbers
    Token,      \* relay tokens
    MaxRoutes,  \* bound on calloc'ed routes: the code has none
    NoAddr, NoCallno, NoToken   \* what calloc leaves in a field

ASSUME RelayAssumption ==
    /\ MaxRoutes \in Nat
    /\ NoAddr \notin Addr
    /\ NoCallno \notin Callno
    /\ NoToken \notin Token

VARIABLES
    routes,     \* every RT_Info calloc'ed so far; none is ever freed
    nroutes,    \* how many there are; a route is named by its creation order
    rti,        \* rs_info->rti, head of the route list, 0 for NULL
    index,      \* RtInfoListArray: the routes chained under each call number
    out         \* the datagrams the last step handed to sendto

vars == <<routes, nroutes, rti, index, out>>

RouteIds == 1 .. MaxRoutes

Status == {"IDEL", "SETTING", "SETTED", "NATTED", "P2PED", "RELEASING", "RELEASED"}
EstablishedOrLater == Status \ {"IDEL", "SETTING"}     \* mutant: only the lower bound
Established == {"SETTED", "NATTED", "P2PED"}

\* The four bits of txstatus: which leg reported TXREADY, on which kind of path.
NatBits == {"lNAT", "rNAT"}
P2pBits == {"lP2P", "rP2P"}

Pkt == {"EMPTY", "TXCNT", "HEARTBEAT"}      \* what a saved l_pktbuf / r_pktbuf holds
Event == {"INIT_NAT", "INIT_P2P", "RS", "NAT", "P2P", "NONE"}
NoEvent == "-"                              \* the relay appended no TXEVENT element

RT_Info == [token    : Token \cup {NoToken},
            l_addr   : Addr \cup {NoAddr},     r_addr   : Addr \cup {NoAddr},
            l_callno : Callno \cup {NoCallno}, r_callno : Callno \cup {NoCallno},
            status   : Status,
            txstatus : SUBSET (NatBits \cup P2pBits),
            l_pkt    : Pkt,                    r_pkt    : Pkt]

Blank == [token |-> NoToken, l_addr |-> NoAddr, r_addr |-> NoAddr,
          l_callno |-> NoCallno, r_callno |-> NoCallno, status |-> "IDEL",
          txstatus |-> {}, l_pkt |-> "EMPTY", r_pkt |-> "EMPTY"]

\* sendto to the all-zero address of a leg not yet known fails and sends nothing.
Sendto(to, type, event) ==
    IF to = NoAddr THEN {} ELSE {[to |-> to, type |-> type, event |-> event]}

-----------------------------------------------------------------------------
(* Looking a route up. *)

\* find_routeinfo_by_relaytoken walks the list from rti; RT_Info.next is never
\* assigned, so the walk ends after the newest route.  Its memcmp is over the length of
\* the token kept; the call server makes all tokens of one length (MD5, chan_iax2.c:5629).
FindByToken(t) == IF rti # 0 /\ routes[rti].token = t THEN rti ELSE 0

IsLeft(r, src, c)  == routes[r].l_addr = src /\ routes[r].l_callno = c
IsRight(r, src, c) == routes[r].r_addr = src /\ routes[r].r_callno = c

Matches(src, c) ==
    {r \in index[c] : /\ routes[r].status \in {"SETTED", "RELEASING"}
                      /\ IsLeft(r, src, c) \/ IsRight(r, src, c)}

\* find_routeinfo_by_addr_and_callno returns the first match of the chain.  New
\* entries go to the front, and only the newest route is ever entered (it is the
\* only one FindByToken returns): the chain is in order of decreasing id.
Found(r, src, c) ==
    /\ r \in Matches(src, c)
    /\ \A q \in Matches(src, c) : q <= r

PeerAddr(r, src, c) ==
    IF IsLeft(r, src, c) THEN routes[r].r_addr ELSE routes[r].l_addr

SameIp(r) == Ip[r.l_addr] = Ip[r.r_addr]

\* add_route_to_RtInfoListArray
AddRoute(c, r) == [index EXCEPT ![c] = @ \cup {r}]

DelLeftLeg(ix, a, c) ==     \* mutant: only the left side is compared
    [ix EXCEPT ![c] = {r \in @ : ~IsLeft(r, a, c)}]

\* del_route_from_RtInfoListArray: every route of the chain that has this leg
\* goes, not only the one that is being released.
DelLeg(ix, a, c) ==
    [ix EXCEPT ![c] = {r \in @ : ~IsLeft(r, a, c) /\ ~IsRight(r, a, c)}]

NotifyRight(r, event) == Sendto(r.r_addr, r.l_pkt, event)   \* mutant: one leg only

\* Both saved packets, each sent to the opposite leg with the same TXEVENT.
Notify(r, event) ==
    Sendto(r.r_addr, r.l_pkt, event) \cup Sendto(r.l_addr, r.r_pkt, event)

-----------------------------------------------------------------------------
(* TXCNT.  The second leg is known by its call number, not by its address.   *)

IsOtherLegByAddr(r, src, c) == r.l_addr # src   \* mutant: compares addresses

IsOtherLeg(r, src, c) == r.l_callno # c

TxcntNewRoute(src, c, t) ==
    /\ FindByToken(t) = 0
    /\ nroutes < MaxRoutes
    /\ nroutes' = nroutes + 1
    /\ rti' = nroutes'
    /\ routes' = [routes EXCEPT ![nroutes'] =
            [Blank EXCEPT !.token = t, !.l_addr = src, !.l_callno = c,
                          !.status = "SETTING", !.l_pkt = "TXCNT"]]
    /\ index' = AddRoute(c, nroutes')
    /\ out' = {}

\* The same call number while SETTING: a retransmission, or the leg moved.
TxcntSameLeg(src, c, t) ==
    /\ FindByToken(t) # 0
    /\ routes[rti].status = "SETTING" /\ ~IsOtherLeg(routes[rti], src, c)
    /\ routes' = [routes EXCEPT ![rti].l_addr = src, ![rti].l_pkt = "TXCNT"]
    /\ out' = {}
    /\ UNCHANGED <<nroutes, rti, index>>

TxcntOtherLeg(src, c, t) ==
    /\ FindByToken(t) # 0
    /\ routes[rti].status = "SETTING" /\ IsOtherLeg(routes[rti], src, c)
    /\ routes' = [routes EXCEPT ![rti].r_callno = c, ![rti].r_addr = src,
                                ![rti].status = "SETTED"]
    /\ out' = Sendto(routes[rti].l_addr, "TXCNT", NoEvent)
              \cup Sendto(src, routes[rti].l_pkt, NoEvent)
    /\ index' = AddRoute(c, rti)
    /\ UNCHANGED <<nroutes, rti>>

\* A TXCNT for a route that is past SETTING is dropped.
TxcntDropped(t) ==
    /\ FindByToken(t) # 0
    /\ routes[rti].status # "SETTING"
    /\ out' = {}
    /\ UNCHANGED <<routes, nroutes, rti, index>>

-----------------------------------------------------------------------------
(* HEARTBEAT.  The leg is told by its call number alone; the test of status  *)
(* around the branch is (>= SETTED || <= RELEASING), which always holds.     *)

MoveLegKeepingStatus(r, left, src) ==   \* mutant: the route stays on its direct path
    [r EXCEPT !.txstatus = {},
              !.l_addr = IF left THEN src ELSE @,
              !.r_addr = IF left THEN @ ELSE src]

\* The route with one leg at a new address: back on the relay, TXREADY forgotten.
MoveLeg(r, left, src) ==
    [r EXCEPT !.txstatus = {},
              !.l_addr = IF left THEN src ELSE @,
              !.r_addr = IF left THEN @ ELSE src,
              !.status = IF @ \in Established THEN "SETTED" ELSE @]

\* The leg sends from a new address: both legs are told to fall back to the relay.
HeartbeatMoved(src, c, t) ==
    /\ FindByToken(t) # 0
    /\ LET r     == routes[rti]
           left  == r.l_callno = c
           moved == MoveLeg(r, left, src)
       IN  /\ src # (IF left THEN r.l_addr ELSE r.r_addr)
           /\ routes' = [routes EXCEPT ![rti] = moved]
           /\ out' = IF r.status \in Established THEN Notify(moved, "RS") ELSE {}
    /\ UNCHANGED <<nroutes, rti, index>>

\* The event appended to a forwarded heartbeat.  A status that has no branch
\* leaves the zeroed byte of pktbuf, which reads as INIT_NAT.
HeartbeatEvent(r) ==
    CASE r.status = "SETTED"             -> IF SameIp(r) THEN "INIT_P2P" ELSE "INIT_NAT"
      [] r.status \in {"NATTED", "P2PED"} -> "NONE"
      [] OTHER                           -> "INIT_NAT"

HeartbeatForwarded(src, c, t) ==
    /\ FindByToken(t) # 0
    /\ LET r    == routes[rti]
           left == r.l_callno = c
       IN  /\ src = (IF left THEN r.l_addr ELSE r.r_addr)
           /\ routes' = [routes EXCEPT ![rti] =
                [r EXCEPT !.txstatus = {},
                          !.l_pkt = IF left THEN "HEARTBEAT" ELSE @,
                          !.r_pkt = IF left THEN @ ELSE "HEARTBEAT"]]
           /\ out' = Sendto(IF left THEN r.r_addr ELSE r.l_addr,
                            "HEARTBEAT", HeartbeatEvent(r))
    /\ UNCHANGED <<nroutes, rti, index>>

HeartbeatUnknown(t) ==
    /\ FindByToken(t) = 0
    /\ out' = {}
    /\ UNCHANGED <<routes, nroutes, rti, index>>

-----------------------------------------------------------------------------
(* TXREADY: a leg has heard the other one directly. *)

TxBit(r, left) ==
    CASE left  /\ ~SameIp(r) -> "lNAT"
      [] ~left /\ ~SameIp(r) -> "rNAT"
      [] left  /\ SameIp(r)  -> "lP2P"
      [] ~left /\ SameIp(r)  -> "rP2P"

Txready(src, c) ==
    \E r \in RouteIds :
        /\ Found(r, src, c)
        /\ LET tx == IF routes[r].status = "SETTED"
                     THEN routes[r].txstatus \cup {TxBit(routes[r], IsLeft(r, src, c))}
                     ELSE routes[r].txstatus
           IN  /\ routes' = [routes EXCEPT ![r] =
                    [routes[r] EXCEPT !.txstatus = tx,
                                      !.status = CASE tx = NatBits -> "NATTED"
                                                   [] tx = P2pBits -> "P2PED"
                                                   [] OTHER        -> routes[r].status]]
               /\ out' = CASE tx = NatBits -> Notify(routes[r], "NAT")
                           [] tx = P2pBits -> Notify(routes[r], "P2P")
                           [] OTHER        -> {}
        /\ UNCHANGED <<nroutes, rti, index>>

-----------------------------------------------------------------------------
(* Every other full frame, and the audio and video mini frames. *)

Forward(src, c, type) ==
    \E r \in RouteIds :
        /\ Found(r, src, c)
        /\ out' = Sendto(PeerAddr(r, src, c), type, NoEvent)
        /\ UNCHANGED <<routes, nroutes, rti, index>>

\* HANGUP and TXREJ are forwarded too and then take the route out of the index.
Release(src, c, type, status) ==
    \E r \in RouteIds :
        /\ Found(r, src, c)
        /\ out' = Sendto(PeerAddr(r, src, c), type, NoEvent)
        /\ routes' = [routes EXCEPT ![r].status = status]
        /\ index' = DelLeg(DelLeg(index, routes[r].l_addr, routes[r].l_callno),
                           routes[r].r_addr, routes[r].r_callno)
        /\ UNCHANGED <<nroutes, rti>>

\* "Routing table is not established": TXREADY, full frame or media is discarded.
Discard(src, c) ==
    /\ Matches(src, c) = {}
    /\ out' = {}
    /\ UNCHANGED <<routes, nroutes, rti, index>>

-----------------------------------------------------------------------------

Init ==
    /\ routes = [r \in RouteIds |-> Blank]
    /\ nroutes = 0
    /\ rti = 0
    /\ index = [c \in Callno |-> {}]
    /\ out = {}

Next ==
    \E src \in Addr, c \in Callno :
        \/ \E t \in Token : \/ TxcntNewRoute(src, c, t)
                            \/ TxcntSameLeg(src, c, t)
                            \/ TxcntOtherLeg(src, c, t)
                            \/ TxcntDropped(t)
                            \/ HeartbeatMoved(src, c, t)
                            \/ HeartbeatForwarded(src, c, t)
                            \/ HeartbeatUnknown(t)
        \/ Txready(src, c)
        \/ \E type \in {"FULL", "MINI"} : Forward(src, c, type)
        \/ Release(src, c, "HANGUP", "RELEASING")
        \/ Release(src, c, "TXREJ", "RELEASED")
        \/ Discard(src, c)

Spec == Init /\ [][Next]_vars

-----------------------------------------------------------------------------
(* Properties *)

\* The variables keep their types, and the list head is the newest route, the
\* reason why the chains of the index are in order of creation.
TypeOK ==
    /\ routes \in [RouteIds -> RT_Info]
    /\ nroutes \in 0 .. MaxRoutes
    /\ rti = nroutes
    /\ index \in [Callno -> SUBSET RouteIds]

\* A route that was hung up or rejected is in no chain of RtInfoListArray, so no
\* later frame is forwarded along it, whatever else was entered or deleted in
\* between; and a chain holds only routes that have a leg of its call number.
ReleasedIsUnreachable ==
    \A c \in Callno : \A r \in index[c] :
        /\ routes[r].status \notin {"IDEL", "RELEASING", "RELEASED"}
        /\ c \in {routes[r].l_callno, routes[r].r_callno}

\* The TXREADY bits a route has collected are all of the kind its two addresses
\* call for now: bits collected before an address changed never combine with
\* later ones into a switch to the wrong kind of path.
ReadyBitsFitAddresses ==
    \A r \in RouteIds :
        routes[r].txstatus # {} =>
            /\ routes[r].status # "SETTING"
            /\ routes[r].txstatus \subseteq
                    (IF SameIp(routes[r]) THEN P2pBits ELSE NatBits)

\* A pair is NATTED only while its legs have different public IPs, P2PED only
\* while they share one: a leg that moves takes the route back to SETTED.
DirectPathFitsAddresses ==
    \A r \in RouteIds :
        /\ routes[r].status = "NATTED" => ~SameIp(routes[r])
        /\ routes[r].status = "P2PED"  => SameIp(routes[r])

\* A switch to a direct path always fits the addresses that its legs have now, with the
\* bits collected before as with the path in use.
PathFitsAddresses == ReadyBitsFitAddresses /\ DirectPathFitsAddresses

\* The two legs of a route that reached SETTED have different call numbers and
\* known addresses, so a frame is never taken for one of the wrong side.
LegsAreDistinct ==
    \A r \in RouteIds :
        routes[r].status \notin {"IDEL", "SETTING"} =>
            /\ routes[r].l_callno # routes[r].r_callno
            /\ routes[r].l_addr # NoAddr /\ routes[r].r_addr # NoAddr

\* A datagram the relay sends about a direct path (NAT, P2P) goes to the two
\* legs of one route that both reported TXREADY; the event agrees with the
\* state the route is in after the step.
SwitchIsAnnouncedToBoth ==
    [][\A d \in out' : d.event \in {"NAT", "P2P"} =>
          \E r \in RouteIds :
             /\ routes[r].status = "SETTED"
             /\ routes'[r].status = (IF d.event = "NAT" THEN "NATTED" ELSE "P2PED")
             /\ {routes'[r].l_addr, routes'[r].r_addr} = {e.to : e \in out'}]_vars

\* A route never goes back: once SETTED it keeps its token and call numbers, it
\* never returns to SETTING, and one that was hung up or rejected stays so: no
\* late HEARTBEAT or TXREADY of its legs revives it.
KeepsItsPlace(r) ==
    routes[r].status \notin {"IDEL", "SETTING"} =>
        /\ routes'[r].status \notin {"IDEL", "SETTING"}
        /\ routes'[r].token = routes[r].token
        /\ routes'[r].l_callno = routes[r].l_callno
        /\ routes'[r].r_callno = routes[r].r_callno
        /\ routes[r].status \in {"RELEASING", "RELEASED"} =>
               routes'[r].status = routes[r].status

RouteNeverReopens == [][\A r \in RouteIds : KeepsItsPlace(r)]_vars

=============================================================================
