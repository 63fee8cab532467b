-------------------------- MODULE RelayServerProofs --------------------------
(***************************************************************************)
(* The safety of the relay's route table, for any number of addresses,     *)
(* call numbers, tokens and routes.                                        *)
(***************************************************************************)
EXTENDS RelayServer, TLAPS

\* What process_udp keeps true of one route, by the stage it has reached.
RouteInv(r) ==
    /\ r > nroutes => routes[r].status = "IDEL"
    /\ r <= nroutes => /\ routes[r].status # "IDEL"
                       /\ routes[r].l_addr \in Addr
                       /\ routes[r].l_callno \in Callno
    /\ routes[r].status = "IDEL" => routes[r].txstatus = {}
    /\ routes[r].status = "SETTING" => /\ routes[r].r_callno = NoCallno
                                       /\ routes[r].txstatus = {}
    /\ routes[r].status \notin {"IDEL", "SETTING"} =>
            /\ routes[r].l_callno # routes[r].r_callno
            /\ routes[r].r_addr \in Addr
            /\ routes[r].r_callno \in Callno

TableInv == \A r \in RouteIds : RouteInv(r)

IInv ==
    /\ TypeOK
    /\ TableInv
    /\ ReleasedIsUnreachable
    /\ ReadyBitsFitAddresses
    /\ DirectPathFitsAddresses

-----------------------------------------------------------------------------

\* Where a token is found, it is the newest route, and that route exists.
LEMMA FoundByTokenIsNewest ==
    ASSUME TypeOK, NEW t, FindByToken(t) # 0
    PROVE  rti \in RouteIds /\ rti = nroutes
BY RelayAssumption DEF TypeOK, FindByToken, RouteIds

\* A fresh route gets the id after the newest one.
LEMMA NextRouteId ==
    ASSUME TypeOK, nroutes < MaxRoutes
    PROVE  nroutes + 1 \in RouteIds /\ nroutes + 1 > nroutes
BY RelayAssumption DEF TypeOK, RouteIds

\* Init satisfies the invariant.
LEMMA InitInv == Init => IInv
BY RelayAssumption DEF Init, IInv, TypeOK, TableInv, RouteInv, ReleasedIsUnreachable,
    ReadyBitsFitAddresses, DirectPathFitsAddresses, RT_Info, Blank, RouteIds, Status,
    Pkt, NatBits, P2pBits

LEMMA TxcntNewRouteInv ==
    ASSUME IInv, NEW src \in Addr, NEW c \in Callno, NEW t \in Token,
           TxcntNewRoute(src, c, t)
    PROVE  IInv'
<1> USE RelayAssumption DEF IInv
<1> DEFINE n == nroutes + 1
           new == [Blank EXCEPT !.token = t, !.l_addr = src, !.l_callno = c,
                                !.status = "SETTING", !.l_pkt = "TXCNT"]
<1>1. /\ n \in RouteIds /\ n > nroutes
      /\ nroutes' = n /\ rti' = n
      /\ routes' = [routes EXCEPT ![n] = new]
      /\ index' = [index EXCEPT ![c] = @ \cup {n}]
  BY NextRouteId DEF TxcntNewRoute, AddRoute
<1>2. /\ new \in RT_Info /\ new.status = "SETTING" /\ new.txstatus = {}
      /\ new.r_callno = NoCallno /\ new.l_addr = src /\ new.l_callno = c
  BY DEF Blank, RT_Info, Status, Pkt
<1> HIDE DEF new
<1>3. TypeOK'
  BY <1>1, <1>2 DEF TypeOK, RouteIds
<1>4. \A r \in RouteIds : r # n => routes'[r] = routes[r]
  BY <1>1 DEF TypeOK
<1>5. routes'[n] = new
  BY <1>1 DEF TypeOK
<1>6. TableInv'
  BY <1>1, <1>2, <1>4, <1>5 DEF TableInv, RouteInv, TypeOK, RouteIds
<1>7. ReleasedIsUnreachable'
  <2>1. routes[n].status = "IDEL"
    BY <1>1 DEF TableInv, RouteInv
  <2>2. \A k \in Callno : n \notin index[k]
    BY <2>1 DEF ReleasedIsUnreachable
  <2>3. ASSUME NEW k \in Callno, NEW r \in index'[k], r # n
        PROVE  r \in RouteIds /\ r \in index[k] /\ routes'[r] = routes[r]
    BY <1>1, <1>4, <2>3 DEF TypeOK
  <2>4. ASSUME NEW k \in Callno, n \in index'[k]
        PROVE  k = c
    BY <1>1, <2>2, <2>4 DEF TypeOK
  <2> QED BY <1>2, <1>5, <2>3, <2>4 DEF ReleasedIsUnreachable
<1>8. ReadyBitsFitAddresses' /\ DirectPathFitsAddresses'
  BY <1>2, <1>4, <1>5 DEF ReadyBitsFitAddresses, DirectPathFitsAddresses, SameIp
<1> QED BY <1>3, <1>6, <1>7, <1>8

\* An update of one existing route that leaves the index alone: what the new
\* record must satisfy for the invariant to survive.
LEMMA RouteUpdateInv ==
    ASSUME IInv,
           NEW n \in RouteIds, n <= nroutes,
           NEW new \in RT_Info,
           routes' = [routes EXCEPT ![n] = new],
           UNCHANGED <<nroutes, rti, index>>,
           new.l_callno = routes[n].l_callno, new.r_callno = routes[n].r_callno,
           new.l_addr \in Addr,
           new.status # "IDEL",
           routes[n].status \notin {"RELEASING", "RELEASED"} =>
                new.status \notin {"RELEASING", "RELEASED"},
           new.status = "SETTING" <=> routes[n].status = "SETTING",
           new.status = "SETTING" => new.txstatus = {},
           new.status # "SETTING" => new.r_addr \in Addr,
           new.txstatus \subseteq (IF SameIp(new) THEN P2pBits ELSE NatBits),
           new.status = "NATTED" => ~SameIp(new),
           new.status = "P2PED"  => SameIp(new)
    PROVE  IInv'
<1> USE RelayAssumption DEF IInv
<1>1. routes[n] \in RT_Info /\ RouteInv(n)
  BY DEF TypeOK, TableInv
<1>2. /\ routes'[n] = new
      /\ \A r \in RouteIds : r # n => routes'[r] = routes[r]
  BY DEF TypeOK
<1>3. TypeOK'
  BY DEF TypeOK
<1>4. RouteInv(n)'
  BY <1>1, <1>2 DEF RouteInv, TypeOK, RouteIds
<1>5. \A r \in RouteIds : r # n => RouteInv(r)'
  BY <1>2 DEF TableInv, RouteInv
<1>6. TableInv'
  BY <1>4, <1>5 DEF TableInv
<1>7. ReleasedIsUnreachable'
  BY <1>1, <1>2 DEF ReleasedIsUnreachable, TypeOK, RouteInv
<1>8. ReadyBitsFitAddresses' /\ DirectPathFitsAddresses'
  BY <1>2 DEF ReadyBitsFitAddresses, DirectPathFitsAddresses, SameIp
<1> QED BY <1>3, <1>6, <1>7, <1>8

LEMMA TxcntSameLegInv ==
    ASSUME IInv, NEW src \in Addr, NEW c \in Callno, NEW t \in Token,
           TxcntSameLeg(src, c, t)
    PROVE  IInv'
<1> DEFINE new == [routes[rti] EXCEPT !.l_addr = src, !.l_pkt = "TXCNT"]
<1>1. /\ rti \in RouteIds /\ rti = nroutes
      /\ routes[rti].status = "SETTING"
      /\ routes' = [routes EXCEPT ![rti] = new]
      /\ UNCHANGED <<nroutes, rti, index>>
  BY FoundByTokenIsNewest DEF TxcntSameLeg, IInv, TypeOK
<1>2. routes[rti] \in RT_Info /\ RouteInv(rti)
  BY <1>1 DEF IInv, TypeOK, TableInv
<1>3. /\ new \in RT_Info /\ new.status = "SETTING" /\ new.txstatus = {}
      /\ new.l_addr = src /\ new.r_callno = routes[rti].r_callno
      /\ new.l_callno = routes[rti].l_callno
  BY <1>1, <1>2 DEF RouteInv, RT_Info, Pkt
<1>4. rti <= nroutes
  BY <1>1 DEF RouteIds
<1> HIDE DEF new
<1> QED BY <1>1, <1>3, <1>4, RouteUpdateInv

\* The current route after a heartbeat: its legs, what is to be sent to them, its status
Heartbeat(la, ra, lp, rp, st) ==
    routes' = [routes EXCEPT ![rti] =
        [routes[rti] EXCEPT !.txstatus = {}, !.l_addr = la, !.r_addr = ra,
                            !.l_pkt = lp, !.r_pkt = rp, !.status = st]]

\* The common part of both HEARTBEAT actions: whichever leg is meant, the
\* fields a heartbeat may change keep the invariant once txstatus is cleared.
LEMMA HeartbeatUpdateInv ==
    ASSUME IInv, NEW t \in Token, FindByToken(t) # 0,
           NEW la, NEW ra, NEW lp \in Pkt, NEW rp \in Pkt, NEW st,
           la \in Addr,
           ra \in Addr \cup {NoAddr},
           routes[rti].status # "SETTING" => ra \in Addr,
           st = (IF routes[rti].status \in Established /\
                        (la # routes[rti].l_addr \/ ra # routes[rti].r_addr)
                 THEN "SETTED" ELSE routes[rti].status),
           Heartbeat(la, ra, lp, rp, st),
           UNCHANGED <<nroutes, rti, index>>
    PROVE  IInv'
<1> DEFINE old == routes[rti]
           new == [old EXCEPT !.txstatus = {}, !.l_addr = la, !.r_addr = ra,
                              !.l_pkt = lp, !.r_pkt = rp, !.status = st]
<1>1. rti \in RouteIds /\ rti <= nroutes
  BY FoundByTokenIsNewest DEF IInv, RouteIds
<1>2. old \in RT_Info /\ RouteInv(rti)
  BY <1>1 DEF IInv, TypeOK, TableInv
<1>3. /\ st \in Status /\ st # "IDEL"
      /\ st = "SETTING" <=> old.status = "SETTING"
      /\ st \in {"NATTED", "P2PED"} => la = old.l_addr /\ ra = old.r_addr /\ st = old.status
      /\ old.status \notin {"RELEASING", "RELEASED"} => st \notin {"RELEASING", "RELEASED"}
  BY <1>1, <1>2 DEF RouteInv, RT_Info, Status, Established
<1>4. new \in RT_Info
  <2>1. {} \in SUBSET (NatBits \cup P2pBits)
    BY Zenon
  <2>2. la \in Addr \cup {NoAddr} /\ ra \in Addr \cup {NoAddr} /\ st \in Status
    BY <1>3
  <2> HIDE DEF old
  <2> QED BY <1>2, <2>1, <2>2 DEF RT_Info
<1>5. /\ new.txstatus = {} /\ new.l_addr = la /\ new.r_addr = ra /\ new.status = st
      /\ new.l_callno = old.l_callno /\ new.r_callno = old.r_callno
  BY <1>2 DEF RT_Info
<1>6. /\ new.status = "NATTED" => ~SameIp(new)
      /\ new.status = "P2PED"  => SameIp(new)
  BY <1>1, <1>3, <1>5 DEF IInv, DirectPathFitsAddresses, SameIp
<1>7. routes' = [routes EXCEPT ![rti] = new]
  BY DEF Heartbeat
<1>8. /\ new.status # "IDEL"
      /\ new.status = "SETTING" <=> old.status = "SETTING"
      /\ old.status \notin {"RELEASING", "RELEASED"} =>
            new.status \notin {"RELEASING", "RELEASED"}
      /\ new.status # "SETTING" => new.r_addr \in Addr
      /\ new.txstatus \subseteq (IF SameIp(new) THEN P2pBits ELSE NatBits)
  BY <1>3, <1>5
<1> HIDE DEF new
<1> QED BY <1>1, <1>4, <1>5, <1>6, <1>7, <1>8, RouteUpdateInv

LEMMA TxcntOtherLegInv ==
    ASSUME IInv, NEW src \in Addr, NEW c \in Callno, NEW t \in Token,
           TxcntOtherLeg(src, c, t)
    PROVE  IInv'
<1> USE RelayAssumption DEF IInv
<1> DEFINE n == rti
           new == [routes[n] EXCEPT !.r_callno = c, !.r_addr = src, !.status = "SETTED"]
<1>1. /\ n \in RouteIds /\ n = nroutes
      /\ routes[n].status = "SETTING" /\ routes[n].l_callno # c
      /\ routes' = [routes EXCEPT ![n] = new]
      /\ index' = [index EXCEPT ![c] = @ \cup {n}]
      /\ UNCHANGED <<nroutes, rti>>
  BY FoundByTokenIsNewest DEF TxcntOtherLeg, IsOtherLeg, TypeOK, AddRoute
<1>2. routes[n] \in RT_Info /\ RouteInv(n)
  BY <1>1 DEF TypeOK, TableInv
<1>3. /\ new \in RT_Info /\ new.status = "SETTED" /\ new.txstatus = {}
      /\ new.r_callno = c /\ new.r_addr = src
      /\ new.l_callno = routes[n].l_callno /\ new.l_addr = routes[n].l_addr
  BY <1>1, <1>2 DEF RouteInv, RT_Info, Status
<1> HIDE DEF new
<1>4. \A r \in RouteIds : r # n => routes'[r] = routes[r]
  BY <1>1 DEF TypeOK
<1>5. routes'[n] = new
  BY <1>1 DEF TypeOK
<1>6. TypeOK'
  BY <1>1, <1>3 DEF TypeOK
<1>7. TableInv'
  BY <1>1, <1>2, <1>3, <1>4, <1>5 DEF TableInv, RouteInv
<1>8. ReleasedIsUnreachable'
  <2>1. ASSUME NEW k \in Callno, n \in index[k]
        PROVE  k = routes[n].l_callno
    BY <1>1, <1>2, <2>1 DEF ReleasedIsUnreachable, RouteInv
  <2>2. ASSUME NEW k \in Callno, NEW r \in index'[k], r # n
        PROVE  r \in RouteIds /\ r \in index[k] /\ routes'[r] = routes[r]
    BY <1>1, <1>4, <2>2 DEF TypeOK
  <2>3. ASSUME NEW k \in Callno, n \in index'[k]
        PROVE  k \in {routes[n].l_callno, c}
    BY <1>1, <2>1, <2>3 DEF TypeOK
  <2> QED BY <1>3, <1>5, <2>2, <2>3 DEF ReleasedIsUnreachable
<1>9. ReadyBitsFitAddresses' /\ DirectPathFitsAddresses'
  BY <1>3, <1>4, <1>5 DEF ReadyBitsFitAddresses, DirectPathFitsAddresses, SameIp
<1> QED BY <1>6, <1>7, <1>8, <1>9

LEMMA HeartbeatMovedInv ==
    ASSUME IInv, NEW src \in Addr, NEW c \in Callno, NEW t \in Token,
           HeartbeatMoved(src, c, t)
    PROVE  IInv'
<1> DEFINE r == routes[rti]
           left == r.l_callno = c
           la == IF left THEN src ELSE r.l_addr
           ra == IF left THEN r.r_addr ELSE src
           st == IF r.status \in Established THEN "SETTED" ELSE r.status
<1>1. rti \in RouteIds /\ rti = nroutes /\ r \in RT_Info /\ RouteInv(rti)
  BY FoundByTokenIsNewest DEF HeartbeatMoved, IInv, TypeOK, TableInv
<1>2. /\ r.status # "IDEL" /\ r.l_addr \in Addr /\ r.r_addr \in Addr \cup {NoAddr}
      /\ r.status # "SETTING" => r.r_addr \in Addr
  BY <1>1 DEF RouteInv, RouteIds, RT_Info
<1>3. la \in Addr /\ ra \in Addr \cup {NoAddr} /\ (r.status # "SETTING" => ra \in Addr)
  BY <1>2
<1>4. la # r.l_addr \/ ra # r.r_addr
  BY DEF HeartbeatMoved
<1>5. [r EXCEPT !.txstatus = {}, !.l_addr = la, !.r_addr = ra, !.status = st]
        = [r EXCEPT !.txstatus = {}, !.l_addr = la, !.r_addr = ra,
                    !.l_pkt = r.l_pkt, !.r_pkt = r.r_pkt, !.status = st]
  BY <1>1 DEF RT_Info
<1>6. routes' = [routes EXCEPT ![rti] =
        [r EXCEPT !.txstatus = {}, !.l_addr = la, !.r_addr = ra, !.status = st]]
  BY DEF HeartbeatMoved, MoveLeg
<1>7. r.l_pkt \in Pkt /\ r.r_pkt \in Pkt
  BY <1>1 DEF RT_Info
<1>8. UNCHANGED <<nroutes, rti, index>> /\ FindByToken(t) # 0
  BY DEF HeartbeatMoved
<1>9. routes' = [routes EXCEPT ![rti] =
        [r EXCEPT !.txstatus = {}, !.l_addr = la, !.r_addr = ra,
                  !.l_pkt = r.l_pkt, !.r_pkt = r.r_pkt, !.status = st]]
  BY <1>5, <1>6
<1>11. Heartbeat(la, ra, r.l_pkt, r.r_pkt, st)
  BY <1>9 DEF Heartbeat
<1>10. st = (IF r.status \in Established /\ (la # r.l_addr \/ ra # r.r_addr)
             THEN "SETTED" ELSE r.status)
  BY <1>4
<1> HIDE DEF la, ra, st
<1> QED BY <1>3, <1>7, <1>8, <1>10, <1>11, HeartbeatUpdateInv

LEMMA HeartbeatForwardedInv ==
    ASSUME IInv, NEW src \in Addr, NEW c \in Callno, NEW t \in Token,
           HeartbeatForwarded(src, c, t)
    PROVE  IInv'
<1> DEFINE r == routes[rti]
           left == r.l_callno = c
           lp == IF left THEN "HEARTBEAT" ELSE r.l_pkt
           rp == IF left THEN r.r_pkt ELSE "HEARTBEAT"
<1>1. rti \in RouteIds /\ rti = nroutes /\ r \in RT_Info /\ RouteInv(rti)
  BY FoundByTokenIsNewest DEF HeartbeatForwarded, IInv, TypeOK, TableInv
<1>2. /\ r.status # "IDEL" /\ r.l_addr \in Addr /\ r.r_addr \in Addr \cup {NoAddr}
      /\ r.status # "SETTING" => r.r_addr \in Addr
  BY <1>1 DEF RouteInv, RouteIds, RT_Info
<1>3. lp \in Pkt /\ rp \in Pkt
  BY <1>1 DEF RT_Info, Pkt
<1>4. [r EXCEPT !.txstatus = {}, !.l_pkt = lp, !.r_pkt = rp]
        = [r EXCEPT !.txstatus = {}, !.l_addr = r.l_addr, !.r_addr = r.r_addr,
                    !.l_pkt = lp, !.r_pkt = rp, !.status = r.status]
  BY <1>1 DEF RT_Info
<1>5. routes' = [routes EXCEPT ![rti] = [r EXCEPT !.txstatus = {}, !.l_pkt = lp, !.r_pkt = rp]]
  BY DEF HeartbeatForwarded
<1>6. UNCHANGED <<nroutes, rti, index>> /\ FindByToken(t) # 0
  BY DEF HeartbeatForwarded
<1>7. routes' = [routes EXCEPT ![rti] =
        [r EXCEPT !.txstatus = {}, !.l_addr = r.l_addr, !.r_addr = r.r_addr,
                  !.l_pkt = lp, !.r_pkt = rp, !.status = r.status]]
  BY <1>4, <1>5
<1>9. Heartbeat(r.l_addr, r.r_addr, lp, rp, r.status)
  BY <1>7 DEF Heartbeat
<1>8. r.status = (IF r.status \in Established /\
                       (r.l_addr # r.l_addr \/ r.r_addr # r.r_addr)
                  THEN "SETTED" ELSE r.status)
  OBVIOUS
<1> HIDE DEF lp, rp
<1> QED BY <1>2, <1>3, <1>6, <1>8, <1>9, HeartbeatUpdateInv

\* A route found through the index is established: SETTED, since a RELEASING
\* one is in no chain.
LEMMA FoundIsSetted ==
    ASSUME IInv, NEW src \in Addr, NEW c \in Callno, NEW r \in RouteIds, Found(r, src, c)
    PROVE  /\ r \in RouteIds /\ r <= nroutes
           /\ routes[r] \in RT_Info /\ RouteInv(r)
           /\ routes[r].status = "SETTED"
           /\ r \in index[c]
<1>1. r \in index[c] /\ routes[r].status \in {"SETTED", "RELEASING"}
  BY DEF Found, Matches
<1>2. routes[r] \in RT_Info /\ RouteInv(r)
  BY DEF IInv, TypeOK, TableInv
<1>3. routes[r].status # "RELEASING"
  BY <1>1 DEF IInv, ReleasedIsUnreachable
<1>4. r <= nroutes
  BY <1>1, <1>2 DEF RouteInv, IInv, TypeOK, RouteIds
<1> QED BY <1>1, <1>2, <1>3, <1>4

LEMMA TxreadyInv ==
    ASSUME IInv, NEW src \in Addr, NEW c \in Callno, Txready(src, c)
    PROVE  IInv'
<1>1. PICK r \in RouteIds : Found(r, src, c) /\ Txready(src, c)!(r)
  BY DEF Txready
<1> DEFINE old == routes[r]
           tx == old.txstatus \cup {TxBit(old, IsLeft(r, src, c))}
           st == CASE tx = NatBits -> "NATTED" [] tx = P2pBits -> "P2PED"
                   [] OTHER -> old.status
           new == [old EXCEPT !.txstatus = tx, !.status = st]
<1>2. /\ r <= nroutes /\ old \in RT_Info /\ RouteInv(r)
      /\ old.status = "SETTED" /\ r \in index[c]
  BY <1>1, FoundIsSetted
<1>3. /\ routes' = [routes EXCEPT ![r] = new]
      /\ UNCHANGED <<nroutes, rti, index>>
  <2> DEFINE tx0 == IF old.status = "SETTED"
                    THEN old.txstatus \cup {TxBit(old, IsLeft(r, src, c))}
                    ELSE old.txstatus
  <2>1. tx0 = tx
    BY <1>2
  <2>2. /\ routes' = [routes EXCEPT ![r] = [old EXCEPT !.txstatus = tx0,
                        !.status = CASE tx0 = NatBits -> "NATTED"
                                     [] tx0 = P2pBits -> "P2PED"
                                     [] OTHER -> old.status]]
        /\ UNCHANGED <<nroutes, rti, index>>
    BY <1>1
  <2> HIDE DEF tx0, tx
  <2> QED BY <2>1, <2>2
<1>5. TxBit(old, IsLeft(r, src, c)) \in (IF SameIp(old) THEN P2pBits ELSE NatBits)
  BY DEF TxBit, NatBits, P2pBits
<1>6. tx \subseteq (IF SameIp(old) THEN P2pBits ELSE NatBits)
  BY <1>5 DEF IInv, ReadyBitsFitAddresses
<1>7. /\ st \in {"SETTED", "NATTED", "P2PED"}
      /\ st = "NATTED" => ~SameIp(old)
      /\ st = "P2PED" => SameIp(old)
  BY <1>2, <1>6 DEF NatBits, P2pBits
<1>8. /\ new \in RT_Info /\ new.status = st /\ new.txstatus = tx
      /\ new.l_callno = old.l_callno /\ new.r_callno = old.r_callno
      /\ new.l_addr = old.l_addr /\ new.r_addr = old.r_addr
  BY <1>2, <1>6, <1>7 DEF RT_Info, Status
<1>9. SameIp(new) = SameIp(old)
  BY <1>8 DEF SameIp
<1>10. old.l_addr \in Addr /\ old.r_addr \in Addr
  BY <1>2 DEF RouteInv, IInv, TypeOK, RouteIds
<1> HIDE DEF new
<1> QED BY <1>2, <1>3, <1>6, <1>7, <1>8, <1>9, <1>10, RouteUpdateInv

LEMMA ReleaseInv ==
    ASSUME IInv, NEW src \in Addr, NEW c \in Callno, NEW type,
           NEW st \in {"RELEASING", "RELEASED"}, Release(src, c, type, st)
    PROVE  IInv'
<1>1. PICK r \in RouteIds : Found(r, src, c) /\ Release(src, c, type, st)!(r)
  BY DEF Release
<1> DEFINE old == routes[r]
           new == [old EXCEPT !.status = st]
<1>2. /\ r <= nroutes /\ old \in RT_Info /\ RouteInv(r) /\ old.status = "SETTED"
  BY <1>1, FoundIsSetted
<1>3. /\ old.l_callno \in Callno /\ old.r_callno \in Callno
      /\ old.l_addr \in Addr /\ old.r_addr \in Addr
  BY <1>2 DEF RouteInv, IInv, TypeOK, RouteIds
<1>4. /\ routes' = [routes EXCEPT ![r] = new]
      /\ index' = DelLeg(DelLeg(index, old.l_addr, old.l_callno), old.r_addr, old.r_callno)
      /\ UNCHANGED <<nroutes, rti>>
  BY <1>1, <1>2 DEF IInv, TypeOK
<1>5. /\ new \in RT_Info /\ new.status = st /\ new.txstatus = old.txstatus
      /\ new.l_callno = old.l_callno /\ new.r_callno = old.r_callno
      /\ new.l_addr = old.l_addr /\ new.r_addr = old.r_addr
  BY <1>2 DEF RT_Info, Status
<1> HIDE DEF new
<1>6. /\ routes'[r] = new
      /\ \A q \in RouteIds : q # r => routes'[q] = routes[q]
  BY <1>4 DEF IInv, TypeOK
<1>7. ASSUME NEW k \in Callno
      PROVE  index'[k] = {q \in index[k] :
                /\ k = old.l_callno => ~IsLeft(q, old.l_addr, k) /\ ~IsRight(q, old.l_addr, k)
                /\ k = old.r_callno => ~IsLeft(q, old.r_addr, k) /\ ~IsRight(q, old.r_addr, k)}
  BY <1>3, <1>4 DEF DelLeg, IInv, TypeOK
<1>8. index' \in [Callno -> SUBSET RouteIds]
  <2>1. \A k \in Callno : index'[k] \subseteq RouteIds
    BY <1>7 DEF IInv, TypeOK
  <2>2. index' = [k \in Callno |-> index'[k]]
    BY <1>4 DEF DelLeg, IInv, TypeOK
  <2> QED BY <2>1, <2>2
<1>9. TypeOK'
  BY <1>4, <1>5, <1>8 DEF IInv, TypeOK
<1>10. RouteInv(r)'
  BY <1>2, <1>4, <1>5, <1>6 DEF RouteInv
<1>11. TableInv'
  BY <1>4, <1>6, <1>10 DEF IInv, TableInv, RouteInv
<1>12. ReleasedIsUnreachable'
  <2>1. ASSUME NEW k \in Callno, r \in index'[k]
        PROVE  FALSE
    <3>1. r \in index[k]
      BY <1>7, <2>1
    <3>2. k = old.l_callno \/ k = old.r_callno
      BY <3>1 DEF IInv, ReleasedIsUnreachable
    <3> QED BY <1>7, <2>1, <3>2 DEF IsLeft, IsRight
  <2>2. ASSUME NEW k \in Callno, NEW q \in index'[k]
        PROVE  q \in RouteIds /\ q # r /\ q \in index[k] /\ routes'[q] = routes[q]
    BY <1>6, <1>7, <2>1, <2>2 DEF IInv, TypeOK
  <2> QED BY <2>2 DEF IInv, ReleasedIsUnreachable
<1>13. ReadyBitsFitAddresses' /\ DirectPathFitsAddresses'
  BY <1>2, <1>5, <1>6 DEF IInv, ReadyBitsFitAddresses, DirectPathFitsAddresses, SameIp
<1> QED BY <1>9, <1>11, <1>12, <1>13 DEF IInv

\* The steps that answer a datagram, or drop it, without touching the table.
LEMMA UnchangedInv ==
    ASSUME IInv, UNCHANGED <<routes, nroutes, rti, index>>
    PROVE  IInv'
BY DEF IInv, TypeOK, TableInv, RouteInv, ReleasedIsUnreachable, ReadyBitsFitAddresses,
    DirectPathFitsAddresses

\* Every step of process_udp keeps the invariant.
LEMMA NextInv == IInv /\ [Next]_vars => IInv'
<1> SUFFICES ASSUME IInv, [Next]_vars PROVE IInv'
  OBVIOUS
<1>1. CASE UNCHANGED vars
  BY <1>1, UnchangedInv DEF vars
<1>2. ASSUME NEW src \in Addr, NEW c \in Callno, NEW t \in Token,
             \/ TxcntNewRoute(src, c, t) \/ TxcntSameLeg(src, c, t)
             \/ TxcntOtherLeg(src, c, t) \/ HeartbeatMoved(src, c, t)
             \/ HeartbeatForwarded(src, c, t)
      PROVE  IInv'
  BY <1>2, TxcntNewRouteInv, TxcntSameLegInv, TxcntOtherLegInv, HeartbeatMovedInv,
     HeartbeatForwardedInv
<1>3. ASSUME NEW src \in Addr, NEW c \in Callno, NEW t \in Token, NEW type,
             \/ TxcntDropped(t) \/ HeartbeatUnknown(t) \/ Forward(src, c, type)
             \/ Discard(src, c)
      PROVE  IInv'
  BY <1>3, UnchangedInv DEF TxcntDropped, HeartbeatUnknown, Forward, Discard
<1>4. ASSUME NEW src \in Addr, NEW c \in Callno, Txready(src, c)
      PROVE  IInv'
  BY <1>4, TxreadyInv
<1>5. ASSUME NEW src \in Addr, NEW c \in Callno,
             \/ Release(src, c, "HANGUP", "RELEASING")
             \/ Release(src, c, "TXREJ", "RELEASED")
      PROVE  IInv'
  BY <1>5, ReleaseInv
<1>6. ASSUME NEW src \in Addr, NEW c \in Callno, Forward(src, c, "FULL") \/ Forward(src, c, "MINI")
      PROVE  IInv'
  BY <1>6, UnchangedInv DEF Forward
<1>7. ASSUME NEW src \in Addr, NEW c \in Callno, Discard(src, c)
      PROVE  IInv'
  BY <1>7, UnchangedInv DEF Discard
<1> QED BY <1>1, <1>2, <1>3, <1>4, <1>5, <1>6, <1>7 DEF Next

THEOREM InductiveInvariant == Spec => []IInv
BY InitInv, NextInv, PTL DEF Spec

-----------------------------------------------------------------------------

\* The variables keep their types; the list head is always the newest route.
THEOREM TypeCorrect == Spec => []TypeOK
BY InductiveInvariant, PTL DEF IInv

\* No chain of RtInfoListArray ever reaches a route that was hung up or rejected
\* (process_udp, HANGUP and TXREJ branches).
THEOREM ReleasedUnreachable == Spec => []ReleasedIsUnreachable
BY InductiveInvariant, PTL DEF IInv

\* TXREADY bits and the direct path in use always fit the addresses: a HEARTBEAT that
\* changes an address has cleared them before.
THEOREM PathFits == Spec => []PathFitsAddresses
<1>1. IInv => PathFitsAddresses
  BY DEF IInv, PathFitsAddresses
<1> QED BY <1>1, InductiveInvariant, PTL

\* The legs of a route are told apart by their call numbers.
THEOREM LegsDistinct == Spec => []LegsAreDistinct
<1>1. IInv => LegsAreDistinct
  <2> SUFFICES ASSUME IInv, NEW r \in RouteIds, routes[r].status \notin {"IDEL", "SETTING"}
               PROVE  /\ routes[r].l_callno # routes[r].r_callno
                      /\ routes[r].l_addr # NoAddr /\ routes[r].r_addr # NoAddr
    BY DEF LegsAreDistinct
  <2>1. RouteInv(r)
    BY DEF IInv, TableInv
  <2> QED BY <2>1, RelayAssumption DEF RouteInv, IInv, TypeOK, RouteIds
<1> QED BY <1>1, InductiveInvariant, PTL

\* No frame, however late, reopens a route or gives its place to another call.
THEOREM NeverReopens == Spec => RouteNeverReopens
<1>1. ASSUME IInv, [Next]_vars, NEW r \in RouteIds,
             routes[r].status \notin {"IDEL", "SETTING"}
      PROVE  KeepsItsPlace(r)
  <2>1. routes[r] \in RT_Info /\ RouteInv(r)
    BY <1>1 DEF IInv, TypeOK, TableInv
  <2>2. r <= nroutes
    BY <1>1, <2>1 DEF RouteInv, IInv, TypeOK, RouteIds
  <2>3. CASE routes'[r] = routes[r]
    BY <2>3, <1>1 DEF KeepsItsPlace
  <2>4. ASSUME NEW src \in Addr, NEW c \in Callno, NEW t \in Token, TxcntNewRoute(src, c, t)
        PROVE  routes'[r] = routes[r]
    BY <1>1, <2>2, <2>4, NextRouteId DEF TxcntNewRoute, IInv, TypeOK, RouteIds
  <2>5. ASSUME NEW src \in Addr, NEW c \in Callno, NEW t \in Token,
               TxcntSameLeg(src, c, t) \/ TxcntOtherLeg(src, c, t)
        PROVE  routes'[r] = routes[r]
    BY <1>1, <2>5 DEF TxcntSameLeg, TxcntOtherLeg, IInv, TypeOK
  <2>6. ASSUME NEW src \in Addr, NEW c \in Callno, NEW t \in Token,
               HeartbeatMoved(src, c, t) \/ HeartbeatForwarded(src, c, t)
        PROVE  KeepsItsPlace(r)
    <3>1. CASE r # rti
      <4>1. routes'[r] = routes[r]
        BY <1>1, <2>6, <3>1 DEF HeartbeatMoved, HeartbeatForwarded, IInv, TypeOK
      <4> QED BY <2>3, <4>1
    <3>2. CASE r = rti
      <4>1. CASE HeartbeatMoved(src, c, t)
        <5> DEFINE old == routes[rti]
                   left == old.l_callno = c
                   la == IF left THEN src ELSE old.l_addr
                   ra == IF left THEN old.r_addr ELSE src
                   st == IF old.status \in Established THEN "SETTED" ELSE old.status
        <5>1. routes' = [routes EXCEPT ![rti] =
                [old EXCEPT !.txstatus = {}, !.l_addr = la, !.r_addr = ra, !.status = st]]
          BY <4>1 DEF HeartbeatMoved, MoveLeg
        <5> HIDE DEF la, ra
        <5> QED BY <1>1, <2>1, <3>2, <5>1 DEF KeepsItsPlace, RT_Info, Established, IInv, TypeOK
      <4>2. CASE HeartbeatForwarded(src, c, t)
        <5> DEFINE old == routes[rti]
                   left == old.l_callno = c
                   lp == IF left THEN "HEARTBEAT" ELSE old.l_pkt
                   rp == IF left THEN old.r_pkt ELSE "HEARTBEAT"
        <5>1. routes' = [routes EXCEPT ![rti] =
                [old EXCEPT !.txstatus = {}, !.l_pkt = lp, !.r_pkt = rp]]
          BY <4>2 DEF HeartbeatForwarded
        <5> HIDE DEF lp, rp
        <5> QED BY <1>1, <2>1, <3>2, <5>1 DEF KeepsItsPlace, RT_Info, IInv, TypeOK
      <4> QED BY <2>6, <4>1, <4>2
    <3> QED BY <3>1, <3>2
  <2>7. ASSUME NEW src \in Addr, NEW c \in Callno, Txready(src, c)
        PROVE  KeepsItsPlace(r)
    <3>1. PICK q \in RouteIds : Found(q, src, c) /\ Txready(src, c)!(q)
      BY <2>7 DEF Txready
    <3>2. routes[q].status = "SETTED" /\ routes[q] \in RT_Info
      BY <1>1, <3>1, FoundIsSetted
    <3>3. CASE r # q
      <4>1. routes'[r] = routes[r]
        BY <1>1, <3>1, <3>3 DEF IInv, TypeOK
      <4> QED BY <2>3, <4>1
    <3>4. CASE r = q
      <4> DEFINE tx == IF routes[q].status = "SETTED"
                       THEN routes[q].txstatus \cup {TxBit(routes[q], IsLeft(q, src, c))}
                       ELSE routes[q].txstatus
      <4>1. routes' = [routes EXCEPT ![q] = [routes[q] EXCEPT !.txstatus = tx,
                !.status = CASE tx = NatBits -> "NATTED"
                             [] tx = P2pBits -> "P2PED"
                             [] OTHER -> routes[q].status]]
        BY <3>1
      <4> HIDE DEF tx
      <4> QED BY <1>1, <3>2, <3>4, <4>1 DEF KeepsItsPlace, IInv, TypeOK, RT_Info
    <3> QED BY <3>3, <3>4
  <2>8. ASSUME NEW src \in Addr, NEW c \in Callno,
               \/ Release(src, c, "HANGUP", "RELEASING")
               \/ Release(src, c, "TXREJ", "RELEASED")
        PROVE  KeepsItsPlace(r)
    <3>1. PICK q \in RouteIds, st \in {"RELEASING", "RELEASED"} :
               Found(q, src, c) /\ routes' = [routes EXCEPT ![q].status = st]
      BY <2>8 DEF Release
    <3>2. routes[q].status = "SETTED"
      BY <1>1, <3>1, FoundIsSetted
    <3> QED BY <1>1, <2>1, <3>1, <3>2 DEF KeepsItsPlace, IInv, TypeOK, RT_Info
  <2>9. ASSUME NEW src \in Addr, NEW c \in Callno, NEW t \in Token, NEW type,
               \/ TxcntDropped(t) \/ HeartbeatUnknown(t) \/ Forward(src, c, type)
               \/ Discard(src, c)
        PROVE  routes'[r] = routes[r]
    BY <2>9 DEF TxcntDropped, HeartbeatUnknown, Forward, Discard
  <2>10. ASSUME NEW src \in Addr, NEW c \in Callno,
                Forward(src, c, "FULL") \/ Forward(src, c, "MINI") \/ Discard(src, c)
         PROVE  routes'[r] = routes[r]
    BY <2>10 DEF Forward, Discard
  <2>11. CASE UNCHANGED vars
    BY <2>3, <2>11 DEF vars
  <2> QED BY <1>1, <2>3, <2>4, <2>5, <2>6, <2>7, <2>8, <2>9, <2>10, <2>11 DEF Next
<1>2. IInv /\ [Next]_vars => [\A r \in RouteIds : KeepsItsPlace(r)]_vars
  BY <1>1 DEF KeepsItsPlace
<1> QED BY <1>2, InductiveInvariant, PTL DEF Spec, RouteNeverReopens

\* What SwitchIsAnnouncedToBoth says of one step.
Announced ==
    \A d \in out' : d.event \in {"NAT", "P2P"} =>
        \E r \in RouteIds :
            /\ routes[r].status = "SETTED"
            /\ routes'[r].status = (IF d.event = "NAT" THEN "NATTED" ELSE "P2PED")
            /\ {routes'[r].l_addr, routes'[r].r_addr} = {e.to : e \in out'}

\* A datagram has the event it was given.
LEMMA SendtoEvent ==
    ASSUME NEW to, NEW type, NEW event
    PROVE  /\ \A d \in Sendto(to, type, event) : d.event = event /\ d.to = to
           /\ to # NoAddr => \E d \in Sendto(to, type, event) : TRUE
<1>1. PICK d : d = [to |-> to, type |-> type, event |-> event]
  OBVIOUS
<1>2. to # NoAddr => d \in Sendto(to, type, event)
  BY <1>1 DEF Sendto
<1> QED BY <1>2 DEF Sendto

\* Notify reaches both legs of a route whose addresses are known.
LEMMA NotifyBoth ==
    ASSUME NEW r, NEW event, r.l_addr # NoAddr, r.r_addr # NoAddr
    PROVE  /\ \A d \in Notify(r, event) : d.event = event
           /\ {d.to : d \in Notify(r, event)} = {r.l_addr, r.r_addr}
<1>1. PICK one : one = Sendto(r.r_addr, r.l_pkt, event)
  OBVIOUS
<1>2. PICK two : two = Sendto(r.l_addr, r.r_pkt, event)
  OBVIOUS
<1>3. /\ \A d \in one : d.event = event /\ d.to = r.r_addr
      /\ \E d \in one : TRUE
  BY <1>1, SendtoEvent
<1>4. /\ \A d \in two : d.event = event /\ d.to = r.l_addr
      /\ \E d \in two : TRUE
  BY <1>2, SendtoEvent
<1>5. Notify(r, event) = one \cup two
  BY <1>1, <1>2 DEF Notify
<1> QED BY <1>3, <1>4, <1>5

\* Only TXREADY announces a switch to a direct path.
LEMMA OthersAnnounceNothing ==
    ASSUME NEW src \in Addr, NEW c \in Callno, NEW t,
           \/ TxcntNewRoute(src, c, t) \/ TxcntSameLeg(src, c, t)
           \/ TxcntOtherLeg(src, c, t) \/ TxcntDropped(t)
           \/ HeartbeatMoved(src, c, t) \/ HeartbeatForwarded(src, c, t)
           \/ HeartbeatUnknown(t) \/ Discard(src, c)
           \/ (\E type \in {"FULL", "MINI"} : Forward(src, c, type))
           \/ Release(src, c, "HANGUP", "RELEASING")
           \/ Release(src, c, "TXREJ", "RELEASED")
    PROVE  \A d \in out' : d.event \notin {"NAT", "P2P"}
<1>1. ASSUME out' = {} PROVE \A d \in out' : d.event \notin {"NAT", "P2P"}
  BY <1>1
<1>2. CASE \/ TxcntNewRoute(src, c, t) \/ TxcntSameLeg(src, c, t) \/ TxcntDropped(t)
           \/ HeartbeatUnknown(t) \/ Discard(src, c)
  BY <1>1, <1>2 DEF TxcntNewRoute, TxcntSameLeg, TxcntDropped, HeartbeatUnknown, Discard
<1>3. CASE TxcntOtherLeg(src, c, t)
  <2>1. out' = Sendto(routes[rti].l_addr, "TXCNT", NoEvent)
               \cup Sendto(src, routes[rti].l_pkt, NoEvent)
    BY <1>3 DEF TxcntOtherLeg
  <2> QED BY <2>1, SendtoEvent DEF NoEvent
<1>4. CASE HeartbeatMoved(src, c, t)
  <2>1. \/ out' = {}
        \/ \E a, b, x, y : out' = Sendto(a, x, "RS") \cup Sendto(b, y, "RS")
    BY <1>4 DEF HeartbeatMoved, Notify
  <2> QED BY <2>1, SendtoEvent
<1>5. CASE HeartbeatForwarded(src, c, t)
  <2>1. \E a : out' = Sendto(a, "HEARTBEAT", HeartbeatEvent(routes[rti]))
    BY <1>5 DEF HeartbeatForwarded
  <2>2. HeartbeatEvent(routes[rti]) \in {"INIT_P2P", "INIT_NAT", "NONE"}
    BY DEF HeartbeatEvent
  <2> QED BY <2>1, <2>2, SendtoEvent
<1>6. CASE \/ \E type \in {"FULL", "MINI"} : Forward(src, c, type)
           \/ Release(src, c, "HANGUP", "RELEASING") \/ Release(src, c, "TXREJ", "RELEASED")
  <2>1. \E a, type : out' = Sendto(a, type, NoEvent)
    BY <1>6 DEF Forward, Release
  <2> QED BY <2>1, SendtoEvent DEF NoEvent
<1> QED BY <1>2, <1>3, <1>4, <1>5, <1>6

LEMMA TxreadyAnnounces ==
    ASSUME IInv, NEW src \in Addr, NEW c \in Callno, Txready(src, c)
    PROVE  Announced
<1>1. PICK r \in RouteIds : Found(r, src, c) /\ Txready(src, c)!(r)
  BY DEF Txready
<1>2. routes[r].status = "SETTED" /\ r <= nroutes
  BY <1>1, FoundIsSetted DEF Found
<1>3. PICK tx : tx = IF routes[r].status = "SETTED"
                     THEN routes[r].txstatus \cup {TxBit(routes[r], IsLeft(r, src, c))}
                     ELSE routes[r].txstatus
  OBVIOUS
<1>4. /\ routes' = [routes EXCEPT ![r] =
                    [routes[r] EXCEPT !.txstatus = tx,
                                      !.status = CASE tx = NatBits -> "NATTED"
                                                   [] tx = P2pBits -> "P2PED"
                                                   [] OTHER        -> routes[r].status]]
      /\ out' = CASE tx = NatBits -> Notify(routes[r], "NAT")
                  [] tx = P2pBits -> Notify(routes[r], "P2P")
                  [] OTHER        -> {}
  BY <1>1, <1>3
<1>5. routes \in [RouteIds -> RT_Info] /\ NatBits # P2pBits
  BY DEF IInv, TypeOK, NatBits, P2pBits
<1>6. routes[r].l_addr # NoAddr /\ routes[r].r_addr # NoAddr
  BY <1>2, RelayAssumption DEF IInv, TableInv, RouteInv
<1>7. /\ routes'[r].l_addr = routes[r].l_addr /\ routes'[r].r_addr = routes[r].r_addr
      /\ tx = NatBits => routes'[r].status = "NATTED"
      /\ tx = P2pBits => routes'[r].status = "P2PED"
  BY <1>4, <1>5 DEF RT_Info
<1>8. CASE tx = NatBits
  <2>1. out' = Notify(routes[r], "NAT")
    BY <1>4, <1>5, <1>8
  <2>2. /\ \A d \in out' : d.event = "NAT"
        /\ {d.to : d \in out'} = {routes[r].l_addr, routes[r].r_addr}
    BY <1>6, <2>1, NotifyBoth
  <2> QED BY <1>2, <1>7, <1>8, <2>2 DEF Announced
<1>9. CASE tx = P2pBits
  <2>1. out' = Notify(routes[r], "P2P")
    BY <1>4, <1>5, <1>9
  <2>2. /\ \A d \in out' : d.event = "P2P"
        /\ {d.to : d \in out'} = {routes[r].l_addr, routes[r].r_addr}
    BY <1>6, <2>1, NotifyBoth
  <2> QED BY <1>2, <1>7, <1>9, <2>2 DEF Announced
<1>10. CASE tx # NatBits /\ tx # P2pBits
  BY <1>4, <1>10 DEF Announced
<1> QED BY <1>8, <1>9, <1>10

\* A datagram that announces a direct path is sent to both legs of one route, which has
\* heard TXREADY from both and is on that kind of path from the same step on: no leg is
\* told to leave the relay alone (process_udp).
THEOREM SwitchAnnounced == Spec => SwitchIsAnnouncedToBoth
<1>1. ASSUME IInv, Next PROVE Announced
  <2>1. PICK src \in Addr, c \in Callno : Next!(src, c)
    BY <1>1 DEF Next
  <2>2. CASE Txready(src, c)
    BY <1>1, <2>2, TxreadyAnnounces
  <2>3. CASE ~Txready(src, c)
    <3>1. \A d \in out' : d.event \notin {"NAT", "P2P"}
      BY <2>1, <2>3, OthersAnnounceNothing
    <3> QED BY <3>1 DEF Announced
  <2> QED BY <2>2, <2>3
<1>2. IInv /\ [Next]_vars => [Announced]_vars
  BY <1>1
<1>3. [][Announced]_vars => SwitchIsAnnouncedToBoth
  BY PTL DEF SwitchIsAnnouncedToBoth, Announced
<1> QED BY <1>2, <1>3, InductiveInvariant, PTL DEF Spec

=============================================================================
