------------------------------- MODULE Conference -------------------------------
(***************************************************************************)
(* The conference server (wtk-mixer.c): a parent that forks one process,   *)
(* here a room, for each NEWCNF it receives; a room tells its address,     *)
(* knows its members by the addresses their audio comes from, forwards     *)
(* what is not audio, and ends with HUPCNF or when it has heard no audio   *)
(* for MS_RECV_TIMEOUT.                                                    *)
(*                                                                         *)
(* The call server is taken from RoomCaller: it asks for a room once per   *)
(* conference, waits a short time, and hangs up once (StateCtl shows that  *)
(* app_statectl.c does so).  Datagrams of the two servers stay in net:     *)
(* they arrive late, twice or never.  Members send to the room the call    *)
(* server was told.                                                        *)
(* Mixing of the audio is not modelled.                                    *)
(***************************************************************************)
EXTENDS Integers, FiniteSets

CONSTANTS
    Key,            \* conferences, each with a session id of its own
    Room,           \* bound on the processes that are forked
    Member, Addr,   \* participants, and the addresses they may send from
    NoRoom, NoKey,
    MS_RECV_TIMEOUT, SELECT_TIMEOUT,    \* in units of time
    MAX_PARTICIPANT \* bound on the channels of a room

ASSUME ConferenceAssumption ==
    /\ MS_RECV_TIMEOUT \in Nat /\ SELECT_TIMEOUT \in Nat \ {0}
    /\ MAX_PARTICIPANT \in Nat
    /\ NoRoom \notin Room /\ NoKey \notin Key

VARIABLES
    room,       \* the processes
    server,     \* what the call server does about each conference
    told,       \* the room the call server was told of
    net,        \* datagrams between call server and conference server
    inside,     \* the conference each member takes part in
    addr,       \* where each member sends from
    forward     \* the packet forwarded by the last step, if any

vars == <<room, server, told, net, inside, addr, forward>>

\* waited: how long the room has been in select; silent: since i_recv_timeout.
RoomRecord ==
    [state : {"unborn", "starting", "running", "ended"}, key : Key \cup {NoKey},
     waited : 0 .. SELECT_TIMEOUT, silent : 0 .. MS_RECV_TIMEOUT + SELECT_TIMEOUT,
     chi : SUBSET [addr : Addr, channel_num : 0 .. MAX_PARTICIPANT - 1],
     channel : 0 .. MAX_PARTICIPANT]

Unborn == [state |-> "unborn", key |-> NoKey, waited |-> 0, silent |-> 0,
           chi |-> {}, channel |-> 0]

Datagram == [type : {"NEWCNF", "HUPCNF"}, key : Key] \cup [type : {"REPLY"}, room : Room]

Running(p) == room[p].state = "running"

None == [by |-> "nobody", to |-> {}]

-----------------------------------------------------------------------------
(* The parent, and a room up to its loop *)

\* process_udp: every NEWCNF is a new process, also one that came twice.
Fork(p, k) ==
    /\ [type |-> "NEWCNF", key |-> k] \in net
    /\ room[p] = Unborn
    /\ room' = [room EXCEPT ![p] = [Unborn EXCEPT !.state = "starting", !.key = k]]
    /\ forward' = None
    /\ UNCHANGED <<server, told, net, inside, addr>>

\* The room binds its socket and replies (twice); without a socket it exits.
Start(p) ==
    /\ room[p].state = "starting"
    /\ \/ /\ room' = [room EXCEPT ![p].state = "running"]
          /\ net' = net \cup {[type |-> "REPLY", room |-> p]}
       \/ /\ room' = [room EXCEPT ![p].state = "ended"]
          /\ UNCHANGED net
    /\ forward' = None
    /\ UNCHANGED <<server, told, inside, addr>>

-----------------------------------------------------------------------------
(* The loop of a room *)

\* mutant: the clock is read only when select has waited in vain
PassAfterTimeout(r) ==
    [r EXCEPT !.waited = 0,
              !.state = IF r.waited = SELECT_TIMEOUT /\ r.silent > MS_RECV_TIMEOUT
                        THEN "ended" ELSE @]

\* The end of a pass through the loop: how long has there been no audio?
Pass(r) ==
    [r EXCEPT !.waited = 0,
              !.state = IF r.silent > MS_RECV_TIMEOUT THEN "ended" ELSE @]

Forever(r) == FALSE             \* mutant: select without a timeout

SelectExpired(r) == r.waited = SELECT_TIMEOUT

\* select has waited in vain.
SelectTimeout(p) ==
    /\ Running(p) /\ SelectExpired(room[p])
    /\ room' = [room EXCEPT ![p] = Pass(@)]
    /\ forward' = None
    /\ UNCHANGED <<server, told, net, inside, addr>>

Hupcnf(p) ==
    /\ Running(p)
    /\ \E k \in Key : told[k] = p /\ [type |-> "HUPCNF", key |-> k] \in net
    /\ room' = [room EXCEPT ![p].state = "ended"]
    /\ forward' = None
    /\ UNCHANGED <<server, told, net, inside, addr>>

\* find_channel_info_by_sockaddr
Channels(r, a) == {ch \in r.chi : ch.addr = a}

\* mutant: channel is not counted up
AdmittedAsBefore(r, a) ==
    [r EXCEPT !.chi = @ \cup {[addr |-> a, channel_num |-> r.channel]}]

\* A new participant goes to a new channel.
Admitted(r, a) ==
    [r EXCEPT !.chi = @ \cup {[addr |-> a, channel_num |-> r.channel]},
              !.channel = @ + 1]

\* m takes part in a conference whose room, as the call server was told, is p.
SendsTo(m, p) == inside[m] # NoKey /\ told[inside[m]] = p

\* Audio: the sender is admitted when its address is new, and the room is not silent.
Opus(p, m) ==
    /\ Running(p) /\ SendsTo(m, p)
    /\ LET known == Channels(room[p], addr[m]) # {}
           r == IF known THEN room[p] ELSE Admitted(room[p], addr[m])
       IN  /\ known \/ room[p].channel < MAX_PARTICIPANT
           /\ room' = [room EXCEPT ![p] = Pass([r EXCEPT !.silent = 0])]
    /\ forward' = None
    /\ UNCHANGED <<server, told, net, inside, addr>>

\* send_to_all_video_channel
Others(r, a) ==
    {ch.addr : ch \in {x \in r.chi :
                        \A own \in Channels(r, a) : x.channel_num # own.channel_num}}

\* Any other packet goes to all channels but the sender's, when the sender is known.
Video(p, m) ==
    /\ Running(p) /\ SendsTo(m, p)
    /\ forward' = IF Channels(room[p], addr[m]) = {} THEN None
                  ELSE [by |-> m, to |-> Others(room[p], addr[m])]
    /\ room' = [room EXCEPT ![p] = Pass(@)]
    /\ UNCHANGED <<server, told, net, inside, addr>>

-----------------------------------------------------------------------------
(* Time passes up to the next timeout of a select. *)

Time ==
    /\ \E p \in Room : Running(p)
    /\ \A p \in Room : Running(p) => room[p].waited < SELECT_TIMEOUT
    /\ room' = [p \in Room |->
                  IF Running(p) THEN [room[p] EXCEPT !.waited = @ + 1, !.silent = @ + 1]
                                ELSE room[p]]
    /\ forward' = None
    /\ UNCHANGED <<server, told, net, inside, addr>>

-----------------------------------------------------------------------------
(* The call server and the members *)

\* What StateCtl, the application of the call server, is shown to implement
Caller == INSTANCE RoomCaller

Ask(k) ==
    /\ Caller!Ask(k)
    /\ net' = net \cup {[type |-> "NEWCNF", key |-> k]}
    /\ forward' = None
    /\ UNCHANGED <<room, told, inside, addr>>

\* The first reply counts; the socket it came to is closed afterwards.
TakeReply(k) ==
    /\ Caller!TakeReply(k)
    /\ \E p \in Room :
           /\ [type |-> "REPLY", room |-> p] \in net /\ room[p].key = k
           /\ told' = [told EXCEPT ![k] = p]
    /\ forward' = None
    /\ UNCHANGED <<room, net, inside, addr>>

\* No reply in time.
GiveUp(k) ==
    /\ Caller!GiveUp(k)
    /\ forward' = None
    /\ UNCHANGED <<room, told, net, inside, addr>>

HangUp(k) ==
    /\ Caller!HangUp(k)
    /\ net' = net \cup {[type |-> "HUPCNF", key |-> k]}
    /\ forward' = None
    /\ UNCHANGED <<room, told, inside, addr>>

Join(m) ==
    /\ inside[m] = NoKey
    /\ \E k \in Key : server[k] = "open" /\ inside' = [inside EXCEPT ![m] = k]
    /\ forward' = None
    /\ UNCHANGED <<room, server, told, net, addr>>

Leave(m) ==
    /\ inside[m] # NoKey
    /\ inside' = [inside EXCEPT ![m] = NoKey]
    /\ forward' = None
    /\ UNCHANGED <<room, server, told, net, addr>>

Move(m) ==
    /\ \E a \in Addr : (\A n \in Member : addr[n] # a) /\ addr' = [addr EXCEPT ![m] = a]
    /\ forward' = None
    /\ UNCHANGED <<room, server, told, net, inside>>

-----------------------------------------------------------------------------

Init ==
    /\ room = [p \in Room |-> Unborn]
    /\ Caller!Init
    /\ told = [k \in Key |-> NoRoom]
    /\ net = {}
    /\ inside = [m \in Member |-> NoKey]
    /\ addr \in [Member -> Addr]
    /\ \A m, n \in Member : m # n => addr[m] # addr[n]
    /\ forward = None

Next ==
    \/ \E p \in Room :
        \/ \E k \in Key : Fork(p, k)
        \/ Start(p) \/ SelectTimeout(p) \/ Hupcnf(p)
        \/ \E m \in Member : Opus(p, m) \/ Video(p, m)
    \/ Time
    \/ \E k \in Key : Ask(k) \/ TakeReply(k) \/ GiveUp(k) \/ HangUp(k)
    \/ \E m \in Member : Join(m) \/ Leave(m) \/ Move(m)

Spec == Init /\ [][Next]_vars

\* Processes run, time passes, and the members of a conference that was hung up stop
\* sending.  Nothing is assumed of the datagrams: a HUPCNF may never arrive.
Fairness ==
    /\ WF_vars(Time)
    /\ \A p \in Room : WF_vars(Start(p)) /\ WF_vars(SelectTimeout(p))
    /\ \A m \in Member :
        WF_vars(Leave(m) /\ \A k \in Key : inside[m] = k => server[k] = "closed")

FairSpec == Spec /\ Fairness

-----------------------------------------------------------------------------
(* Properties *)

\* Types of the variables: no room gives out a channel beyond its bound.
TypeOK ==
    /\ room \in [Room -> RoomRecord]
    /\ server \in [Key -> {"idle", "waiting", "open", "closed"}]
    /\ told \in [Key -> Room \cup {NoRoom}]
    /\ net \subseteq Datagram
    /\ inside \in [Member -> Key \cup {NoKey}]
    /\ addr \in [Member -> Addr]
    /\ forward = None \/ (forward.by \in Member /\ forward.to \subseteq Addr)

\* A room outlives its last audio by no more than the receive timeout and one
\* select, also while other packets keep arriving (start_meetme reads the clock in
\* every pass, not only when select has waited in vain).
SilentRoomEnds ==
    \A p \in Room : Running(p) =>
        /\ room[p].silent <= MS_RECV_TIMEOUT + room[p].waited
        /\ room[p].waited <= SELECT_TIMEOUT

\* Every process ends once its conference is over for the call server: also one whose
\* HUPCNF was lost, whose reply came too late, or that a repeated NEWCNF created.
RoomsEnd ==
    \A p \in Room : \A k \in Key :
        room[p].state \in {"starting", "running"} /\ room[p].key = k /\ server[k] = "closed"
            ~> room[p].state = "ended"

\* Video of one member goes to the present address of every other one the room has
\* heard from there, and never back to where it came from, whatever addresses
\* members had before or have taken over from each other.
VideoReachesTheOthers ==
    forward # None =>
        /\ addr[forward.by] \notin forward.to
        /\ \A n \in Member \ {forward.by} :
            SendsTo(n, told[inside[forward.by]])
            /\ Channels(room[told[inside[forward.by]]], addr[n]) # {}
                => addr[n] \in forward.to

=============================================================================
