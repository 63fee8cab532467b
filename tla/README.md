# Verification of the WTK RTC voice system

TLA+ models, TLC runs and TLAPS proofs for the programs of this repository that
are its own: the VoIP relay (`wtkrtc_proxy_server`), the signalling client
(`wtkrtc_mediaengine/wtkrtc_mediaengine_ios_android/wtk_service_client`), the media
engine and the Android application on top of it, the conference server
(`wtkrtc_conf_server`), and the conference application of the call server
(`app_statectl.c`).  The rest of the call server is Asterisk 11.16.0, which is vendored
here, and more than nine tenths of the repository's lines; it, the WebRTC patch and
the build files are other people's code or wrap these parts.
`PROJECT.json` maps every definition to the lines it models.

## 1. The system's parts

**Relay server** (`wtk-relay.c`, `misc_lib.c`).  One epoll thread; every datagram
is handled to its end by `process_udp`.  State: the list of routes (`RT_Info`)
from `rs_info->rti`, and `RtInfoListArray`, which chains under each call number
the routes that have a leg of this number.  Operations: TXCNT (create a route,
move its first leg, join the second), HEARTBEAT (move a leg, or tell the peer to
try a direct path), TXREADY (collect both legs' reports, then announce the
direct path), HANGUP and TXREJ (forward and release), forwarding of everything
else.  Nothing is ever freed.  Hard: datagrams are lost, repeated and reordered;
NATs rebind addresses; clients restart and number their calls from 1 again.
Correct when frames go only between the legs of one live route, released routes
stay released, and a direct path is announced only when it fits both legs.

**IAX client library** (`iax2-client/iax.c`).  Sessions with 8-bit sequence
numbers, retransmission with a retry limit, implicit acknowledgement windows,
VNAK, a scheduler of frames to send again, and call transfer towards the relay,
a NAT path or a local path.  Hard: retransmission against late answers,
scheduled frames that outlive their session, sequence numbers that wrap.
Correct when each end is handed what the other wrote, in order and once; when no
frame outlives its session to act on another one; and when a transfer ends with
both clients on one path.

**Call table** (`iax2-client/iaxclient_lib.c`, `wtkcall_lib.c`).  At most
`max_calls` lines with state bits and one selected call; the application, the
processing thread and the media threads work on it under one lock.  Events for
the application go through a queue with its own lock (`put_iaxc_lock`,
`iaxci_post_event`).  Hard: two locks, a trylock and callbacks outside of both; an
application that answers or hangs up what has just ended.  Correct when lines and
sessions belong together one to one, the application is told what happened, and
no event is lost.

**Conference server** (`wtk-mixer.c`) and **mixer** (`wtk_rtc_mixer_api.cc`,
`fakeaudiocapturemodule.cc`).  A parent that forks one process per conference; a
conference knows its members by address, gives each a channel, mixes their audio
and forwards everything else.  Requests, replies and hangups are single datagrams.
Hard: a repeated request is one more process, a lost hangup leaves one behind, and
members move between addresses.  Correct when every process ends in time and what
is forwarded reaches the other members.

**Conference application** (`app_statectl.c` in the call server's tree).  Each call
that dials a conference is a thread of Asterisk in `conf_exec`: it looks the
conference up or builds it, which asks the conference server for a room (NEWCNF) and
waits for the reply; it joins, tells every member so, serves the members' texts and
the console's kicks, leaves, and gives its reference back; the last one frees the
conference and hangs the room up (HUPCNF).  Hard: joining holds the conference's own
lock (`playlock`), leaving and looking up hold the lock of the list (`confs`), so that
they overlap; members that have left stay in the list.  Correct when nobody uses a
conference that was freed, the counters and statuses are right in the end, and the
conference server is asked for a room once and told of its end once.

**Media engine** (`wtk_rtc_api.cc`, started and stopped by `wtkcall_lib.c`).
Wrappers that create, start and delete WebRTC calls and streams held in global
pointers, called by the **application** (`MainActivity`, `VideoActivity`,
`VideoConfActivity`) on the events of the call table.  Hard: the events come late,
of up to four lines for one set of streams; activities open some time after they
were asked for; the library's thread delivers packets without a lock.  Correct when
streams and the camera follow the calls, and no stream outlives the WebRTC call it
was made from.

**Push-to-talk client** (`ptt_client/`).  One TCP connection, a receiving thread,
and a disconnect that stops it from another thread.  Compiled out (`USE_PTT 0`).

They meet as follows.  The application calls `wtkcall_lib.c`; that takes
`iaxc_lock` and works on lines and sessions; frames go over UDP to Asterisk,
which asks both clients of an answered call to move to a relay (TXREQ); the relay
joins the two legs by token; heartbeats through the relay tell the clients each
other's public address, and successful probes move the call to a direct path.
For a conference, Asterisk runs `app_statectl.c`, which has the conference server fork
a process; the members' media goes to that process, which mixes the audio.

`PROJECT.json` lists all components, the ones that are not modelled with the
reason, and the hazards each is exposed to at the line where they bite.

## 2. The modules

| module | models | composes / refines |
|---|---|---|
| `RelayServer` | the relay | |
| `RelayServerProofs` | its proofs | extends `RelayServer` |
| `EventQueue` | locks, event queue, processing thread | |
| `EventQueueProofs` | its proofs | extends `EventQueue` |
| `FrameStream` | what reliable frames promise (abstract) | |
| `IaxTransport` | reliable frames of a session | implements `FrameStream` |
| `IaxTransportProofs` | its proofs | extends `IaxTransport` |
| `CallTable` | lines, sessions, final frames | |
| `CallTableProofs` | its proofs | extends `CallTable` |
| `Transfer` | two clients and a relay during a transfer | `INSTANCE RelayServer` |
| `TransferProofs` | its proofs | extends `Transfer` |
| `RoomCaller` | what the conference server relies on from the call server (abstract) | |
| `Conference` | the conference server's processes and their members | its call server is `RoomCaller` |
| `ConferenceProofs` | its proofs, and those of `Mixer` | extends `Conference` and `Mixer` |
| `Mixer` | the audio of one room: main thread and device threads | |
| `StateCtl` | the call server's conference application | implements `RoomCaller` |
| `StateCtlProofs` | its proofs | extends `StateCtl` |
| `MediaStreams` | the media engine under the application | |
| `MediaStreamsProofs` | its proofs | extends `MediaStreams` |
| `MC*` | instances for TLC | |

### RelayServer

One action per branch of `process_udp`; the parameters of an action are what its
branch reads of the datagram: the source address, the call number and, of a TXCNT,
the token.  The branches for video mini frames (88-111), mini frames and full
frames do the same to the state and are one action, `Forward`.  `routes` is the
array of all `RT_Info` ever allocated (nothing is freed), `rti` the list head,
which after the missing link at wtk-relay.c:151 is always the newest route, and
`index` is `RtInfoListArray` as a set per call number (a chain is searched for any
match, and matches are followed through nondeterminism where two routes match).
Tokens are compared as wholes: the code's memcmp is over the length of the token it has
kept, and the call server makes all tokens of one length.
`out` holds the datagrams sent by the step, for the properties on announcements.
Datagrams are not stored: an action may be taken with any input at any time,
which contains loss, repetition and reordering.

### EventQueue

The position of each thread in `get_iaxc_lock` / `put_iaxc_lock` /
`iaxci_post_event` is `pc`; the sections under `event_queue_lock` contain memory
accesses only and are one step each.  `Enter` is the test of the processing thread's
loop, or a call from the application; the thread then waits for the lock (`GetLock`), also
if it is told to stop meanwhile.  `Continue` is what a thread does by itself
once it is in the library.  What happens under `iaxc_lock` is abstracted to the
events it posts.  `StopThread`, `Exit` and `Join` are
`iaxc_stop_processing_thread`.

### FrameStream and IaxTransport

`FrameStream` is the promise: each end is handed, in order and once, a prefix of
what the other wrote, and believes in the delivery of no more than that.
`IaxTransport` is the code: byte-wide `oseqno`, `iseqno`, `rseqno`, `lastvnak`,
the acknowledgement window test, `schedq` with retries, VNAK and its burst.  `net`
keeps every frame ever sent, so each can arrive late, again or never.  The
refinement maps `acked` to the distance of `rseqno` from the start of the session
mod 256; everything else keeps its name.  `Starts` are points of a session's life
at which behaviours begin, so that the wrap from 255 to 0 and the state after a
transfer are reached with few frames.

### CallTable

`calls` are the lines with their state bits, the session's address, and the last
activity posted about the line (`posted`); in which order posts reach the application is
the matter of `EventQueue` and `MediaStreams`.  `heap` are the sessions by address, `schedq` the final
frames of destroyed sessions, which keep the address.  Each handler runs under
`iaxc_lock` from the first line to the last and is one action.  malloc may give a new
session any address that no living session has, also one that a line, the registration or a
scheduled frame still names; such a session is marked as `reused`.  Events of
`iaxc_service_network` with the same effect on lines are one action
(`BusyOrTimeout`, `AnswerOrVoice`).  `Restart` is the application left and started again
in one process: `wtkcall_shutdown_iax` joins the service thread, hangs every line up and
frees the table, `wtkcall_initialize_iax` makes a new one; the registration, the refused
sessions and the final frames are static in the library, survive it, and meet the
sessions of the new table.  Call numbers in use are not given out again then either,
although `iax_init` begins to count at random.  An unresolvable host in `iaxc_call` and the
ping timers (they test `iax_session_valid`) are left out.

### Transfer

Each step of the relay is one of `RelayServer`'s own actions on a datagram of
`net`; the clients are the TXREQ, TXCNT, TXACC, TXREL, TXREADY and HEARTBEAT
branches of `iax_header_to_event` with the session search in front of them
(`ForwardMatch`, `TxcntSession`) and the frames `schedq` repeats.  A HEARTBEAT that finds no local address to report (iax.c:1447) says nothing to its
receiver, as NONE does.  Asterisk is
external: it sends TXREQ to both, waits for both TXREADYs and sends TXREL to both,
reliably.  A place a datagram goes to is the server, the relay, the public or the
local address of a client, or the zero address; `Reaches` is what UDP and NATs do
with it.  Abstracted: sequence numbers (they are `IaxTransport`), and the media,
which is judged by where a mini frame sent now would go and who would take it
(`Hears`).  Assumptions, each named in the module: the two clients' call numbers
differ (equal ones are `RelayServer`'s `LegsAreDistinct`); `UnderWay`: no datagram
outlives the 5 and 10 s between heartbeats; the TXREADY for the relay path is
repeated until it is answered (giving up ends the call, which is `CallTable`'s
TIMEOUT); datagrams lost on the direct path cost nothing (NATs filter probes),
those lost to or from the relay are counted by `lost`.  A NAT-phase TXREADY also
uses up a sequence number the other client never sees; that is outside the model.

### Conference

A room is a forked process: "starting" until it has sent its two replies, then in
its loop until HUPCNF or the receive timeout.  `chi` and `channel` are
`channel_info` and the counter of `start_meetme`; `waited` is the time spent in
select, `silent` the time since `i_recv_timeout` was set.  `Time` passes for all
rooms together and cannot pass a select that is due, as the process is then run.
The call server's part is `RoomCaller`: one request of a session, one reply taken or
given up for, one hangup of a room that was opened.  `StateCtl` implements it.

### Mixer

`main` is where the main thread is in `libwtk_mixer_setup_mixer` (a source is added to
the mixer, the send and the receive stream start, the packet is delivered) and at the
end of the room; `tick` is where each device's thread is in its 10 ms turn.  Only the
thread of channel 0 mixes, after it has taken its own source out; then it puts it back.
A frame is, for each channel, the number of the newest packet heard in it, with
`Garbage` for the buffer of a source that has decoded nothing and `Absent` for a
source that is not in it: enough to see who hears whom and how old it is.  One turn's
reading or writing of a frame is one step (10 ms of samples are copied in a few
microseconds); between the steps the threads interleave freely.  What the
code does and the properties leave room for: nobody hears the member of channel 0, the
others hear themselves; the buffer of a new source is not initialised; a room with more
than 50 addresses (`MAX_PARTICIPANT`) writes beyond the arrays; the mixer is deleted at
the end while the threads still run.

### StateCtl and RoomCaller

One action per critical section of `conf_exec`, `conf_run` and `admin_exec`, and one for
each wait (for the conference server, for a lock).  `pc` is where a call's thread is,
`confs` and `playlock` who holds the locks, `conf` the conference with its list,
`heard` the last status of each number that a member was told.  A section is one step
unless it uses what the other lock protects: joining is three steps (look for the number's
absent entry, insert, fill in), the announcement two (look at the members, write to them),
leaving two (mark, then count and tell, or take out and free).

The list is walked and changed under either lock.  What can come of it is modelled where it
happens: two threads that add to a counter may lose one addition (`Counted`); an
AST_LIST_REMOVE by a joining call (playlock) ends a walk under `confs` at the entry removed
(`Walks`, any prefix up to there); an insertion that meets a removal may be lost or break the
links (`JoinInsert`); a walk that announces a member may find an entry freed
(`LeaveStill`) or a channel gone (`Tell`).  `torn` and `overlapped` are history variables that
record the first two kinds, for the conference that exists.  Where C leaves the outcome
undefined, it is nothing or the end of the process (`stray`, `broken`).

A call in `Quiet` stands for one with option q, of a monitor or of an admin: it has no entrance
sound and therefore does not pass `confs` before it is announced.  `HalfText` is a text QCS, KIC or
MUT without its key: `confs` is locked and not unlocked, `leaked` is the call that has done it,
and nobody else gets the lock any more.  The mutexes of Asterisk are recursive, so that this call
itself goes on.

`Session` bounds the requests for a room.  The
refinement (`ServerOf`) reads a session's state at the conference server off the
sessions asked for, the request that waits and the conference that exists.
Left out: push-to-talk conferences, prompts, recording, the tables of members.

### MediaStreams

The functions of `wtk_rtc_api.cc` and `wtkcall_lib.c` are operators from the globals
to the globals (`media`), composed as the code calls them; a null `g_call` that is
used, or a stream used after its call was destroyed, sets `crashed`, after which
nothing happens.  The application's handlers are one action each, as Android runs
them on one thread; `events` is what the call table posted and the handler has not
looked at, and two neighbours in it may change places (`Overtakes`), as `put_iaxc_lock` posts
outside of the lock and an event that finds the lock busy again goes behind one posted
meanwhile; `opening` an activity that was asked for.  The history variable
`mishaps` records what the application was not written for: two calls at once, a
number that is changed during a call, an activity that comes up when no call is
answered or the application does not know, a conference that is refused, a hangup
handled by two receivers, no camera, a packet tested before and delivered after the
end of a call, an answer and an end that the application sees in the wrong order.  The model
goes on after each of them.  They are forgotten when a call starts with nothing left of the
calls before (`AtRest`), so that each has to be near what it explains.

## 3. The runs

| run | question | bounds, and why they are enough |
|---|---|---|
| `relay_two_routes` | do the route table and its index stay consistent whatever arrives? | 2 routes, 2 call numbers, 2 tokens, 3 addresses on 2 networks: two routes share legs in every way, a leg moves inside and across networks. 287 000 states |
| `events_threads` | lock discipline, conservation and delivery of events, end of the stop | 2 application threads and the processing thread, one call and one event each: every pair of threads meets at the trylock, at the queue and at the stop |
| `transport_sessions` | does the code implement `FrameStream`? are gaps reported, does each frame arrive or time out? | 3 frames one way, 1 the other, 1 retry, once from 254 (wrap) and once after a transfer with heartbeats. 3 frames give a gap with one early frame behind it and a VNAK answered by a burst |
| `transport_heartbeat` (violation) | are only frames acknowledged that were handed over? | 2 frames from number 0 |
| `calls_lines` | do lines, sessions and what is posted about them agree? | 2 lines, 3 addresses, 4 call numbers: both lines, the registration and final frames compete for addresses, which are used again at any time. 530 000 states |
| `calls_address_reused` (violation) | does a final frame act on its own session? | 1 line, 2 addresses, reuse at any time |
| `transfer_call` | do both clients end on one path, and only on a proven one? | 2 clients, 3 addresses on 2 networks (both on one, or apart), 5 heartbeats (both INITs, both replies of the relay and one more), 2 losses, 1 move. 382 000 states |
| `conference_rooms` | does every room end, also one that nobody knows? does video reach the others and not its sender? | 2 rooms for one conference (a request that comes twice), 2 members on 3 addresses (each moves, and one takes over the other's address), timeout 3 and select 2 units, so that audio, select and timeout fall in every order. 372 000 states |
| `mixer_room` | who hears whom, does it get newer, and what ends the process? | 3 addresses for arrays of 2, so that one is too many; 3 packets each, so that one is heard, one is under way and one is missed. 62 000 states |
| `statectl_members` | does the conference outlive its users, are counters and statuses right, is the conference server used as it expects? | 3 calls, 2 of one number, so that a number joins while it leaves and somebody watches; one of the two is quiet; 2 sessions, so that the conference ends and is built again; not followed past a text that leaves `confs` locked (`NoLeak`; `statectl_redial` goes on, and the proofs have no such bound). 2 250 000 states |
| `statectl_redial` | do the locks let everybody in or out, does a kick work? | the 2 calls of one number that compete for both locks, requests that fail (3 sessions), and texts that leave `confs` locked. 18 800 states |
| `media_calls` | do streams and camera follow the calls? | 2 lines, 3 events waiting: calls overlap, and a call can end and the next be answered before the application looks; not followed past 2 mishaps (`FewMishaps`), each of which happens alone and with others. 1 980 000 states |

A type invariant (`TypeOK`) is defined in every module of a program; all are
proved, and `CallTable`'s is also part of its run.  `CHECK_DEADLOCK FALSE` is set where calls, rooms
or sessions of the instance are used up at the end.

Notes on properties.

* `GapIsReported` holds from the states in `Starts`.  A session that reaches
  `iseqno` 128-255 without an earlier gap has `lastvnak` at its initial 255 (-1 in
  a byte) and does not report a gap exactly there; this start is left out.
* `LineHasItsSession` excludes lines whose ACCEPT carried a format that was not
  offered (`lost`): iax.c:2995 destroys the session under them, and the event that
  would release the line is dropped.  The model contains the path.
* `LineHasItsSession` and `SessionsAreAccountedFor` speak of sessions that were made at an
  address nothing named any more (`reused` is false): what ends another line, refreshes the
  registration or is left of an older call cannot take these.  Of the others the run
  `calls_address_reused` shows that a final frame destroys them; that every session which was not
  refused has a holder is claimed of them too.
* `ConnectedWhenQuiet` is conditioned on `moves = 0` and on no loss once
  heartbeats flow.  The announcement of a direct path is two unreliable datagrams:
  with one of them lost, one client stays on the relay path the other has left,
  and after a move a late NAT event that overtakes an RS event does the same; the
  clients have no timer to notice.  The properties hold exactly up to there.
* `DirectPathIsProven` holds with losses as well.
* `MediaStreams!CrashIsExplained`: with the number of a person only want of a camera, a late
  packet and a number changed while it mattered lead to a crash.  The number of a conference
  makes the hangup stop a conference, and libwtk_stop_video_conf_stream uses `g_call` whether it was
  ever created: a conference that is refused, a second receiver, an overlap of calls, an activity
  that came up late or a hangup seen before its answer lead there.  The exceptions in the
  other properties are those that are needed: each excluded mishap violates the property.  They are
  what the code does, and the properties show that nothing else does it.
* The relay's index finds routes by call number and address; a client that
  restarts and numbers its calls from 1 again can have one call's HANGUP take the
  other out of the index (misc_lib.c:227).  `RelayServer` contains it.
* Answering a call that has just ended leaves its line neither active nor free
  (iaxclient_lib.c:1199) until it is dialled on or hung up.  `CallTable` contains it.
* When the two clients' heartbeat timers are not in step, a NAT event overwrites the
  address a client keeps for the transfer (`transfer`) although it was told that it is on
  the relay, which also keeps a direct path from completing.  `Transfer` contains it; no
  property says otherwise.
* The relay looks a token up in a list that after wtk-relay.c:151 holds the newest route
  only: a client that repeats its TXCNT after another call has begun is given a route of
  its own.  `RelayServer` contains it; no property promises otherwise.
* An event that is posted after the holder of `iaxc_lock` has taken the queue waits for
  the next `put_iaxc_lock`, of any thread.  `EventsAreDelivered` therefore needs the
  processing thread, which takes the lock again and again.
* `StateCtl!CrashIsExplained`: the redial of a number whose call has just left, alone with
  its conference, before the conference is freed, dereferences the last entry of an empty
  list (app_statectl.c:1950).  Nothing else does, as long as members have their entries.
* `LastStatusIsRight` rests on the entrance sound, which makes a call wait for `confs` before it
  is announced.  A quiet call is not covered by its first part: such a call can be inside while
  the others have heard last that its number is out.  With a walk cut short a member may
  not hear of it at all.
* `KickedLeave` and `CallSettles` hold up to a text without its key.  It is the only path that does
  not release the lock, and after it they are false: nobody but the call that sent it can join or leave any more.
* `UsersAreCounted` excludes conferences in which a joining and a leaving section have
  overlapped: there an addition may be lost.
* `Mixer!AudioNeverGoesBack` is about what is sent: the mixed frame itself is overwritten
  by each turn of channel 0, and is never older than the one before.

Every property has a mutant in the code's module: an operator, placed just before
the one it replaces, that a plausible bug would produce.  The properties are
violated with it.

Views and symmetry.  The call numbers, tokens, slots, ports of one IP and clients
are only compared for equality, so permuting them is sound for invariants; runs
with liveness use no symmetry.  The views leave out `out`, which no step reads
(the action property on it is evaluated on every step TLC generates).

## 4. Fairness

`EventQueue!FairSpec`: every thread that is inside the library goes on
(`WF(Continue)`), and the processing thread takes the lock again and again
(`WF(Enter(Proc))`, `WF(GetLock(Proc))`) and looks at its flag: the operating system schedules
runnable threads and the loop has no other exit.  Nothing is assumed of the
application.  A mutex is not fair to a single waiter, so nothing is assumed of
`Enter` or `GetLock` by an application thread.

`IaxTransport!FairSpec`: the timers of `schedq` are looked at (`iax_get_event`
every few milliseconds).  Nothing is assumed of the network: a frame may never
arrive.  The property is therefore that each frame arrives or its sender times out.

`Conference!FairSpec`: time passes, a forked process gets to its loop, a select that
is due returns, and members leave once their conference was hung up.  Nothing is
assumed of any datagram: the room must end without them.

`Mixer!MixerFairSpec`: the main thread does not wait while it sets a channel up, and each
device that records takes its turn every 10 ms.  Nothing is assumed of packets, and
`NewestIsHeard` excepts rooms that end.

`StateCtl!FairSpec`: the thread of a call does what it can do by itself (`Work`), and the
console gives its reference back.  A request for a room ends with its reply or its
timeout, as the socket has SO_RCVTIMEO.  No caller has to hang up.  The locks are handed on:
a mutex under contention by a handful of threads, each of which runs its section to the
end.

`MediaStreams` has no liveness property; its properties speak of states in which
the application has seen all events.

## 5. The proofs

All for every value of the constants that satisfies the module's ASSUME.

`RelayServerProofs`: `TypeCorrect`, `ReleasedUnreachable`, `PathFits`, `LegsDistinct`
as `Spec => []...`, `NeverReopens` and `SwitchAnnounced` as action
properties.  The invariant `IInv` adds to the checked ones `RouteInv`: what a route
has filled in at each stage (no right leg while SETTING, different call numbers
after it, nothing past `nroutes`).  It is needed because DelLeg finds the chains
to clean by the call numbers of the legs, and the join tells the legs apart by
call number.

`EventQueueProofs`: `TypeCorrect`, `LockDiscipline`, `EventsKept`.  `IInv` adds that a thread on
its way through its list has a first event (`PostingHasEvents`), without which
`Tail` leaves the type.  `EventsKept` counts copies; its invariant `Spread` says without
counting that no list repeats an event (`NoRepetition`), that no two lists share one
(`Disjoint`), and that the lists together hold what was posted (`AllPosted`); the counts
follow from it by the cardinality of sets with one element or none.

`IaxTransportProofs`: `TypeCorrect`, `FramesAreKept`, `GapsAreReported`, and
`Implements`: the transport implements `FrameStream`, for any network, any retries and any
sequence number to begin with.  The invariant reads every number as a place in one of the
two streams (`NumberInv`, `AckInv`) and every frame of `net` as a true statement about its
sender (`Honest`), however old it is.  Places of one stream lie at most 100 apart, the bound
`TransportAssumption` puts on `MaxSend`: less than half of the sequence space, so that a
byte tells them apart (`Distance`); that is where an old acknowledgement falls out of the
window (`Acknowledges`).  After a HANGUP an end may count a frame it was not handed, so the
places of an end are claimed only while it is up.  Two assumptions on `Starts` are hypotheses
of the theorems, and both hold in the run `transport_sessions`.  `HeartbeatsAvoidZero`: a
session with HEARTBEATs is taken between two wraps, without which the theorem is false (the
run `transport_heartbeat`).  `GapsAreNews`, for `GapsAreReported` only: the first `lastvnak`
is not within half the sequence space before a gap to come, which a session loses that
reaches 128 without a gap.

`CallTableProofs`: `TypeCorrect`, `SelectedUnique`, `ActiveExact`, `LastPostRight`, `SessionKept`
(no last frame or late timer destroys the session of another call) and
`EverySessionHasOneHolder` (no session is leaked or shared), the last two without any assumption
on the addresses malloc gives out: they except the sessions made at an address something still
named.  `IInv` adds that of the other sessions no two lines, and no line and the registration,
share one, and that scheduled final frames name none of them (`Ownership`); together these
make every destruction hit its own session.  `Held` adds to it that a session has a
holder exactly when it was not refused.

`ConferenceProofs`: `TypeCorrect`, `SilenceEnds` and `VideoReachesAll`.  `SilenceEnds`: whatever the two timeouts, no
room goes on for more than one select beyond the receive timeout without audio.
`IInv` adds `Recent`: the time of silence is no more than the timeout plus the time
already spent in this select, of starting rooms as well as of running ones, as a
room begins its loop with what it has then.  `VideoReachesAll`: video goes to the other
members, whatever addresses they take; its invariant `Apart` says that no two members
send from one address and that channel numbers of a room are all different and below
its counter, as `send_to_all_video_channel` leaves out the sender by its number.

The second part of `ConferenceProofs` is about the audio of its rooms: it extends `Mixer`
too, which has no name in common with `Conference` (its specification is `MixerSpec`).
`MixerTypeCorrect`, `ZeroNotMixed`, `CrashExplained`, `MixedOnce` and `SentToListed` for any
number of addresses, of packets, and any size of the arrays, and `AudioOnlyGetsNewer` as the
action property.  `MixerInv` relates where the main thread and the thread of channel 0 are
to how often each source is in the mixer.  The action property needs a second invariant on
top of it, that every copy of a channel's audio is no newer than the one it is made from.

`StateCtlProofs`: every safety property of `statectl_members`, for any number of calls,
numbers and sessions: `ConferenceStays`, `StatusRight`, `CountsRight`, `CrashExplained`,
`TypeCorrect`, and `Implements`: the application implements `RoomCaller`, on which
`Conference` rests.  The invariant `IInv` says that the reference count is the number of
calls that hold one (`References`), who is in which locked section (`Locks`), that an
entry belongs to one call and agrees with where this call is (`Entries`), that user
numbers rise (`Numbers`), that a call that leaves knows whether its number is still in
and no stale entry hides a present one (`Leavers`), what members were told (`Statuses`),
and the counters as long as nothing has overlapped (`Counts`).  The list that two locks do not
protect is dealt with once: sections that overlap are on record (`Overlaps`), a member without an
entry is one of a conference that is `Spoilt` (a walk was torn and sections overlapped), and
`Leavers` and `Statuses` are claimed of conferences that are not torn.  `Statuses` alone is not
inductive: that an "out" does not come after the "in" of the same number rests on
`Leavers`, which holds because a joining call that is not quiet has to pass `confs` for its
entrance sound before it tells anybody (`Play`).

`MediaStreamsProofs`: `TypeCorrect`, `StreamsBelong`, `CrashExplained`, `AudioFollows` and
`NothingOutlives`, every property of `media_calls`, for any number of lines and of events
that wait.  As the application learns late, `IInv` relates the lines as they are to the
media as they will be when the waiting events are handled: the last event that turns
audio on or off decides (`AudioInv`), and when no line is
in use the last event is a hangup or everything is back where it began (`IdleInv`,
`GoneInv`).  That an event may overtake another is a swap of two neighbours, which leaves the last
turn where it was unless both are turns, and that is a mishap.  `CallInv` is about conferences: with no
mishap since the last rest a hangup of an answered call has an answer before it that no
other turn follows, or the WebRTC call is there.  With any other number nothing is needed of the
order (`PlainInv`): what a hangup stops it has tested.  `NumberInv` says that buttons, activities and streams are those of the number
in `editDest`, which is why the hangup, that looks at the number and not at the streams,
finds what it has to stop.  The lemmas about the media say which streams a function of `wtkcall_lib.c`
may touch, and what it needs of the engine in order not to crash.

`TransferProofs`: `TypeCorrect`, `DirectPathProven`, `DirectPathReaches` and `Connected`,
every property of `transfer_call`, for any addresses, any assignment of them to networks,
and any bounds on heartbeats, losses and moves.  The three speak of calls whose clients have
not moved, and so does `IInv`: such a call is in the relay phase (`Early`, no heartbeat
sent) or past it (`Late`).  `Early` lists what a frame of the relay phase may say and what a
session may be doing meanwhile: no frame and no session knows of a direct path, and a client
goes to the relay only when the server has heard of both.  `Late` does so for the frames of
a heartbeat.  What a frame says is not enough there.  The relay clears its status bits with
each heartbeat and saves who sent one, so that an older answer could complete a newer
attempt: `Single` rules it out.  The frames a heartbeat leads to follow one another, so that
there is one of them, or one pair of announcements, at any time.  This rests on `UnderWay`:
a client's next heartbeat is sent when the frames of its last one have arrived or been lost.
For the same reason the relay does not ask a client to try a direct path (`Tell`) while it
has that client's bit.  `Connected` needs two more parts: when the server has released the call,
whoever has not gone has a TXREL under way (`AllReleased`), and when the relay has switched
and nothing was lost, whoever is not on the direct path has an announcement under way
(`Informed`).  `Legs` says that the route is the two clients', at their addresses.

Only model-checked: liveness (no proof of fairness properties is possible with
these tools, nor of ENABLED).  Every
safety property and every action property of the passing runs is a theorem.  No module uses a RECURSIVE operator.

## 6. Not modelled

Asterisk itself, which is vendored: only `app_statectl.c` in its tree is this project's,
and what the call server does in a transfer is external to `Transfer`.  By lines it is
nearly all of the repository, so that the share of all lines that the modules stand for
stays small however much of the rest is modelled.  Frame layout (`iax2-parser.c`), MD5,
the iOS wrappers, the loopback program and the WebRTC patch: no protocol state of this
project, or not this project's code.  The push-to-talk client: nothing calls it
(`USE_PTT` is 0).  The media threads read `selected_call` and its session without
`iaxc_lock` (wtkcall_lib.c:80); this data race is listed as a hazard without a property,
as the lines' model runs each handler under the lock.  `PROJECT.json` gives the reason
for each component.

## 7. Plan

In this order:

1. Poke and ping timers of `CallTable`.
2. The media threads of `wtkcall_lib.c` that send without the lock, composed with
   `CallTable` at the granularity of single accesses.
