------------------------------ MODULE MediaStreams ------------------------------
(***************************************************************************)
(* The media engine (wtk_rtc_api.cc, started and stopped by wtkcall_lib.c) *)
(* under the application of the repository (MainActivity, VideoActivity,   *)
(* VideoConfActivity).                                                     *)
(*                                                                         *)
(* The engine keeps one WebRTC call and its streams in global pointers and *)
(* has no lock.  The application runs on one thread: it handles the events *)
(* of the call table some time after they happened, in an order that the   *)
(* library's queue does not promise (EventQueue), and opens its two video  *)
(* activities some time after the user asked for them.  Packets from the   *)
(* network are delivered by the library's own thread.                      *)
(*                                                                         *)
(* What happens at a moment the application was not written for is kept in *)
(* mishaps, a history variable: the model goes on, and the properties say  *)
(* what can follow from which mishap.  It is forgotten when a call starts  *)
(* while nothing is left of the calls before.                              *)
(***************************************************************************)
EXTENDS Naturals, Sequences

CONSTANTS
    Line,       \* lines of the call table
    MaxEvents   \* bound on the events that wait for the application

ASSUME MaxEventsAssumption == MaxEvents \in Nat

VARIABLES
    lines,      \* the lines of the call table
    events,     \* what the application's handler has not looked at yet
    mode,       \* MainActivity: STATEIDEL, STATERINGIN, STATETALKING
    buttons,    \* the video buttons that are enabled
    dest,       \* editDest: the number of a conference, or of anybody else
    opening,    \* activities asked for
    open,       \* activities on top of MainActivity
    receivers,  \* CallReceivers registered by MainActivity, 2 for more
    media,      \* the globals of wtk_rtc_api.cc
    packet,     \* g_call was tested for a packet that is not delivered yet
    mishaps

ui == <<mode, buttons, dest, opening, open, receivers>>
vars == <<lines, events, ui, media, packet, mishaps>>

Activity == {"video", "conf"}

Stream == {"audio send", "audio receive", "video send", "video receive",
           "conf send", "conf receive"}

\* Of the four conference streams that are received, which are handled in one loop
\* each, one stands for all.  A stream whose call is gone is stale.
Media == [call : BOOLEAN, of : [Stream -> {"null", "live", "stale"}],
          running : SUBSET Stream, capturer : {"null", "off", "on"}, crashed : BOOLEAN]

NoMedia == [call |-> FALSE, of |-> [s \in Stream |-> "null"], running |-> {},
            capturer |-> "null", crashed |-> FALSE]

\* reject is the hangup of a call that was not answered: the application gets the
\* same CALL_FREE.
Event == {"new", "answer", "transfer", "hangup", "reject"}

\* The events that turn audio on or off
Turns == {"answer", "hangup", "reject"}

Mishap == {"overlap", "retyped", "outside", "unanswered", "twice", "camera", "packet",
           "overtaken"}

-----------------------------------------------------------------------------
(* wtk_rtc_api.cc *)

Crash(m) == [m EXCEPT !.crashed = TRUE]

\* g_call-> without a test
Use(m, r) == IF m.call THEN r ELSE Crash(m)

Exists(m, s) == m.of[s] # "null"

\* A call into a stream whose WebRTC call was destroyed
Touch(m, S, r) == IF \E s \in S : m.of[s] = "stale" THEN Crash(m) ELSE r

CreateCall(m) == [m EXCEPT !.call = TRUE]

\* libwtk_destroy_call
DestroyCall(m) ==
    [m EXCEPT !.call = FALSE,
              !.of = [s \in Stream |-> IF m.of[s] = "live" THEN "stale" ELSE m.of[s]]]

\* libwtk_create_*_stream; WebRTC creates every stream it is asked for.
Create(m, s) ==
    IF Exists(m, s) THEN m ELSE Use(m, [m EXCEPT !.of[s] = "live"])

\* libwtk_destroy_*_stream
Destroy(m, s) ==
    IF Exists(m, s) /\ m.call
    THEN Touch(m, {s}, [m EXCEPT !.of[s] = "null", !.running = m.running \ {s}])
    ELSE m

\* libwtk_start_audio_stream, libwtk_start_video_stream, and their opposites
StartBoth(m, a, b) ==
    IF Exists(m, a) /\ Exists(m, b)
    THEN Touch(m, {a, b}, Use(m, [m EXCEPT !.running = m.running \cup {a, b}]))
    ELSE m

\* mutant: without the test that there is something to stop
StopUntested(m, a, b) == Use(m, [m EXCEPT !.running = m.running \ {a, b}])

StopBoth(m, a, b) ==
    IF Exists(m, a) /\ Exists(m, b)
    THEN Touch(m, {a, b}, Use(m, [m EXCEPT !.running = m.running \ {a, b}]))
    ELSE m

ConfStreams(m) == {s \in {"conf send", "conf receive"} : Exists(m, s)}

StartConfStreams(m) ==
    Touch(m, ConfStreams(m), Use(m, [m EXCEPT !.running = m.running \cup ConfStreams(m)]))

StopConfStreams(m) ==
    Touch(m, ConfStreams(m), Use(m, [m EXCEPT !.running = m.running \ ConfStreams(m)]))

Capture(m, how) == IF m.capturer = "null" THEN m ELSE [m EXCEPT !.capturer = how]

DestroyCapture(m) == [m EXCEPT !.capturer = "null"]

\* libwtk_create_local_render: the capturer is used whether its creation failed or not.
CreateLocalRender(m, camera) ==
    IF m.capturer # "null" THEN m
    ELSE IF camera THEN [m EXCEPT !.capturer = "off"] ELSE Crash(m)

-----------------------------------------------------------------------------
(* wtkcall_lib.c *)

StartAudio(m) ==
    StartBoth(Create(Create(CreateCall(m), "audio send"), "audio receive"),
              "audio send", "audio receive")

StopAudio(m) ==
    DestroyCall(Destroy(Destroy(StopBoth(m, "audio send", "audio receive"),
                                "audio send"), "audio receive"))

StartVideo(m) ==
    StartBoth(Create(Create(m, "video send"), "video receive"),
              "video send", "video receive")

\* mutant: the camera stays on
StopVideoStreams(m) ==
    Destroy(Destroy(StopBoth(m, "video send", "video receive"),
                    "video send"), "video receive")

StopVideo(m) ==
    DestroyCapture(Destroy(Destroy(StopBoth(m, "video send", "video receive"),
                                   "video send"), "video receive"))

\* libwtk_create_video_conf_receive_stream uses g_call also if all streams are there.
StartConfVideo(m) ==
    LET sending == Create(m, "conf send")
    IN  StartConfStreams(Use(sending, Create(sending, "conf receive")))

StopConfVideo(m) ==
    DestroyCapture(Destroy(Destroy(StopConfStreams(Capture(m, "off")),
                                   "conf receive"), "conf send"))

-----------------------------------------------------------------------------
(* The call table, as far as the application is told of it (CallTable) *)

\* A process that crashed is gone.
Alive == ~media.crashed

Busy(l) == lines[l] # "free"

\* No line is in use, and the application knows.
Settled == events = <<>> /\ opening = {} /\ \A l \in Line : ~Busy(l)

\* Nothing is left of the calls before, in the engine or in the application.
AtRest ==
    /\ Settled /\ mode = "idle" /\ buttons = {} /\ open = {}
    /\ media = NoMedia /\ packet = "none"

\* A call starts on l.
Starts(l) ==
    mishaps' = IF AtRest THEN {}
               ELSE IF \E k \in Line \ {l} : Busy(k) THEN mishaps \cup {"overlap"}
               ELSE mishaps

Tell(e) == Len(events) < MaxEvents /\ events' = Append(events, e)

Incoming(l) ==
    /\ Alive /\ lines[l] = "free"
    /\ lines' = [lines EXCEPT ![l] = "in"]
    /\ Tell("new")
    /\ Starts(l)
    /\ UNCHANGED <<ui, media, packet>>

PeerAnswers(l) ==
    /\ Alive /\ lines[l] = "out"
    /\ lines' = [lines EXCEPT ![l] = "answered"]
    /\ Tell("answer")
    /\ UNCHANGED <<ui, media, packet, mishaps>>

\* The path of the call changed (Transfer).
Transferred(l) ==
    /\ Alive /\ lines[l] = "answered"
    /\ Tell("transfer")
    /\ UNCHANGED <<lines, ui, media, packet, mishaps>>

Ended(l) ==
    /\ Alive /\ Busy(l)
    /\ lines' = [lines EXCEPT ![l] = "free"]
    /\ Tell(IF lines[l] = "answered" THEN "hangup" ELSE "reject")

PeerEnds(l) == Ended(l) /\ UNCHANGED <<ui, media, packet, mishaps>>

\* put_iaxc_lock has taken an event off the queue and finds the lock busy again: the
\* event goes to the end, behind one that was queued meanwhile.
Overtakes(i) ==
    /\ Alive /\ i \in 1 .. Len(events) - 1
    /\ events' = [events EXCEPT ![i] = events[i + 1], ![i + 1] = events[i]]
    /\ mishaps' = IF {events[i], events[i + 1]} \subseteq Turns
                  THEN mishaps \cup {"overtaken"} ELSE mishaps
    /\ UNCHANGED <<lines, ui, media, packet>>

-----------------------------------------------------------------------------
(* MainActivity *)

\* setActivityMode
SetMode(to) ==
    /\ mode' = to
    /\ buttons' = CASE to = "idle" -> {}
                    [] to = "ringing" -> buttons
                    [] to = "talking" ->
                         buttons \cup {IF dest = "conf" THEN "conf" ELSE "video"}

\* The number field can be changed at any time.
Type(d) ==
    /\ Alive /\ open = {} /\ d # dest
    /\ dest' = d
    /\ mishaps' = IF AtRest THEN mishaps ELSE mishaps \cup {"retyped"}
    /\ UNCHANGED <<lines, events, mode, buttons, opening, open, receivers, media, packet>>

PressDial(l) ==
    /\ Alive /\ open = {} /\ mode = "idle" /\ lines[l] = "free"
    /\ lines' = [lines EXCEPT ![l] = "out"]
    /\ SetMode("ringing")
    /\ Starts(l)
    /\ UNCHANGED <<events, dest, opening, open, receivers, media, packet>>

PressAnswer(l) ==
    /\ Alive /\ open = {} /\ mode = "ringing" /\ lines[l] = "in"
    /\ lines' = [lines EXCEPT ![l] = "answered"]
    /\ Tell("answer")
    /\ SetMode("talking")
    /\ UNCHANGED <<dest, opening, open, receivers, media, packet, mishaps>>

\* The hangup button of MainActivity, or of the activity on top of it.
PressHangup(l) ==
    /\ Ended(l)
    /\ IF open = {} THEN mode # "idle" /\ SetMode("idle") ELSE UNCHANGED <<mode, buttons>>
    /\ UNCHANGED <<dest, opening, open, receivers, media, packet, mishaps>>

PressVideo(a) ==
    /\ Alive /\ open = {} /\ a \in buttons /\ opening = {}
    /\ opening' = {a}
    /\ UNCHANGED <<lines, events, mode, buttons, dest, open, receivers, media, packet,
                   mishaps>>

\* mutant: audio first
AudioEndsFirst(m) ==
    IF dest = "conf" THEN StopConfVideo(StopAudio(m)) ELSE StopVideo(StopAudio(m))

\* mutant: a conference keeps its audio
EndConfOrMedia(m) ==
    IF dest = "conf" THEN StopConfVideo(m) ELSE StopAudio(StopVideo(m))

\* CallReceiver, iax.hangup
EndMedia(m) == StopAudio(IF dest = "conf" THEN StopConfVideo(m) ELSE StopVideo(m))

\* MainActivity registers a receiver whenever it comes back to the front.
Returned == receivers' = IF open = {} THEN receivers ELSE 2

\* onReceive looks at the events in the order they were posted in.
Take(kinds) ==
    /\ Alive /\ events # <<>>
    /\ Head(events) \in kinds /\ events' = Tail(events)
    /\ UNCHANGED <<lines, dest, opening, packet>>

HandleNew ==
    /\ Take({"new"})
    /\ SetMode("ringing")
    /\ UNCHANGED <<open, receivers, media, mishaps>>

HandleAnswer ==
    /\ Take({"answer"})
    /\ SetMode("talking")
    /\ media' = StartAudio(media)
    /\ UNCHANGED <<open, receivers, mishaps>>

HandleTransfer ==
    /\ Take({"transfer"})
    /\ SetMode("talking")
    /\ UNCHANGED <<open, receivers, media, mishaps>>

\* Every receiver ends the media; the activity on top finishes itself.
HandleHangup ==
    /\ Take({"hangup", "reject"})
    /\ SetMode("idle")
    /\ media' = IF receivers = 1 THEN EndMedia(media) ELSE EndMedia(EndMedia(media))
    /\ open' = {} /\ Returned
    /\ mishaps' = mishaps
         \cup (IF dest = "conf" /\ Head(events) = "reject" THEN {"unanswered"} ELSE {})
         \cup (IF dest = "conf" /\ receivers = 2 THEN {"twice"} ELSE {})

-----------------------------------------------------------------------------
(* VideoActivity and VideoConfActivity *)

\* A call is up, and the application knows.
InCall ==
    /\ \E l \in Line : lines[l] = "answered"
    /\ \A i \in 1 .. Len(events) : events[i] \in {"new", "transfer"}

Opened(a, extra) ==
    /\ Alive /\ a \in opening
    /\ opening' = {} /\ open' = {a}
    /\ mishaps' = mishaps \cup extra \cup (IF InCall THEN {} ELSE {"outside"})
    /\ UNCHANGED <<lines, events, mode, buttons, dest, receivers, packet>>

\* VideoActivity.onCreate
OpenVideo(camera) ==
    /\ Opened("video", IF camera THEN {} ELSE {"camera"})
    /\ media' = Capture(StartVideo(StartAudio(CreateLocalRender(media, camera))), "on")

\* VideoConfActivity.onCreate
OpenConf ==
    /\ Opened("conf", {})
    /\ media' = Capture(StartConfVideo(media), "on")

\* btn_is_start_video, btn_conf_is_start_video
SwitchCapture(how) ==
    /\ Alive /\ open # {} /\ media.capturer \notin {"null", how}
    /\ media' = Capture(media, how)
    /\ UNCHANGED <<lines, events, ui, packet, mishaps>>

\* btn_back_audio
BackToAudio ==
    /\ Alive /\ open = {"video"}
    /\ media' = StopVideo(Capture(media, "off"))
    /\ open' = {} /\ Returned
    /\ UNCHANGED <<lines, events, mode, buttons, dest, opening, packet, mishaps>>

\* The back key
Back ==
    /\ Alive /\ open # {}
    /\ open' = {} /\ Returned
    /\ UNCHANGED <<lines, events, mode, buttons, dest, opening, media, packet, mishaps>>

-----------------------------------------------------------------------------
(* libwtk_decode_audio, libwtk_decode_video on the network's thread *)

PacketTested ==
    /\ Alive /\ packet = "none" /\ media.call /\ \E l \in Line : lines[l] = "answered"
    /\ packet' = "tested"
    /\ UNCHANGED <<lines, events, ui, media, mishaps>>

PacketDelivered ==
    /\ Alive /\ packet = "tested"
    /\ packet' = "none"
    /\ media' = Use(media, media)
    /\ mishaps' = IF media.call THEN mishaps ELSE mishaps \cup {"packet"}
    /\ UNCHANGED <<lines, events, ui>>

-----------------------------------------------------------------------------

Init ==
    /\ lines = [l \in Line |-> "free"] /\ events = <<>>
    /\ mode = "idle" /\ buttons = {} /\ dest = "plain"
    /\ opening = {} /\ open = {} /\ receivers = 1
    /\ media = NoMedia /\ packet = "none" /\ mishaps = {}

AppStep ==
    \/ HandleNew \/ HandleAnswer \/ HandleTransfer \/ HandleHangup
    \/ \E camera \in BOOLEAN : OpenVideo(camera)
    \/ OpenConf

LineStep(l) ==
    \/ Incoming(l) \/ PeerAnswers(l) \/ Transferred(l) \/ PeerEnds(l)
    \/ PressDial(l) \/ PressAnswer(l) \/ PressHangup(l)

UserStep ==
    \/ \E d \in {"plain", "conf"} : Type(d)
    \/ \E a \in Activity : PressVideo(a)
    \/ \E how \in {"on", "off"} : SwitchCapture(how)
    \/ BackToAudio \/ Back

Next ==
    \/ AppStep \/ UserStep \/ PacketTested \/ PacketDelivered
    \/ \E l \in Line : LineStep(l)
    \/ \E i \in 1 .. Len(events) : Overtakes(i)

Spec == Init /\ [][Next]_vars

-----------------------------------------------------------------------------

\* Types of the variables; what runs exists.
TypeOK ==
    /\ lines \in [Line -> {"free", "in", "out", "answered"}]
    /\ events \in Seq(Event) /\ Len(events) <= MaxEvents
    /\ mode \in {"idle", "ringing", "talking"} /\ buttons \subseteq Activity
    /\ dest \in {"plain", "conf"}
    /\ opening \subseteq Activity /\ open \subseteq Activity /\ receivers \in {1, 2}
    /\ media \in Media /\ \A s \in media.running : Exists(media, s)
    /\ packet \in {"none", "tested"} /\ mishaps \subseteq Mishap

\* No stream outlives the WebRTC call it was made from, in whatever order calls are
\* answered, overlap and end, unless the number was changed while it mattered:
\* libwtk_destroy_*_stream can do nothing for a stream once g_call is gone.
StreamsBelongToTheCall ==
    "retyped" \notin mishaps => \A s \in Stream : media.of[s] # "stale"

\* No handler reaches for a call, a stream or a camera that is not there, unless there
\* is no camera, the number was changed while it mattered, or a packet came late; or, with
\* the number of a conference, calls overlapped or were refused, a hangup was handled
\* twice or before its answer, or the activity came up after the call.
CrashIsExplained ==
    media.crashed =>
        \/ mishaps \cap {"camera", "packet", "retyped"} # {}
        \/ /\ dest = "conf"
           /\ mishaps \cap {"overlap", "outside", "unanswered", "twice", "overtaken"} # {}

\* When the application has seen all events, it hears and is heard exactly if a call
\* is answered, unless two calls overlap (the end of one silences the other), a video
\* activity came up after the call, or an answer and an end were seen in the wrong order.
AudioFollowsTheCall ==
    ~media.crashed /\ events = <<>> /\ mishaps \cap {"overlap", "outside", "overtaken"} = {}
        => ({"audio send", "audio receive"} \subseteq media.running
              <=> \E l \in Line : lines[l] = "answered")

\* When the application has seen the last call end, no camera, microphone or stream
\* is left behind it, unless a video activity came up after the call, the number was
\* changed, or an answer and an end were seen in the wrong order.
NothingOutlivesTheCall ==
    ~media.crashed /\ mishaps \cap {"outside", "retyped", "overtaken"} = {} /\ Settled
        => media = NoMedia

=============================================================================
