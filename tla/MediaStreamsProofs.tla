--------------------------- MODULE MediaStreamsProofs ---------------------------
(***************************************************************************)
(* Proofs about MediaStreams, for any number of lines and of events that   *)
(* wait for the application.                                               *)
(*                                                                         *)
(* The application learns late of what happened.  The invariant relates    *)
(* the lines as they are to the media as they will be when the events that *)
(* wait have been handled: the last event that turns audio on or off       *)
(* decides.                                                                *)
(***************************************************************************)
EXTENDS MediaStreams, Integers, TLAPS

\* Some call is in progress; it is answered.
AnyBusy == \E l \in Line : Busy(l)
Answered == \E l \in Line : lines[l] = "answered"

\* No event of ev turns audio on or off; the i-th is the last that does.
NoTurn(ev) == \A i \in 1 .. Len(ev) : ev[i] \notin Turns

LastTurn(ev, i) ==
    /\ i \in 1 .. Len(ev) /\ ev[i] \in Turns
    /\ \A j \in 1 .. Len(ev) : j > i => ev[j] \notin Turns

\* The user hears and is heard.
Audio == {"audio send", "audio receive"}
Hearing(m) == Audio \subseteq m.running

\* A stream that lives has its WebRTC call, and none is stale.
Clean(m) ==
    \A s \in Stream : m.of[s] # "stale" /\ (m.of[s] = "live" => m.call)

\* The activity for the number, and the streams of the other one
Own == IF dest = "conf" THEN {"conf"} ELSE {"video"}
Foreign == IF dest = "conf" THEN {"video send", "video receive"}
                            ELSE {"conf send", "conf receive"}

\* The events of a line that is free again
Ends == {"hangup", "reject"}

\* After the last call the last turn is an end.
IdleInv ==
    "overtaken" \notin mishaps /\ ~AnyBusy =>
        \A i \in 1 .. Len(events) : LastTurn(events, i) => events[i] \in Ends

\* Whatever is possible for a number is possible for it only.
ForNumber ==
    /\ buttons \subseteq Own /\ opening \subseteq Own /\ open \subseteq Own
    /\ Clean(media) /\ \A s \in Foreign : media.of[s] = "null"

NumberInv == "retyped" \notin mishaps => ForNumber

\* Nothing is left when the last turn was handled.
GoneInv ==
    ~media.crashed /\ mishaps \cap {"outside", "retyped", "overtaken"} = {} /\ ~AnyBusy
            /\ NoTurn(events)
        => media = NoMedia

\* One call at a time
OneLine == \A k, l \in Line : Busy(k) /\ Busy(l) => k = l

OneInv == "overlap" \notin mishaps => OneLine

\* Audio is on, or will be when the events ev have been handled, exactly if b; now it is
\* on exactly if h.
Due(ev, h, b) ==
    \/ NoTurn(ev) /\ (h <=> b)
    \/ \E i \in 1 .. Len(ev) : LastTurn(ev, i) /\ (ev[i] = "answer" <=> b)

\* It is due while a call is answered.
AudioInv ==
    ~media.crashed /\ mishaps \cap {"overlap", "outside", "overtaken"} = {}
        => Due(events, Hearing(media), Answered)

\* The i-th event finds the WebRTC call that an answer has made, which is there now if c.
Prepared(ev, c, i) ==
    \/ c /\ \A j \in 1 .. Len(ev) : j < i => ev[j] \notin Turns
    \/ \E j \in 1 .. Len(ev) :
          /\ j < i /\ ev[j] = "answer"
          /\ \A k \in 1 .. Len(ev) : j < k /\ k < i => ev[k] \notin Turns

\* Without a mishap nothing crashes: every hangup finds its call.
Ready ==
    /\ ~media.crashed
    /\ NoTurn(events) /\ Answered => media.call
    /\ \A i \in 1 .. Len(events) : events[i] = "hangup" => Prepared(events, media.call, i)

CallInv == mishaps = {} => Ready

\* What makes any call crash
AnyNumber == {"camera", "packet", "retyped"}

\* A call that is no conference crashes for nothing else.
PlainInv == dest = "plain" /\ mishaps \cap AnyNumber = {} => ~media.crashed

\* The inductive invariant
IInv ==
    /\ TypeOK /\ IdleInv /\ NumberInv /\ GoneInv /\ OneInv /\ AudioInv /\ CallInv
    /\ PlainInv

-----------------------------------------------------------------------------
(* The media engine *)

\* The part of TypeOK about the media
Typed(m) == m \in Media /\ \A s \in m.running : Exists(m, s)

\* r is m after steps on the streams of S only.
Only(m, r, S) ==
    /\ Typed(r) /\ (m.crashed => r.crashed)
    /\ \A s \in Stream \ S : r.of[s] = m.of[s] /\ (s \in r.running <=> s \in m.running)

\* A crash changes nothing else.
LEMMA CrashFacts ==
    ASSUME NEW m, Typed(m)
    PROVE  /\ Only(m, Crash(m), {}) /\ Crash(m).crashed
           /\ Crash(m).call = m.call /\ Crash(m).of = m.of /\ Crash(m).running = m.running
           /\ Crash(m).capturer = m.capturer
BY DEF Crash, Typed, Only, Media, Exists

\* A change of one stream
Set(m, s, to, run) == [m EXCEPT !.of = [m.of EXCEPT ![s] = to], !.running = run]

\* What Set changes, field by field.
LEMMA SetFacts ==
    ASSUME NEW m, Typed(m), NEW s \in Stream, NEW to \in {"null", "live", "stale"},
           NEW run \in SUBSET Stream
    PROVE  LET r == Set(m, s, to, run) IN
           /\ r \in Media
           /\ \A t \in Stream : r.of[t] = IF t = s THEN to ELSE m.of[t]
           /\ r.call = m.call /\ r.running = run
           /\ r.capturer = m.capturer /\ r.crashed = m.crashed
<1>1. m.of \in [Stream -> {"null", "live", "stale"}]
  BY DEF Typed, Media
<1>2. [m.of EXCEPT ![s] = to] \in [Stream -> {"null", "live", "stale"}]
  BY <1>1
<1>3. \A t \in Stream : [m.of EXCEPT ![s] = to][t] = IF t = s THEN to ELSE m.of[t]
  BY <1>1
<1> DEFINE of == [m.of EXCEPT ![s] = to]
<1> HIDE DEF of
<1>4. Set(m, s, to, run) = [m EXCEPT !.of = of, !.running = run]
  BY DEF Set, of
<1>5. LET r == Set(m, s, to, run) IN
      /\ r \in Media /\ r.of = of
      /\ r.call = m.call /\ r.running = run
      /\ r.capturer = m.capturer /\ r.crashed = m.crashed
  BY <1>2, <1>4 DEF of, Typed, Media
<1> QED BY <1>3, <1>5 DEF of

\* libwtk_create_*_stream
LEMMA CreateFacts ==
    ASSUME NEW m, Typed(m), NEW s \in Stream
    PROVE  LET r == Create(m, s) IN
           /\ Only(m, r, {s})
           /\ r.call = m.call /\ r.running = m.running /\ r.capturer = m.capturer
           /\ r.crashed \/ Exists(r, s)
           /\ m.call => r.crashed = m.crashed
           /\ Clean(m) => Clean(r)
<1>1. CASE Exists(m, s)
  BY <1>1 DEF Create, Only
<1>2. CASE ~Exists(m, s) /\ ~m.call
  BY <1>2, CrashFacts DEF Create, Only, Use, Clean
<1>3. CASE ~Exists(m, s) /\ m.call
  <2>1. Create(m, s) = Set(m, s, "live", m.running)
    BY <1>3 DEF Create, Use, Typed, Media, Set
  <2> DEFINE r == Create(m, s)
  <2> HIDE DEF r
  <2>2. /\ r \in Media
        /\ \A t \in Stream : r.of[t] = IF t = s THEN "live" ELSE m.of[t]
        /\ r.call = m.call /\ r.running = m.running
        /\ r.capturer = m.capturer /\ r.crashed = m.crashed
    BY <2>1, SetFacts DEF r, Typed, Media
  <2>3. Only(m, r, {s}) /\ Exists(r, s)
    BY <2>2 DEF Only, Typed, Exists, Media
  <2>4. Clean(m) => Clean(r)
    BY <1>3, <2>2 DEF Clean
  <2> QED BY <2>2, <2>3, <2>4 DEF r
<1> QED BY <1>1, <1>2, <1>3

\* libwtk_destroy_*_stream: on a clean engine the stream is gone.
LEMMA DestroyFacts ==
    ASSUME NEW m, Typed(m), NEW s \in Stream
    PROVE  LET r == Destroy(m, s) IN
           /\ Only(m, r, {s})
           /\ r.call = m.call /\ r.running \subseteq m.running /\ r.capturer = m.capturer
           /\ Clean(m) => Clean(r) /\ r.of[s] = "null" /\ r.crashed = m.crashed
<1>1. CASE ~(Exists(m, s) /\ m.call)
  BY <1>1 DEF Destroy, Only, Clean, Exists, Typed, Media
<1>2. CASE Exists(m, s) /\ m.call /\ m.of[s] = "stale"
  <2>1. Destroy(m, s) = Crash(m)
    BY <1>2 DEF Destroy, Touch
  <2> QED BY <1>2, <2>1, CrashFacts DEF Only, Clean
<1>3. CASE Exists(m, s) /\ m.call /\ m.of[s] # "stale"
  <2>1. Destroy(m, s) = Set(m, s, "null", m.running \ {s})
    BY <1>3 DEF Destroy, Touch, Typed, Media, Set
  <2> DEFINE r == Destroy(m, s)
  <2> HIDE DEF r
  <2>2. /\ r \in Media
        /\ \A t \in Stream : r.of[t] = IF t = s THEN "null" ELSE m.of[t]
        /\ r.call = m.call /\ r.running = m.running \ {s}
        /\ r.capturer = m.capturer /\ r.crashed = m.crashed
    BY <2>1, SetFacts DEF r, Typed, Media
  <2>3. Only(m, r, {s}) /\ r.of[s] = "null"
    BY <2>2 DEF Only, Typed, Exists, Media
  <2>4. Clean(m) => Clean(r)
    BY <1>3, <2>2 DEF Clean
  <2> QED BY <2>2, <2>3, <2>4 DEF r
<1> QED BY <1>1, <1>2, <1>3

\* What runs changes, or the process crashes.
LEMMA RunFacts ==
    ASSUME NEW m, Typed(m), NEW r, NEW run \in SUBSET Stream, \A s \in run : Exists(m, s),
           r = [m EXCEPT !.running = run]
    PROVE  /\ r \in Media /\ Typed(r) /\ r.of = m.of /\ r.call = m.call
           /\ r.running = run /\ r.capturer = m.capturer /\ r.crashed = m.crashed
           /\ Clean(m) => Clean(r)
<1>1. /\ r \in Media /\ r.of = m.of /\ r.call = m.call
      /\ r.running = run /\ r.capturer = m.capturer /\ r.crashed = m.crashed
  BY DEF Typed, Media
<1> QED BY <1>1 DEF Typed, Exists, Clean

\* libwtk_start_audio_stream, libwtk_start_video_stream: both streams run or none starts.
LEMMA StartBothFacts ==
    ASSUME NEW m, Typed(m), NEW a \in Stream, NEW b \in Stream
    PROVE  LET r == StartBoth(m, a, b) IN
           /\ Only(m, r, {a, b})
           /\ r.call = m.call /\ r.of = m.of /\ m.running \subseteq r.running
           /\ r.capturer = m.capturer
           /\ Exists(m, a) /\ Exists(m, b) => r.crashed \/ {a, b} \subseteq r.running
           /\ Clean(m) => Clean(r) /\ r.crashed = m.crashed
<1>1. CASE ~(Exists(m, a) /\ Exists(m, b))
  BY <1>1 DEF StartBoth, Only
<1>2. CASE StartBoth(m, a, b) = Crash(m) /\ ~Clean(m)
  BY <1>2, CrashFacts DEF Only
<1>3. CASE Exists(m, a) /\ Exists(m, b)
           /\ StartBoth(m, a, b) = [m EXCEPT !.running = m.running \cup {a, b}]
  <2>1. m.running \cup {a, b} \in SUBSET Stream
        /\ \A s \in m.running \cup {a, b} : Exists(m, s)
    BY <1>3 DEF Typed, Media
  <2> QED BY <1>3, <2>1, RunFacts DEF Only
<1>4. Exists(m, a) /\ Exists(m, b) =>
          \/ StartBoth(m, a, b) = Crash(m) /\ ~Clean(m)
          \/ StartBoth(m, a, b) = [m EXCEPT !.running = m.running \cup {a, b}]
  <2>1. \A s \in Stream : Exists(m, s) /\ m.of[s] # "stale" => m.of[s] = "live"
    BY DEF Exists, Typed, Media
  <2> QED BY <2>1 DEF StartBoth, Touch, Use, Clean
<1> QED BY <1>1, <1>2, <1>3, <1>4

\* libwtk_stop_audio_stream, libwtk_stop_video_stream
LEMMA StopBothFacts ==
    ASSUME NEW m, Typed(m), NEW a \in Stream, NEW b \in Stream
    PROVE  LET r == StopBoth(m, a, b) IN
           /\ Only(m, r, {a, b})
           /\ r.call = m.call /\ r.of = m.of /\ r.running \subseteq m.running
           /\ r.capturer = m.capturer
           /\ r.crashed \/ a \notin r.running \/ b \notin r.running
           /\ Clean(m) => Clean(r) /\ r.crashed = m.crashed
<1>1. CASE ~(Exists(m, a) /\ Exists(m, b))
  BY <1>1 DEF StopBoth, Only, Typed
<1>2. CASE StopBoth(m, a, b) = Crash(m) /\ ~Clean(m)
  BY <1>2, CrashFacts DEF Only
<1>3. CASE StopBoth(m, a, b) = [m EXCEPT !.running = m.running \ {a, b}]
  <2>1. PICK run : run = m.running \ {a, b}
    OBVIOUS
  <2>2. run \in SUBSET Stream /\ \A s \in run : Exists(m, s)
    BY <2>1 DEF Typed, Media
  <2>3. StopBoth(m, a, b) = [m EXCEPT !.running = run]
    BY <1>3, <2>1
  <2> QED BY <2>1, <2>2, <2>3, RunFacts DEF Only
<1>4. Exists(m, a) /\ Exists(m, b) =>
          \/ StopBoth(m, a, b) = Crash(m) /\ ~Clean(m)
          \/ StopBoth(m, a, b) = [m EXCEPT !.running = m.running \ {a, b}]
  <2>1. \A s \in Stream : Exists(m, s) /\ m.of[s] # "stale" => m.of[s] = "live"
    BY DEF Exists, Typed, Media
  <2> QED BY <2>1 DEF StopBoth, Touch, Use, Clean
<1> QED BY <1>1, <1>2, <1>3, <1>4

\* The streams of VideoConfActivity
Conference == {"conf send", "conf receive"}

\* libwtk_start_video_conf_stream and its opposite use g_call in any case.
LEMMA ConfFacts ==
    ASSUME NEW m, Typed(m), NEW r, r \in {StartConfStreams(m), StopConfStreams(m)}
    PROVE  /\ Only(m, r, Conference)
           /\ r.call = m.call /\ r.of = m.of /\ r.capturer = m.capturer
           /\ Clean(m) => Clean(r)
           /\ Clean(m) /\ m.call => r.crashed = m.crashed
<1>1. ConfStreams(m) \subseteq Conference /\ Conference \subseteq Stream
      /\ \A s \in ConfStreams(m) : Exists(m, s)
  BY DEF ConfStreams, Conference, Stream
<1>2. CASE r = Crash(m) /\ (~Clean(m) \/ ~m.call)
  BY <1>2, CrashFacts DEF Only, Clean
<1>3. ASSUME NEW run \in SUBSET Stream, r = [m EXCEPT !.running = run],
             \A s \in run : Exists(m, s),
             \A s \in Stream \ Conference : s \in run <=> s \in m.running
      PROVE  /\ Only(m, r, Conference)
             /\ r.call = m.call /\ r.of = m.of /\ r.capturer = m.capturer
             /\ Clean(m) => Clean(r)
             /\ r.crashed = m.crashed
  BY <1>3, RunFacts DEF Only
<1>4. m.running \in SUBSET Stream /\ \A s \in m.running : Exists(m, s)
  BY DEF Typed, Media
<1>5. CASE r = [m EXCEPT !.running = m.running \cup ConfStreams(m)]
  <2>1. PICK run \in SUBSET Stream : run = m.running \cup ConfStreams(m)
    BY <1>1, <1>4
  <2> QED BY <1>1, <1>3, <1>4, <1>5, <2>1
<1>6. CASE r = [m EXCEPT !.running = m.running \ ConfStreams(m)]
  <2>1. PICK run \in SUBSET Stream : run = m.running \ ConfStreams(m)
    BY <1>4
  <2> QED BY <1>1, <1>3, <1>4, <1>6, <2>1
<1>7. CASE r = StartConfStreams(m)
  <2>1. \/ r = Crash(m) /\ (~Clean(m) \/ ~m.call)
        \/ r = [m EXCEPT !.running = m.running \cup ConfStreams(m)]
    BY <1>1, <1>7 DEF StartConfStreams, Touch, Use, Clean
  <2> QED BY <1>2, <1>5, <2>1
<1>8. CASE r = StopConfStreams(m)
  <2>1. \/ r = Crash(m) /\ (~Clean(m) \/ ~m.call)
        \/ r = [m EXCEPT !.running = m.running \ ConfStreams(m)]
    BY <1>1, <1>8 DEF StopConfStreams, Touch, Use, Clean
  <2> QED BY <1>2, <1>6, <2>1
<1> QED BY <1>7, <1>8

\* The capturer and the WebRTC call itself
LEMMA CapturerFacts ==
    ASSUME NEW m, Typed(m), NEW r, NEW k \in {"null", "off", "on"},
           r = [m EXCEPT !.capturer = k]
    PROVE  /\ Only(m, r, {})
           /\ r.call = m.call /\ r.of = m.of /\ r.running = m.running
           /\ Clean(m) => Clean(r)
           /\ r.crashed = m.crashed /\ r.capturer = k
<1>1. /\ r \in Media /\ r.call = m.call /\ r.of = m.of /\ r.running = m.running
      /\ r.crashed = m.crashed /\ r.capturer = k
  BY DEF Typed, Media
<1> QED BY <1>1 DEF Only, Typed, Exists, Clean

\* libwtk_start_capture, libwtk_stop_capture: without a capturer nothing happens.
LEMMA CaptureFacts ==
    ASSUME NEW m, Typed(m), NEW how \in {"on", "off"}
    PROVE  LET r == Capture(m, how) IN
           /\ Only(m, r, {})
           /\ r.call = m.call /\ r.of = m.of /\ r.running = m.running
           /\ Clean(m) => Clean(r)
           /\ r.crashed = m.crashed
           /\ m.capturer = "null" => r.capturer = "null"
<1>1. CASE m.capturer = "null"
  BY <1>1 DEF Capture, Only
<1>2. CASE m.capturer # "null"
  BY <1>2, CapturerFacts DEF Capture
<1> QED BY <1>1, <1>2

\* libwtk_destory_capture
LEMMA DestroyCaptureFacts ==
    ASSUME NEW m, Typed(m)
    PROVE  LET r == DestroyCapture(m) IN
           /\ Only(m, r, {})
           /\ r.call = m.call /\ r.of = m.of /\ r.running = m.running
           /\ Clean(m) => Clean(r)
           /\ r.crashed = m.crashed /\ r.capturer = "null"
BY CapturerFacts DEF DestroyCapture

\* Without a camera the process crashes.
LEMMA LocalRenderFacts ==
    ASSUME NEW m, Typed(m), NEW camera \in BOOLEAN
    PROVE  LET r == CreateLocalRender(m, camera) IN
           /\ Only(m, r, {})
           /\ r.call = m.call /\ r.of = m.of /\ r.running = m.running
           /\ Clean(m) => Clean(r)
           /\ camera => r.crashed = m.crashed
<1>1. CASE m.capturer # "null"
  BY <1>1 DEF CreateLocalRender, Only
<1>2. CASE m.capturer = "null" /\ camera
  BY <1>2, CapturerFacts DEF CreateLocalRender
<1>3. CASE m.capturer = "null" /\ ~camera
  BY <1>3, CrashFacts DEF CreateLocalRender, Clean
<1> QED BY <1>1, <1>2, <1>3

\* libwtk_create_call: a second one changes nothing.
LEMMA CreateCallFacts ==
    ASSUME NEW m, Typed(m)
    PROVE  LET r == CreateCall(m) IN
           /\ Only(m, r, {})
           /\ r.call /\ r.of = m.of /\ r.running = m.running
           /\ r.capturer = m.capturer /\ r.crashed = m.crashed
           /\ Clean(m) => Clean(r)
BY DEF CreateCall, Only, Typed, Media, Exists, Clean

\* libwtk_destroy_call leaves no stream stale if none lives.
LEMMA DestroyCallFacts ==
    ASSUME NEW m, Typed(m)
    PROVE  LET r == DestroyCall(m) IN
           /\ Typed(r) /\ ~r.call /\ r.running = m.running
           /\ r.capturer = m.capturer /\ r.crashed = m.crashed
           /\ (\A s \in Stream : m.of[s] = "null") =>
                  Clean(r) /\ r.of = [s \in Stream |-> "null"]
<1> DEFINE of == [s \in Stream |-> IF m.of[s] = "live" THEN "stale" ELSE m.of[s]]
<1>1. of \in [Stream -> {"null", "live", "stale"}]
  BY DEF Typed, Media
<1>2. \A s \in Stream : of[s] = IF m.of[s] = "live" THEN "stale" ELSE m.of[s]
  OBVIOUS
<1>3. (\A s \in Stream : m.of[s] = "null") => of = [s \in Stream |-> "null"]
  OBVIOUS
<1>4. DestroyCall(m) = [m EXCEPT !.call = FALSE, !.of = of]
  BY DEF DestroyCall
<1> HIDE DEF of
<1>5. PICK r : r = DestroyCall(m)
  OBVIOUS
<1>6. /\ r \in Media /\ ~r.call /\ r.running = m.running /\ r.of = of
      /\ r.capturer = m.capturer /\ r.crashed = m.crashed
  BY <1>1, <1>4, <1>5 DEF Typed, Media
<1>7. Typed(r)
  BY <1>2, <1>6 DEF Typed, Exists, Media
<1>8. (\A s \in Stream : m.of[s] = "null") => Clean(r)
  BY <1>2, <1>6 DEF Clean
<1> QED BY <1>3, <1>5, <1>6, <1>7, <1>8

-----------------------------------------------------------------------------
(* wtkcall_lib.c *)

\* What steps leave behind has its type.
LEMMA OnlyTyped ==
    ASSUME NEW m, NEW r, NEW S, Only(m, r, S)
    PROVE  Typed(r)
BY DEF Only

\* The streams of VideoActivity
Video == {"video send", "video receive"}

\* Neither is audio.
LEMMA NotAudio ==
    (\A s \in Video : s \notin Audio) /\ (\A s \in Conference : s \notin Audio)
BY DEF Audio, Video, Conference

\* wtkcall_start_video
LEMMA StartVideoFacts ==
    ASSUME NEW m, Typed(m)
    PROVE  LET r == StartVideo(m) IN
           /\ Only(m, r, Video)
           /\ r.call = m.call /\ r.capturer = m.capturer
           /\ Clean(m) => Clean(r)
           /\ Clean(m) /\ m.call => r.crashed = m.crashed
<1>1. PICK n : n = Create(m, "video send")
  OBVIOUS
<1>2. PICK o : o = Create(n, "video receive")
  OBVIOUS
<1>3. PICK r : r = StartBoth(o, "video send", "video receive")
  OBVIOUS
<1>4. r = StartVideo(m)
  BY <1>1, <1>2, <1>3 DEF StartVideo
<1>5. "video send" \in Stream /\ "video receive" \in Stream
  BY DEF Stream
<1>6. /\ Only(m, n, {"video send"}) /\ n.call = m.call /\ n.capturer = m.capturer
      /\ Clean(m) => Clean(n)
      /\ m.call => n.crashed = m.crashed
  BY <1>1, <1>5, CreateFacts
<1>7. /\ Only(n, o, {"video receive"}) /\ o.call = n.call /\ o.capturer = n.capturer
      /\ Clean(n) => Clean(o)
      /\ n.call => o.crashed = n.crashed
  BY <1>2, <1>5, <1>6, OnlyTyped, CreateFacts
<1>8. /\ Only(o, r, Video) /\ r.call = o.call /\ r.capturer = o.capturer
      /\ Clean(o) => Clean(r) /\ r.crashed = o.crashed
  BY <1>3, <1>5, <1>7, OnlyTyped, StartBothFacts DEF Video
<1>9. Only(m, r, Video)
  BY <1>6, <1>7, <1>8 DEF Only, Video
<1> QED BY <1>4, <1>6, <1>7, <1>8, <1>9

\* wtkcall_stop_video
LEMMA StopVideoFacts ==
    ASSUME NEW m, Typed(m)
    PROVE  LET r == StopVideo(m) IN
           /\ Only(m, r, Video)
           /\ r.call = m.call /\ r.capturer = "null"
           /\ Clean(m) => /\ Clean(r) /\ r.crashed = m.crashed
                          /\ \A s \in Video : r.of[s] = "null"
<1>1. PICK n : n = StopBoth(m, "video send", "video receive")
  OBVIOUS
<1>2. PICK o : o = Destroy(n, "video send")
  OBVIOUS
<1>3. PICK q : q = Destroy(o, "video receive")
  OBVIOUS
<1>4. PICK r : r = DestroyCapture(q)
  OBVIOUS
<1>5. r = StopVideo(m)
  BY <1>1, <1>2, <1>3, <1>4 DEF StopVideo
<1>6. "video send" \in Stream /\ "video receive" \in Stream
  BY DEF Stream
<1>7. /\ Only(m, n, Video) /\ n.call = m.call
      /\ Clean(m) => Clean(n) /\ n.crashed = m.crashed
  BY <1>1, <1>6, StopBothFacts DEF Video
<1>8. /\ Only(n, o, {"video send"}) /\ o.call = n.call
      /\ Clean(n) => Clean(o) /\ o.of["video send"] = "null" /\ o.crashed = n.crashed
  BY <1>2, <1>6, <1>7, OnlyTyped, DestroyFacts
<1>9. /\ Only(o, q, {"video receive"}) /\ q.call = o.call
      /\ Clean(o) => Clean(q) /\ q.of["video receive"] = "null" /\ q.crashed = o.crashed
  BY <1>3, <1>6, <1>8, OnlyTyped, DestroyFacts
<1>10. /\ Only(q, r, {}) /\ r.call = q.call /\ r.of = q.of /\ r.capturer = "null"
       /\ Clean(q) => Clean(r)
       /\ r.crashed = q.crashed
  BY <1>4, <1>9, OnlyTyped, DestroyCaptureFacts
<1>a. Only(m, o, Video)
  BY <1>7, <1>8, Zenon DEF Only, Video
<1>b. Only(m, q, Video)
  BY <1>a, <1>9, Zenon DEF Only, Video
<1>11. Only(m, r, Video)
  BY <1>b, <1>10, Zenon DEF Only
<1>12. q.of["video send"] = o.of["video send"]
  BY <1>6, <1>9 DEF Only
<1>13. Clean(m) => \A s \in Video : r.of[s] = "null"
  BY <1>7, <1>8, <1>9, <1>10, <1>12 DEF Video
<1> QED BY <1>5, <1>7, <1>8, <1>9, <1>10, <1>11, <1>13

\* wtkcall_start_conf_video
LEMMA StartConfFacts ==
    ASSUME NEW m, Typed(m)
    PROVE  LET r == StartConfVideo(m) IN
           /\ Only(m, r, Conference)
           /\ r.call = m.call /\ r.capturer = m.capturer
           /\ Clean(m) => Clean(r)
           /\ Clean(m) /\ m.call => r.crashed = m.crashed
<1>1. PICK n : n = Create(m, "conf send")
  OBVIOUS
<1>2. PICK o : o = Use(n, Create(n, "conf receive"))
  OBVIOUS
<1>3. PICK r : r = StartConfStreams(o)
  OBVIOUS
<1>4. r = StartConfVideo(m)
  BY <1>1, <1>2, <1>3 DEF StartConfVideo
<1>5. "conf send" \in Stream /\ "conf receive" \in Stream
  BY DEF Stream
<1>6. /\ Only(m, n, {"conf send"}) /\ n.call = m.call /\ n.capturer = m.capturer
      /\ Clean(m) => Clean(n)
      /\ m.call => n.crashed = m.crashed
  BY <1>1, <1>5, CreateFacts
<1>7. /\ Only(n, o, {"conf receive"}) /\ o.call = n.call /\ o.capturer = n.capturer
      /\ Clean(n) => Clean(o)
      /\ n.call => o.crashed = n.crashed
  <2>1. Typed(n)
    BY <1>6 DEF Only
  <2>2. CASE n.call
    <3>1. o = Create(n, "conf receive")
      BY <1>2, <2>2 DEF Use
    <3> QED BY <1>5, <2>1, <3>1, CreateFacts
  <2>3. CASE ~n.call
    <3>1. o = Crash(n)
      BY <1>2, <2>3 DEF Use
    <3> QED BY <2>1, <2>3, <3>1, CrashFacts DEF Only, Clean
  <2> QED BY <2>2, <2>3
<1>8. /\ Only(o, r, Conference) /\ r.call = o.call /\ r.capturer = o.capturer
      /\ Clean(o) => Clean(r)
      /\ Clean(o) /\ o.call => r.crashed = o.crashed
  BY <1>3, <1>7, OnlyTyped, ConfFacts
<1>9. Only(m, r, Conference)
  BY <1>6, <1>7, <1>8 DEF Only, Conference
<1> QED BY <1>4, <1>6, <1>7, <1>8, <1>9

\* wtkcall_stop_conf_video
LEMMA StopConfFacts ==
    ASSUME NEW m, Typed(m)
    PROVE  LET r == StopConfVideo(m) IN
           /\ Only(m, r, Conference)
           /\ r.call = m.call /\ r.capturer = "null"
           /\ Clean(m) => Clean(r) /\ \A s \in Conference : r.of[s] = "null"
           /\ Clean(m) /\ m.call => r.crashed = m.crashed
<1>0. PICK n : n = Capture(m, "off")
  OBVIOUS
<1>1. PICK o : o = StopConfStreams(n)
  OBVIOUS
<1>2. PICK p : p = Destroy(o, "conf receive")
  OBVIOUS
<1>3. PICK q : q = Destroy(p, "conf send")
  OBVIOUS
<1>4. PICK r : r = DestroyCapture(q)
  OBVIOUS
<1>5. r = StopConfVideo(m)
  BY <1>0, <1>1, <1>2, <1>3, <1>4 DEF StopConfVideo
<1>6. "conf send" \in Stream /\ "conf receive" \in Stream
  BY DEF Stream
<1>7. /\ Only(m, n, {}) /\ n.call = m.call
      /\ Clean(m) => Clean(n)
      /\ n.crashed = m.crashed
  BY <1>0, CaptureFacts
<1>8. /\ Only(n, o, Conference) /\ o.call = n.call
      /\ Clean(n) => Clean(o)
      /\ Clean(n) /\ n.call => o.crashed = n.crashed
  BY <1>1, <1>7, OnlyTyped, ConfFacts
<1>9. /\ Only(o, p, {"conf receive"}) /\ p.call = o.call
      /\ Clean(o) => Clean(p) /\ p.of["conf receive"] = "null" /\ p.crashed = o.crashed
  BY <1>2, <1>6, <1>8, OnlyTyped, DestroyFacts
<1>10. /\ Only(p, q, {"conf send"}) /\ q.call = p.call
       /\ Clean(p) => Clean(q) /\ q.of["conf send"] = "null" /\ q.crashed = p.crashed
  BY <1>3, <1>6, <1>9, OnlyTyped, DestroyFacts
<1>11. /\ Only(q, r, {}) /\ r.call = q.call /\ r.of = q.of /\ r.capturer = "null"
       /\ Clean(q) => Clean(r)
       /\ r.crashed = q.crashed
  BY <1>4, <1>10, OnlyTyped, DestroyCaptureFacts
<1>12. Only(m, r, Conference)
  <2>1. Only(m, o, Conference)
    BY <1>7, <1>8 DEF Only
  <2>2. Only(m, p, Conference)
    BY <1>9, <2>1 DEF Only, Conference
  <2>3. Only(m, q, Conference)
    BY <1>10, <2>2 DEF Only, Conference
  <2> QED BY <1>11, <2>3 DEF Only
<1>13. q.of["conf receive"] = p.of["conf receive"]
  BY <1>6, <1>10 DEF Only
<1>14. Clean(m) => \A s \in Conference : r.of[s] = "null"
  BY <1>7, <1>8, <1>9, <1>10, <1>11, <1>13 DEF Conference
<1> QED BY <1>5, <1>7, <1>8, <1>9, <1>10, <1>11, <1>12, <1>14

\* wtkcall_start_audio
LEMMA StartAudioFacts ==
    ASSUME NEW m, Typed(m)
    PROVE  LET r == StartAudio(m) IN
           /\ Only(m, r, Audio)
           /\ r.call /\ r.capturer = m.capturer
           /\ r.crashed \/ Hearing(r)
           /\ Clean(m) => Clean(r) /\ r.crashed = m.crashed
<1>0. PICK n : n = CreateCall(m)
  OBVIOUS
<1>1. PICK o : o = Create(n, "audio send")
  OBVIOUS
<1>2. PICK q : q = Create(o, "audio receive")
  OBVIOUS
<1>3. PICK r : r = StartBoth(q, "audio send", "audio receive")
  OBVIOUS
<1>4. r = StartAudio(m)
  BY <1>0, <1>1, <1>2, <1>3 DEF StartAudio
<1>5. "audio send" \in Stream /\ "audio receive" \in Stream
  BY DEF Stream
<1>6. /\ Only(m, n, {}) /\ n.call /\ n.capturer = m.capturer
      /\ Clean(m) => Clean(n)
      /\ n.crashed = m.crashed
  BY <1>0, CreateCallFacts
<1>7. /\ Only(n, o, {"audio send"}) /\ o.call = n.call /\ o.capturer = n.capturer
      /\ o.crashed \/ Exists(o, "audio send")
      /\ Clean(n) => Clean(o)
      /\ n.call => o.crashed = n.crashed
  BY <1>1, <1>5, <1>6, OnlyTyped, CreateFacts
<1>8. /\ Only(o, q, {"audio receive"}) /\ q.call = o.call /\ q.capturer = o.capturer
      /\ q.crashed \/ Exists(q, "audio receive")
      /\ Clean(o) => Clean(q)
      /\ o.call => q.crashed = o.crashed
  BY <1>2, <1>5, <1>7, OnlyTyped, CreateFacts
<1>9. /\ Only(q, r, Audio) /\ r.call = q.call /\ r.capturer = q.capturer
      /\ Exists(q, "audio send") /\ Exists(q, "audio receive") => r.crashed \/ Hearing(r)
      /\ Clean(q) => Clean(r) /\ r.crashed = q.crashed
  BY <1>3, <1>5, <1>8, OnlyTyped, StartBothFacts DEF Audio, Hearing
<1>a. Only(m, o, Audio)
  BY <1>6, <1>7, Zenon DEF Only, Audio
<1>b. Only(m, q, Audio)
  BY <1>a, <1>8, Zenon DEF Only, Audio
<1>10. Only(m, r, Audio)
  BY <1>b, <1>9, Zenon DEF Only
<1>11. q.crashed \/ Exists(q, "audio send")
  BY <1>5, <1>7, <1>8 DEF Only, Exists
<1>12. q.crashed => r.crashed
  BY <1>9 DEF Only
<1> QED BY <1>4, <1>6, <1>7, <1>8, <1>9, <1>10, <1>11, <1>12

\* No stream exists.
Silent(m) == \A s \in Stream : m.of[s] = "null"

\* wtkcall_stop_audio: its destroy_call makes the streams stale that still live.
LEMMA StopAudioFacts ==
    ASSUME NEW m, Typed(m)
    PROVE  LET r == StopAudio(m) IN
           /\ Typed(r) /\ (m.crashed => r.crashed)
           /\ ~r.call /\ r.capturer = m.capturer
           /\ r.crashed \/ ~Hearing(r)
           /\ Clean(m) /\ (\A s \in Stream \ Audio : m.of[s] = "null") =>
                  /\ Clean(r) /\ r.crashed = m.crashed
                  /\ r.of = [s \in Stream |-> "null"]
<1>1. PICK n : n = StopBoth(m, "audio send", "audio receive")
  OBVIOUS
<1>2. PICK o : o = Destroy(n, "audio send")
  OBVIOUS
<1>3. PICK q : q = Destroy(o, "audio receive")
  OBVIOUS
<1>4. PICK r : r = DestroyCall(q)
  OBVIOUS
<1>5. r = StopAudio(m)
  BY <1>1, <1>2, <1>3, <1>4 DEF StopAudio
<1>6. "audio send" \in Stream /\ "audio receive" \in Stream
  BY DEF Stream
<1>7. /\ Only(m, n, Audio) /\ n.capturer = m.capturer
      /\ n.crashed \/ ~Hearing(n)
      /\ Clean(m) => Clean(n) /\ n.crashed = m.crashed
  <2>1. /\ Only(m, n, {"audio send", "audio receive"}) /\ n.capturer = m.capturer
        /\ n.crashed \/ "audio send" \notin n.running \/ "audio receive" \notin n.running
        /\ Clean(m) => Clean(n) /\ n.crashed = m.crashed
    BY <1>1, <1>6, StopBothFacts
  <2> QED BY <2>1 DEF Audio, Hearing
<1>8. /\ Only(n, o, {"audio send"}) /\ o.capturer = n.capturer
      /\ o.running \subseteq n.running
      /\ Clean(n) => Clean(o) /\ o.of["audio send"] = "null" /\ o.crashed = n.crashed
  BY <1>2, <1>6, <1>7, OnlyTyped, DestroyFacts
<1>9. /\ Only(o, q, {"audio receive"}) /\ q.capturer = o.capturer
      /\ q.running \subseteq o.running
      /\ Clean(o) => Clean(q) /\ q.of["audio receive"] = "null" /\ q.crashed = o.crashed
  BY <1>3, <1>6, <1>8, OnlyTyped, DestroyFacts
<1>10. /\ Typed(r) /\ ~r.call /\ r.running = q.running
       /\ r.capturer = q.capturer /\ r.crashed = q.crashed
       /\ Silent(q) => Clean(r) /\ r.of = [s \in Stream |-> "null"]
  BY <1>4, <1>9, OnlyTyped, DestroyCallFacts DEF Silent
<1>11. (m.crashed => r.crashed) /\ (r.crashed \/ ~Hearing(r))
  BY <1>7, <1>8, <1>9, <1>10 DEF Only, Hearing
<1>12. ASSUME Clean(m), \A s \in Stream \ Audio : m.of[s] = "null"
       PROVE  Silent(q) /\ q.crashed = m.crashed
  <2>1. Clean(n) /\ Clean(o) /\ Clean(q) /\ q.crashed = m.crashed
        /\ o.of["audio send"] = "null" /\ q.of["audio receive"] = "null"
    BY <1>7, <1>8, <1>9, <1>12
  <2>2. q.of["audio send"] = "null"
    BY <1>6, <1>9, <2>1 DEF Only
  <2>3. ASSUME NEW s \in Stream \ Audio PROVE q.of[s] = "null"
    <3>1. s # "audio send" /\ s # "audio receive"
      BY DEF Audio
    <3>2. n.of[s] = m.of[s] /\ o.of[s] = n.of[s] /\ q.of[s] = o.of[s]
      BY <1>7, <1>8, <1>9, <3>1, Zenon DEF Only
    <3> QED BY <1>12, <3>2
  <2> QED BY <2>1, <2>2, <2>3 DEF Silent, Audio
<1> QED BY <1>5, <1>7, <1>8, <1>9, <1>10, <1>11, <1>12

\* CallReceiver, iax.hangup: if the number is the one of the call, nothing is left.
LEMMA EndMediaFacts ==
    ASSUME NEW m, Typed(m), dest \in {"plain", "conf"}
    PROVE  LET r == EndMedia(m) IN
           /\ Typed(r) /\ (m.crashed => r.crashed)
           /\ ~r.call
           /\ r.crashed \/ ~Hearing(r)
           /\ Clean(m) /\ (\A s \in Foreign : m.of[s] = "null") =>
                  /\ Clean(r) /\ \A s \in Stream : r.of[s] = "null"
                  /\ r.crashed \/ r = NoMedia
                  /\ dest = "plain" \/ m.call => r.crashed = m.crashed
<1>1. PICK n : n = IF dest = "conf" THEN StopConfVideo(m) ELSE StopVideo(m)
  OBVIOUS
<1>2. PICK r : r = StopAudio(n)
  OBVIOUS
<1>3. r = EndMedia(m)
  BY <1>1, <1>2 DEF EndMedia
<1>4. PICK S : S = IF dest = "conf" THEN Conference ELSE Video
  OBVIOUS
<1>5. /\ Only(m, n, S) /\ n.capturer = "null"
      /\ Clean(m) => Clean(n) /\ \A s \in S : n.of[s] = "null"
      /\ Clean(m) /\ (dest = "plain" \/ m.call) => n.crashed = m.crashed
  <2>1. CASE dest = "conf"
    BY <1>1, <1>4, <2>1, StopConfFacts
  <2>2. CASE dest = "plain"
    BY <1>1, <1>4, <2>2, StopVideoFacts
  <2> QED BY <2>1, <2>2
<1>6. /\ Typed(r) /\ (n.crashed => r.crashed)
      /\ ~r.call /\ r.capturer = n.capturer
      /\ r.crashed \/ ~Hearing(r)
      /\ Clean(n) /\ (\A s \in Stream \ Audio : n.of[s] = "null") =>
             /\ Clean(r) /\ r.crashed = n.crashed
             /\ r.of = [s \in Stream |-> "null"]
  BY <1>2, <1>5, OnlyTyped, StopAudioFacts
<1>7. (m.crashed => r.crashed)
  BY <1>5, <1>6 DEF Only
<1>8. ASSUME Clean(m), \A s \in Foreign : m.of[s] = "null"
      PROVE  \A s \in Stream \ Audio : n.of[s] = "null"
  <2> SUFFICES ASSUME NEW s \in Stream \ Audio PROVE n.of[s] = "null"
    OBVIOUS
  <2>1. CASE s \in S
    BY <1>5, <1>8, <2>1
  <2>2. CASE s \notin S
    <3>1. s \in Foreign
      BY <1>4, <2>2 DEF Foreign, Stream, Audio, Video, Conference
    <3>2. n.of[s] = m.of[s]
      BY <1>5, <2>2 DEF Only
    <3> QED BY <1>8, <3>1, <3>2
  <2> QED BY <2>1, <2>2
<1>9. r.of = [s \in Stream |-> "null"] /\ ~r.crashed => r = NoMedia
  <2> SUFFICES ASSUME r.of = [s \in Stream |-> "null"], ~r.crashed PROVE r = NoMedia
    OBVIOUS
  <2>1. r.running = {}
    BY <1>6 DEF Typed, Exists, Media
  <2>2. r \in Media /\ r.call = FALSE /\ r.capturer = "null" /\ r.crashed = FALSE
    BY <1>5, <1>6 DEF Typed, Media
  <2> QED BY <2>1, <2>2 DEF Media, NoMedia
<1>10. ASSUME Clean(m), \A s \in Foreign : m.of[s] = "null"
       PROVE  /\ Clean(r) /\ \A s \in Stream : r.of[s] = "null"
              /\ r.crashed \/ r = NoMedia
              /\ dest = "plain" \/ m.call => r.crashed = m.crashed
  BY <1>5, <1>6, <1>8, <1>9, <1>10
<1> QED BY <1>3, <1>6, <1>7, <1>10

-----------------------------------------------------------------------------
(* Types *)

\* An event is told.
LEMMA Appended ==
    ASSUME events \in Seq(Event), NEW e \in Event, events' = Append(events, e)
    PROVE  /\ events' \in Seq(Event) /\ events' # <<>> /\ Len(events) \in Nat
           /\ Len(events') = Len(events) + 1 /\ events'[Len(events) + 1] = e
           /\ \A i \in 1 .. Len(events) : events'[i] = events[i]
OBVIOUS

\* An event is taken.
LEMMA Taken ==
    ASSUME events \in Seq(Event), events # <<>>, events' = Tail(events)
    PROVE  /\ events' \in Seq(Event) /\ Len(events) \in Nat /\ Len(events) >= 1
           /\ Len(events') = Len(events) - 1 /\ Head(events) = events[1]
           /\ \A i \in 1 .. Len(events') : events'[i] = events[i + 1]
           /\ events' = <<>> <=> Len(events) = 1
<1>1. /\ events' \in Seq(Event) /\ Len(events) \in Nat /\ Len(events) >= 1
      /\ Len(events') = Len(events) - 1 /\ Head(events) = events[1]
      /\ \A i \in 1 .. Len(events') : events'[i] = events[i + 1]
  OBVIOUS
<1>2. \A s \in Seq(Event) : s = <<>> <=> Len(s) = 0
  OBVIOUS
<1>3. events' = <<>> <=> Len(events') = 0
  BY <1>1, <1>2, Zenon
<1> QED BY <1>1, <1>3

\* An event overtakes the one before it.
LEMMA Swapped ==
    ASSUME events \in Seq(Event), NEW i \in 1 .. Len(events) - 1,
           events' = [events EXCEPT ![i] = events[i + 1], ![i + 1] = events[i]]
    PROVE  /\ events' \in Seq(Event) /\ Len(events) \in Nat /\ Len(events') = Len(events)
           /\ i \in 1 .. Len(events) /\ i + 1 \in 1 .. Len(events)
           /\ events'[i] = events[i + 1] /\ events'[i + 1] = events[i]
           /\ \A j \in 1 .. Len(events) \ {i, i + 1} : events'[j] = events[j]
<1>1. Len(events) \in Nat /\ i \in 1 .. Len(events) /\ i + 1 \in 1 .. Len(events)
  OBVIOUS
<1>2. events[i] \in Event /\ events[i + 1] \in Event
  BY <1>1
<1> QED BY <1>1, <1>2

\* What lemmas about the media ask for
LEMMA TypedMedia == TypeOK => Typed(media) /\ dest \in {"plain", "conf"}
BY DEF TypeOK, Typed

\* The steps that change the media
LEMMA MediaSteps ==
    ASSUME Next
    PROVE  \/ media' = media \/ HandleAnswer \/ HandleHangup \/ OpenConf \/ BackToAudio
           \/ PacketDelivered
           \/ \E camera \in BOOLEAN : OpenVideo(camera)
           \/ \E how \in {"on", "off"} : SwitchCapture(how)
BY DEF Next, AppStep, UserStep, LineStep, HandleNew, HandleTransfer, Type, PressVideo, Back,
       PacketTested, Incoming, PeerAnswers, Transferred, PeerEnds, PressDial, PressAnswer,
       PressHangup, Overtakes

\* What a step does to the media is typed.
LEMMA MediaTyped ==
    ASSUME TypeOK, Next
    PROVE  Typed(media')
<1>1. Typed(media) /\ dest \in {"plain", "conf"}
  BY TypedMedia
<1>2. CASE media' = media
  BY <1>1, <1>2
<1>3. CASE HandleAnswer
  BY <1>1, <1>3, StartAudioFacts DEF HandleAnswer, Only
<1>4. CASE HandleHangup
  <2>1. PICK r : r = EndMedia(media)
    OBVIOUS
  <2>2. Typed(r)
    BY <1>1, <2>1, EndMediaFacts
  <2>3. Typed(EndMedia(r))
    BY <1>1, <2>2, EndMediaFacts
  <2> QED BY <1>4, <2>1, <2>2, <2>3 DEF HandleHangup
<1>5. ASSUME NEW camera \in BOOLEAN, OpenVideo(camera) PROVE Typed(media')
  <2>1. PICK n : n = CreateLocalRender(media, camera)
    OBVIOUS
  <2>2. PICK o : o = StartAudio(n)
    OBVIOUS
  <2>3. PICK q : q = StartVideo(o)
    OBVIOUS
  <2>4. Typed(n)
    BY <1>1, <2>1, LocalRenderFacts, OnlyTyped
  <2>5. Typed(o)
    BY <2>2, <2>4, StartAudioFacts, OnlyTyped
  <2>6. Typed(q)
    BY <2>3, <2>5, StartVideoFacts, OnlyTyped
  <2>7. media' = Capture(q, "on")
    BY <1>5, <2>1, <2>2, <2>3 DEF OpenVideo
  <2> QED BY <2>6, <2>7, CaptureFacts, OnlyTyped
<1>6. CASE OpenConf
  <2>1. PICK n : n = StartConfVideo(media)
    OBVIOUS
  <2>2. Typed(n)
    BY <1>1, <2>1, StartConfFacts, OnlyTyped
  <2>3. media' = Capture(n, "on")
    BY <1>6, <2>1 DEF OpenConf
  <2> QED BY <2>2, <2>3, CaptureFacts, OnlyTyped
<1>7. ASSUME NEW how \in {"on", "off"}, SwitchCapture(how) PROVE Typed(media')
  <2>1. media' = Capture(media, how)
    BY <1>7 DEF SwitchCapture
  <2> QED BY <1>1, <2>1, CaptureFacts, OnlyTyped
<1>8. CASE BackToAudio
  <2>1. PICK n : n = Capture(media, "off")
    OBVIOUS
  <2>2. Typed(n)
    BY <1>1, <2>1, CaptureFacts, OnlyTyped
  <2>3. media' = StopVideo(n)
    BY <1>8, <2>1 DEF BackToAudio
  <2> QED BY <2>2, <2>3, StopVideoFacts, OnlyTyped
<1>9. CASE PacketDelivered
  <2>1. media' = media \/ media' = Crash(media)
    BY <1>9 DEF PacketDelivered, Use
  <2> QED BY <1>1, <2>1, CrashFacts, OnlyTyped
<1>10. \/ media' = media \/ HandleAnswer \/ HandleHangup \/ OpenConf \/ BackToAudio
       \/ PacketDelivered
       \/ \E camera \in BOOLEAN : OpenVideo(camera)
       \/ \E how \in {"on", "off"} : SwitchCapture(how)
  BY MediaSteps
<1> QED BY <1>2, <1>3, <1>4, <1>5, <1>6, <1>7, <1>8, <1>9, <1>10

\* The types of what is not media
RestOK ==
    /\ lines \in [Line -> {"free", "in", "out", "answered"}]
    /\ events \in Seq(Event) /\ Len(events) <= MaxEvents
    /\ mode \in {"idle", "ringing", "talking"} /\ buttons \subseteq Activity
    /\ dest \in {"plain", "conf"}
    /\ opening \subseteq Activity /\ open \subseteq Activity /\ receivers \in {1, 2}
    /\ packet \in {"none", "tested"} /\ mishaps \subseteq Mishap

\* It is a part of TypeOK.
LEMMA Rest == TypeOK => RestOK
BY DEF TypeOK, RestOK

\* What is told, of what is known
LEMMA Told ==
    ASSUME RestOK, NEW e \in Event, Tell(e)
    PROVE  events' \in Seq(Event) /\ Len(events') <= MaxEvents
<1>1. events \in Seq(Event) /\ events' = Append(events, e) /\ Len(events) < MaxEvents
  BY DEF Tell, RestOK
<1>2. Len(events') = Len(events) + 1 /\ Len(events) \in Nat /\ events' \in Seq(Event)
  BY <1>1, Appended
<1> QED BY <1>1, <1>2, MaxEventsAssumption

\* Taking an event keeps the type of those that wait.
LEMMA TakeType ==
    ASSUME RestOK, NEW kinds, Take(kinds)
    PROVE  events' \in Seq(Event) /\ Len(events') <= MaxEvents
<1>1. /\ events \in Seq(Event) /\ events' = Tail(events) /\ events # <<>>
      /\ Len(events) <= MaxEvents
  BY DEF Take, RestOK
<1>2. Len(events') = Len(events) - 1 /\ Len(events) \in Nat /\ events' \in Seq(Event)
  BY <1>1, Taken
<1> QED BY <1>1, <1>2, MaxEventsAssumption

\* setActivityMode keeps the types of the mode and the buttons.
LEMMA ModeType ==
    ASSUME RestOK, NEW to \in {"idle", "ringing", "talking"}, SetMode(to)
    PROVE  mode' \in {"idle", "ringing", "talking"} /\ buttons' \subseteq Activity
BY DEF SetMode, RestOK, Activity

\* Every step keeps the types of what is not media.
LEMMA RestStep ==
    ASSUME RestOK, Next
    PROVE  RestOK'
<1> USE DEF RestOK, ui
<1>1. ASSUME NEW l \in Line, LineStep(l) PROVE RestOK'
  <2>0. Starts(l) => mishaps' \subseteq Mishap
    BY DEF Starts, Mishap
  <2>1. CASE Incoming(l)
    BY <2>0, <2>1, Told DEF Incoming, Event
  <2>2. CASE PeerAnswers(l)
    BY <2>2, Told DEF PeerAnswers, Event
  <2>3. CASE Transferred(l)
    BY <2>3, Told DEF Transferred, Event
  <2>4. ASSUME Ended(l)
        PROVE  /\ lines' \in [Line -> {"free", "in", "out", "answered"}]
               /\ events' \in Seq(Event) /\ Len(events') <= MaxEvents
    <3>1. PICK e \in Event : Tell(e)
      BY <2>4 DEF Ended, Event
    <3> QED BY <2>4, <3>1, Told DEF Ended
  <2>5. CASE PeerEnds(l)
    BY <2>4, <2>5 DEF PeerEnds
  <2>6. CASE PressDial(l)
    BY <2>0, <2>6, ModeType DEF PressDial
  <2>7. CASE PressAnswer(l)
    BY <2>7, Told, ModeType DEF PressAnswer, Event
  <2>8. CASE PressHangup(l)
    BY <2>4, <2>8, ModeType DEF PressHangup
  <2> QED BY <1>1, <2>1, <2>2, <2>3, <2>5, <2>6, <2>7, <2>8 DEF LineStep
<1>2. CASE HandleNew
  BY <1>2, TakeType, ModeType DEF HandleNew, Take
<1>3. CASE HandleAnswer
  BY <1>3, TakeType, ModeType DEF HandleAnswer, Take
<1>4. CASE HandleTransfer
  BY <1>4, TakeType, ModeType DEF HandleTransfer, Take
<1>5. CASE HandleHangup
  BY <1>5, TakeType, ModeType DEF HandleHangup, Take, Returned, Mishap
<1>6. ASSUME NEW a \in Activity, NEW extra \in SUBSET Mishap, Opened(a, extra) PROVE RestOK'
  BY <1>6 DEF Opened, Mishap
<1>7. CASE OpenConf \/ \E camera \in BOOLEAN : OpenVideo(camera)
  BY <1>6, <1>7 DEF OpenConf, OpenVideo, Activity, Mishap
<1>8. CASE UserStep
  BY <1>8 DEF UserStep, Type, PressVideo, SwitchCapture, BackToAudio, Back, Returned, Mishap
<1>9. CASE PacketTested \/ PacketDelivered
  BY <1>9 DEF PacketTested, PacketDelivered, Mishap
<1>10. ASSUME NEW i \in 1 .. Len(events), Overtakes(i) PROVE RestOK'
  <2>1. i \in 1 .. Len(events) - 1 /\ events \in Seq(Event)
    BY <1>10 DEF Overtakes
  <2>2. events' \in Seq(Event) /\ Len(events') = Len(events)
    BY <1>10, <2>1, Swapped DEF Overtakes
  <2> QED BY <1>10, <2>2 DEF Overtakes, Mishap
<1> QED BY <1>1, <1>2, <1>3, <1>4, <1>5, <1>7, <1>8, <1>9, <1>10 DEF Next, AppStep

\* Every step keeps the types.
LEMMA TypeStep ==
    ASSUME TypeOK, Next
    PROVE  TypeOK'
<1>1. RestOK' /\ Typed(media')
  BY Rest, RestStep, MediaTyped
<1> QED BY <1>1 DEF RestOK, Typed, TypeOK

-----------------------------------------------------------------------------
(* Lines and events *)

\* No mishap is forgotten but when a call starts at rest.
LEMMA Mishaps ==
    ASSUME Next
    PROVE  mishaps \subseteq mishaps' \/ AtRest
BY DEF Next, AppStep, UserStep, LineStep, HandleNew, HandleAnswer, HandleTransfer,
       HandleHangup, OpenVideo, OpenConf, Opened, Type, PressVideo, SwitchCapture,
       BackToAudio, Back, PacketTested, PacketDelivered, Incoming, PeerAnswers, Transferred, PeerEnds, PressDial,
       PressAnswer, PressHangup, Overtakes, Starts

\* At rest everything the invariant says holds, whatever happened before.
LEMMA Resting ==
    ASSUME TypeOK, AtRest
    PROVE  /\ events = <<>> /\ Len(events) = 0 /\ ~AnyBusy /\ ~Answered /\ media = NoMedia
           /\ ForNumber /\ OneLine /\ Ready /\ Due(events, Hearing(media), Answered)
<1>1. /\ events = <<>> /\ Len(events) = 0 /\ media = NoMedia
      /\ buttons = {} /\ opening = {} /\ open = {}
      /\ \A l \in Line : lines[l] = "free"
  BY DEF AtRest, Settled, Busy
<1>2. /\ NoMedia.running = {} /\ ~NoMedia.crashed
      /\ \A s \in Stream : NoMedia.of[s] = "null"
  BY DEF NoMedia
<1>3. ~AnyBusy /\ ~Answered /\ NoTurn(events) /\ OneLine
  BY <1>1 DEF AnyBusy, Answered, Busy, NoTurn, OneLine
<1>4. ForNumber
  BY <1>1, <1>2 DEF ForNumber, Clean, Foreign, Stream
<1>5. ~Hearing(media)
  BY <1>1, <1>2 DEF Hearing, Audio
<1>6. Ready
  BY <1>1, <1>2, <1>3 DEF Ready
<1>7. Due(events, Hearing(media), Answered)
  BY <1>3, <1>5 DEF Due
<1> QED BY <1>1, <1>3, <1>4, <1>6, <1>7

\* What the invariant says now, if the mishap it excepts has not happened after the step
LEMMA Now ==
    ASSUME IInv, Next
    PROVE  /\ "retyped" \notin mishaps' => ForNumber
           /\ "overlap" \notin mishaps' => OneLine
           /\ "overtaken" \notin mishaps' /\ ~AnyBusy =>
                 \A i \in 1 .. Len(events) : LastTurn(events, i) => events[i] \in Ends
           /\ ~media.crashed /\ mishaps' \cap {"outside", "retyped", "overtaken"} = {}
                     /\ ~AnyBusy /\ NoTurn(events)
                 => media = NoMedia
           /\ ~media.crashed /\ mishaps' \cap {"overlap", "outside", "overtaken"} = {}
                 => Due(events, Hearing(media), Answered)
           /\ mishaps' = {} => Ready
<1>1. CASE AtRest
  BY <1>1, Resting DEF IInv
<1>2. CASE mishaps \subseteq mishaps'
  BY <1>2 DEF IInv, NumberInv, OneInv, IdleInv, GoneInv, AudioInv, CallInv
<1> QED BY <1>1, <1>2, Mishaps

\* What a step does to lines, events and the buttons
Shape ==
    \/ \E l \in Line, e \in Event :
          /\ events' = Append(events, e)
          /\ \/ e = "new" /\ lines[l] = "free" /\ lines' = [lines EXCEPT ![l] = "in"]
                /\ Starts(l)
             \/ e = "answer" /\ Busy(l) /\ lines' = [lines EXCEPT ![l] = "answered"]
             \/ e = "transfer" /\ lines[l] = "answered" /\ lines' = lines
             \/ e \in Ends /\ Busy(l) /\ lines' = [lines EXCEPT ![l] = "free"]
                /\ (e = "hangup" <=> lines[l] = "answered")
          /\ media' = media /\ open' = open
    \/ \E l \in Line :
          /\ events' = events
          /\ lines[l] = "free" /\ lines' = [lines EXCEPT ![l] = "out"]
          /\ Starts(l)
          /\ media' = media /\ open' = open
    \/ \E i \in 1 .. Len(events) - 1 : Overtakes(i)
    \/ lines' = lines /\ (HandleNew \/ HandleAnswer \/ HandleTransfer \/ HandleHangup)
    \/ lines' = lines /\ events' = events /\ buttons' = buttons

\* Every step has one of these shapes.
LEMMA Shapes ==
    ASSUME Next
    PROVE  Shape
<1>1. ASSUME NEW l \in Line, LineStep(l) PROVE Shape
  <2>1. CASE Incoming(l)
    BY <2>1 DEF Incoming, Tell, Shape, Event, ui
  <2>2. CASE PeerAnswers(l)
    BY <2>2 DEF PeerAnswers, Tell, Shape, Event, ui, Busy
  <2>3. CASE Transferred(l)
    BY <2>3 DEF Transferred, Tell, Shape, Event, ui
  <2>4. ASSUME Ended(l), media' = media, open' = open
        PROVE  Shape
    BY <2>4 DEF Ended, Tell, Shape, Event, Ends
  <2>5. CASE PeerEnds(l)
    BY <2>4, <2>5 DEF PeerEnds, ui
  <2>6. CASE PressDial(l)
    BY <2>6 DEF PressDial, Shape
  <2>7. CASE PressAnswer(l)
    BY <2>7 DEF PressAnswer, Tell, Shape, Event, Busy
  <2>8. CASE PressHangup(l)
    BY <2>4, <2>8 DEF PressHangup
  <2> QED BY <1>1, <2>1, <2>2, <2>3, <2>5, <2>6, <2>7, <2>8 DEF LineStep
<1>2. CASE HandleNew \/ HandleAnswer \/ HandleTransfer \/ HandleHangup
  BY <1>2 DEF Shape, HandleNew, HandleAnswer, HandleTransfer, HandleHangup, Take
<1>3. CASE OpenConf \/ \E camera \in BOOLEAN : OpenVideo(camera)
  BY <1>3 DEF OpenConf, OpenVideo, Opened, Shape
<1>4. CASE UserStep
  BY <1>4 DEF UserStep, Type, PressVideo, SwitchCapture, BackToAudio, Back, Shape, ui
<1>5. CASE PacketTested \/ PacketDelivered
  BY <1>5 DEF PacketTested, PacketDelivered, Shape, ui
<1>6. CASE \E i \in 1 .. Len(events) : Overtakes(i)
  BY <1>6 DEF Overtakes, Shape
<1> QED BY <1>1, <1>2, <1>3, <1>4, <1>5, <1>6 DEF Next, AppStep

\* While nothing overlaps, one line is in use.
LEMMA OneStep ==
    ASSUME IInv, Next
    PROVE  OneInv'
<1>1. Shape
  BY Shapes
<1>2. lines \in [Line -> {"free", "in", "out", "answered"}]
  BY DEF IInv, TypeOK
<1> SUFFICES ASSUME "overlap" \notin mishaps', NEW k \in Line, NEW j \in Line,
                    Busy(k)', Busy(j)'
             PROVE  k = j
  BY DEF OneInv, OneLine
<1>3. \A p, q \in Line : Busy(p) /\ Busy(q) => p = q
  BY Now DEF OneLine
<1>4. CASE lines' = lines
  BY <1>3, <1>4 DEF Busy
<1>5. ASSUME NEW l \in Line, Busy(l) \/ (Starts(l) /\ lines[l] = "free"),
             NEW to, lines' = [lines EXCEPT ![l] = to]
      PROVE  k = j
  <2>1. \A p \in Line : lines'[p] = IF p = l THEN to ELSE lines[p]
    BY <1>2, <1>5
  <2>2. \A p \in Line : Busy(p) => p = l \/ Busy(l)
    BY <1>5, Resting DEF Starts, IInv, AnyBusy
  <2> QED BY <1>3, <2>1, <2>2 DEF Busy
<1> QED BY <1>1, <1>4, <1>5 DEF Shape, Overtakes

\* Two events that are not both turns swap; the order of the turns is the same.
LEMMA SwapTurns ==
    ASSUME events \in Seq(Event), NEW i \in 1 .. Len(events) - 1,
           events' = [events EXCEPT ![i] = events[i + 1], ![i + 1] = events[i]],
           ~({events[i], events[i + 1]} \subseteq Turns)
    PROVE  /\ NoTurn(events') <=> NoTurn(events)
           /\ \A j \in 1 .. Len(events) : LastTurn(events', j) =>
                 \E k \in 1 .. Len(events) : LastTurn(events, k) /\ events[k] = events'[j]
           /\ \A k \in 1 .. Len(events) : LastTurn(events, k) =>
                 \E j \in 1 .. Len(events) : LastTurn(events', j) /\ events[k] = events'[j]
<1> DEFINE at(j) == IF j = i THEN i + 1 ELSE IF j = i + 1 THEN i ELSE j
<1>1. /\ Len(events) \in Nat /\ Len(events') = Len(events)
      /\ i \in 1 .. Len(events) /\ i + 1 \in 1 .. Len(events)
      /\ events'[i] = events[i + 1] /\ events'[i + 1] = events[i]
      /\ \A j \in 1 .. Len(events) \ {i, i + 1} : events'[j] = events[j]
  BY Swapped
<1>2. \A j \in 1 .. Len(events) :
          /\ at(j) \in 1 .. Len(events) /\ at(at(j)) = j
          /\ events'[j] = events[at(j)] /\ events[j] = events'[at(j)]
  BY <1>1
<1>3. \A j, k \in 1 .. Len(events) :
          j < k /\ ~(j = i /\ k = i + 1) => at(j) < at(k)
  BY <1>1
<1>4. events[i] \notin Turns \/ events[i + 1] \notin Turns
  OBVIOUS
<1> HIDE DEF at
<1>5. NoTurn(events') <=> NoTurn(events)
  BY <1>1, <1>2 DEF NoTurn
<1>6. ASSUME NEW j \in 1 .. Len(events), LastTurn(events', j)
      PROVE  LastTurn(events, at(j)) /\ events[at(j)] = events'[j]
  <2>1. events[at(j)] \in Turns /\ at(j) \in 1 .. Len(events)
    BY <1>1, <1>2, <1>6 DEF LastTurn
  <2>2. ASSUME NEW k \in 1 .. Len(events), k > at(j), events[k] \in Turns
        PROVE  FALSE
    <3>1. at(j) < k /\ ~(at(j) = i /\ k = i + 1)
      BY <1>4, <2>1, <2>2
    <3>2. j < at(k) /\ at(k) \in 1 .. Len(events) /\ events'[at(k)] = events[k]
      BY <1>2, <1>3, <2>1, <3>1
    <3> QED BY <1>1, <1>6, <2>2, <3>2 DEF LastTurn
  <2> QED BY <1>2, <2>1, <2>2 DEF LastTurn
<1>7. ASSUME NEW k \in 1 .. Len(events), LastTurn(events, k)
      PROVE  LastTurn(events', at(k)) /\ events[k] = events'[at(k)]
  <2>1. events[k] \in Turns /\ at(k) \in 1 .. Len(events) /\ events'[at(k)] = events[k]
    BY <1>2, <1>7 DEF LastTurn
  <2>2. ASSUME NEW j \in 1 .. Len(events), j > at(k), events'[j] \in Turns
        PROVE  FALSE
    <3>1. at(j) \in 1 .. Len(events) /\ events[at(j)] \in Turns /\ at(at(k)) = k
      BY <1>2, <2>2
    <3>2. ~(at(k) = i /\ j = i + 1)
      BY <1>1, <1>4, <2>1, <2>2
    <3>3. k < at(j)
      BY <1>3, <2>1, <2>2, <3>1, <3>2
    <3> QED BY <1>7, <3>1, <3>3 DEF LastTurn
  <2> QED BY <1>1, <2>1, <2>2 DEF LastTurn
<1> QED BY <1>2, <1>5, <1>6, <1>7

\* After the last call the last turn is an end.
LEMMA IdleStep ==
    ASSUME IInv, Next
    PROVE  IdleInv'
<1>1. Shape
  BY Shapes
<1>2. /\ lines \in [Line -> {"free", "in", "out", "answered"}]
      /\ events \in Seq(Event)
  BY DEF IInv, TypeOK
<1> SUFFICES ASSUME "overtaken" \notin mishaps', ~AnyBusy',
                    NEW i \in 1 .. Len(events'), LastTurn(events', i)
             PROVE  events'[i] \in Ends
  BY DEF IdleInv
<1>0. ~AnyBusy => \A j \in 1 .. Len(events) : LastTurn(events, j) => events[j] \in Ends
  BY Now
<1>3. ASSUME NEW l \in Line, NEW to \in {"in", "out", "answered"},
             lines' = [lines EXCEPT ![l] = to]
      PROVE  FALSE
  BY <1>2, <1>3 DEF AnyBusy, Busy
<1>4. ASSUME NEW e \in Ends, events' = Append(events, e)
      PROVE  events'[i] \in Ends
  <2>1. e \in Event /\ e \in Turns
    BY DEF Ends, Event, Turns
  <2>2. /\ Len(events) \in Nat /\ Len(events') = Len(events) + 1
        /\ events'[Len(events) + 1] = e
    BY <1>2, <1>4, <2>1, Appended
  <2>3. i = Len(events) + 1
    BY <2>1, <2>2 DEF LastTurn
  <2> QED BY <1>4, <2>2, <2>3
<1>5. ASSUME NEW l \in Line, lines[l] = "answered", lines' = lines
      PROVE  FALSE
  BY <1>5 DEF AnyBusy, Busy
<1>6. CASE lines' = lines /\ events' = events
  BY <1>0, <1>6 DEF AnyBusy, Busy
<1>7. CASE lines' = lines /\ (HandleNew \/ HandleAnswer \/ HandleTransfer \/ HandleHangup)
  <2>1. events # <<>> /\ events' = Tail(events)
    BY <1>7 DEF HandleNew, HandleAnswer, HandleTransfer, HandleHangup, Take
  <2>2. /\ Len(events) \in Nat /\ Len(events') = Len(events) - 1
        /\ \A j \in 1 .. Len(events') : events'[j] = events[j + 1]
    BY <1>2, <2>1, Taken
  <2>3. i + 1 \in 1 .. Len(events) /\ events[i + 1] = events'[i]
    BY <2>2
  <2>4. \A j \in 1 .. Len(events) : j > i + 1 =>
            j - 1 \in 1 .. Len(events') /\ j - 1 > i /\ events'[j - 1] = events[j]
    BY <2>2
  <2>5. LastTurn(events, i + 1)
    BY <2>3, <2>4 DEF LastTurn
  <2> QED BY <1>0, <1>7, <2>3, <2>5 DEF AnyBusy, Busy
<1>8. ASSUME NEW k \in 1 .. Len(events) - 1, Overtakes(k)
      PROVE  events'[i] \in Ends
  <2>1. /\ events' = [events EXCEPT ![k] = events[k + 1], ![k + 1] = events[k]]
        /\ lines' = lines /\ ~({events[k], events[k + 1]} \subseteq Turns)
    BY <1>8 DEF Overtakes
  <2>2. i \in 1 .. Len(events)
    BY <1>2, <2>1, Swapped
  <2>3. PICK j \in 1 .. Len(events) : LastTurn(events, j) /\ events[j] = events'[i]
    BY <1>2, <2>1, <2>2, SwapTurns
  <2> QED BY <1>0, <2>1, <2>3 DEF AnyBusy, Busy
<1> QED BY <1>1, <1>3, <1>4, <1>5, <1>6, <1>7, <1>8 DEF Shape

-----------------------------------------------------------------------------
(* The number *)

\* The streams of the other kind of number stay away if they are not touched.
LEMMA ForeignKept ==
    ASSUME NEW m, NEW r, NEW S, Only(m, r, S), \A s \in S : s \notin Foreign,
           \A s \in Foreign : m.of[s] = "null"
    PROVE  \A s \in Foreign : r.of[s] = "null"
BY DEF Only, Foreign, Stream

\* The media of one number
Proper(m) == Clean(m) /\ \A s \in Foreign : m.of[s] = "null"

\* Whatever the application does to the media of a number is for that number.
LEMMA ProperStep ==
    ASSUME TypeOK, ForNumber, Next, dest' = dest
    PROVE  Proper(media')
<1>1. Typed(media) /\ dest \in {"plain", "conf"} /\ Proper(media)
  BY TypedMedia DEF ForNumber, Proper
<1>2. CASE media' = media
  BY <1>1, <1>2
<1>3. CASE HandleAnswer
  <2>1. Only(media, media', Audio) /\ Clean(media')
    BY <1>1, <1>3, StartAudioFacts DEF HandleAnswer, Proper
  <2> QED BY <1>1, <2>1, ForeignKept DEF Audio, Foreign, Proper
<1>4. CASE HandleHangup
  <2>1. PICK r : r = EndMedia(media)
    OBVIOUS
  <2>2. Typed(r) /\ Clean(r) /\ \A s \in Stream : r.of[s] = "null"
    BY <1>1, <2>1, EndMediaFacts DEF Proper
  <2>3. \A s \in Foreign : s \in Stream
    BY DEF Foreign, Stream
  <2>4. Proper(r)
    BY <2>2, <2>3 DEF Proper
  <2>5. PICK q : q = EndMedia(r)
    OBVIOUS
  <2>6. Clean(q) /\ \A s \in Stream : q.of[s] = "null"
    BY <1>1, <2>2, <2>4, <2>5, EndMediaFacts DEF Proper
  <2>7. media' = r \/ media' = q
    BY <1>4, <2>1, <2>5 DEF HandleHangup
  <2> QED BY <2>3, <2>4, <2>6, <2>7 DEF Proper
<1>5. ASSUME NEW camera \in BOOLEAN, OpenVideo(camera) PROVE Proper(media')
  <2>0. dest = "plain"
    BY <1>1, <1>5 DEF OpenVideo, Opened, ForNumber, Own
  <2>1. PICK n : n = CreateLocalRender(media, camera)
    OBVIOUS
  <2>2. PICK o : o = StartAudio(n)
    OBVIOUS
  <2>3. PICK q : q = StartVideo(o)
    OBVIOUS
  <2>4. Only(media, n, {}) /\ Clean(n)
    BY <1>1, <2>1, LocalRenderFacts DEF Proper
  <2>5. Only(n, o, Audio) /\ Clean(o)
    BY <2>2, <2>4, StartAudioFacts, OnlyTyped
  <2>6. Only(o, q, Video) /\ Clean(q)
    BY <2>3, <2>5, StartVideoFacts, OnlyTyped
  <2>7. media' = Capture(q, "on")
    BY <1>5, <2>1, <2>2, <2>3 DEF OpenVideo
  <2>8. Only(q, media', {}) /\ Clean(media')
    BY <2>6, <2>7, CaptureFacts, OnlyTyped
  <2>9. \A s \in Foreign : n.of[s] = "null"
    BY <1>1, <2>4, ForeignKept DEF Proper
  <2>10. \A s \in Foreign : o.of[s] = "null"
    BY <2>5, <2>9, ForeignKept DEF Audio, Foreign
  <2>11. \A s \in Foreign : q.of[s] = "null"
    BY <2>0, <2>6, <2>10, ForeignKept DEF Video, Foreign
  <2> QED BY <2>8, <2>11, ForeignKept DEF Proper
<1>6. CASE OpenConf
  <2>0. dest = "conf"
    BY <1>1, <1>6 DEF OpenConf, Opened, ForNumber, Own
  <2>1. PICK n : n = StartConfVideo(media)
    OBVIOUS
  <2>2. Only(media, n, Conference) /\ Clean(n)
    BY <1>1, <2>1, StartConfFacts DEF Proper
  <2>3. media' = Capture(n, "on")
    BY <1>6, <2>1 DEF OpenConf
  <2>4. Only(n, media', {}) /\ Clean(media')
    BY <2>2, <2>3, CaptureFacts, OnlyTyped
  <2>5. \A s \in Foreign : n.of[s] = "null"
    BY <1>1, <2>0, <2>2, ForeignKept DEF Proper, Conference, Foreign
  <2> QED BY <2>4, <2>5, ForeignKept DEF Proper
<1>7. ASSUME NEW how \in {"on", "off"}, SwitchCapture(how) PROVE Proper(media')
  <2>1. media' = Capture(media, how)
    BY <1>7 DEF SwitchCapture
  <2>2. Only(media, media', {}) /\ Clean(media')
    BY <1>1, <2>1, CaptureFacts DEF Proper
  <2> QED BY <1>1, <2>2, ForeignKept DEF Proper
<1>8. CASE BackToAudio
  <2>1. PICK n : n = Capture(media, "off")
    OBVIOUS
  <2>2. Only(media, n, {}) /\ Clean(n)
    BY <1>1, <2>1, CaptureFacts DEF Proper
  <2>3. media' = StopVideo(n)
    BY <1>8, <2>1 DEF BackToAudio
  <2>4. Only(n, media', Video) /\ Clean(media') /\ \A s \in Video : media'.of[s] = "null"
    BY <2>2, <2>3, StopVideoFacts, OnlyTyped
  <2>5. \A s \in Foreign : n.of[s] = "null"
    BY <1>1, <2>2, ForeignKept DEF Proper
  <2>6. \A s \in Foreign : s \in Stream
    BY DEF Foreign, Stream
  <2>7. \A s \in Foreign : media'.of[s] = "null"
    BY <2>4, <2>5, <2>6 DEF Only
  <2> QED BY <2>4, <2>7 DEF Proper
<1>9. CASE PacketDelivered
  <2>1. media' = media \/ media' = Crash(media)
    BY <1>9 DEF PacketDelivered, Use
  <2> QED BY <1>1, <2>1, CrashFacts DEF Proper, Clean
<1>10. \/ media' = media \/ HandleAnswer \/ HandleHangup \/ OpenConf \/ BackToAudio
       \/ PacketDelivered
       \/ \E camera \in BOOLEAN : OpenVideo(camera)
       \/ \E how \in {"on", "off"} : SwitchCapture(how)
  BY MediaSteps
<1> QED BY <1>2, <1>3, <1>4, <1>5, <1>6, <1>7, <1>8, <1>9, <1>10

\* The buttons of a mode are those of the number.
LEMMA ModeNumber ==
    ASSUME NEW to \in {"idle", "ringing", "talking"}, SetMode(to), buttons \subseteq Own
    PROVE  buttons' \subseteq Own
BY DEF SetMode, Own

\* A number is changed when nothing is left of the other, or that is a mishap.
LEMMA NumberStep ==
    ASSUME IInv, Next
    PROVE  NumberInv'
<1> SUFFICES ASSUME "retyped" \notin mishaps' PROVE NumberInv'
  BY DEF NumberInv
<1>1. TypeOK /\ ForNumber
  BY Now DEF IInv
<1>2. buttons \subseteq Own /\ opening \subseteq Own /\ open \subseteq Own
  BY <1>1 DEF ForNumber
<1>3. ASSUME NEW d \in {"plain", "conf"}, Type(d) PROVE NumberInv'
  <2>1. AtRest /\ media = NoMedia
    BY <1>3 DEF Type, AtRest
  <2>2. buttons = {} /\ opening = {} /\ open = {}
    BY <2>1 DEF AtRest, Settled
  <2>3. \A s \in Stream : media.of[s] = "null"
    BY <2>1 DEF NoMedia
  <2>4. buttons' = {} /\ opening' = {} /\ open' = {} /\ media' = media
    BY <1>3, <2>2 DEF Type
  <2> QED BY <2>3, <2>4 DEF NumberInv, ForNumber, Clean, Foreign, Stream
<1>4. ASSUME dest' = dest,
             buttons' \subseteq Own, opening' \subseteq Own, open' \subseteq Own
      PROVE  NumberInv'
  <2>1. Proper(media')
    BY <1>1, <1>4, ProperStep
  <2>2. Own' = Own /\ Foreign' = Foreign
    BY <1>4 DEF Own, Foreign
  <2> QED BY <1>4, <2>1, <2>2 DEF NumberInv, ForNumber, Proper, Clean
<1>5. ASSUME NEW l \in Line, LineStep(l) PROVE NumberInv'
  <2>1. dest' = dest /\ opening' = opening /\ open' = open
    BY <1>5 DEF LineStep, ui, Incoming, PeerAnswers, Transferred, PeerEnds, PressDial,
                PressAnswer, PressHangup
  <2>2. buttons' = buttons \/ \E to \in {"idle", "ringing", "talking"} : SetMode(to)
    BY <1>5 DEF LineStep, ui, Incoming, PeerAnswers, Transferred, PeerEnds, PressDial,
                PressAnswer, PressHangup
  <2> QED BY <1>2, <1>4, <2>1, <2>2, ModeNumber
<1>6. CASE HandleNew \/ HandleAnswer \/ HandleTransfer \/ HandleHangup
  <2>1. dest' = dest /\ opening' = opening /\ (open' = open \/ open' = {})
    BY <1>6 DEF HandleNew, HandleAnswer, HandleTransfer, HandleHangup, Take
  <2>2. \E to \in {"idle", "ringing", "talking"} : SetMode(to)
    BY <1>6 DEF HandleNew, HandleAnswer, HandleTransfer, HandleHangup
  <2> QED BY <1>2, <1>4, <2>1, <2>2, ModeNumber
<1>7. CASE OpenConf \/ \E camera \in BOOLEAN : OpenVideo(camera)
  BY <1>2, <1>4, <1>7 DEF OpenConf, OpenVideo, Opened
<1>8. CASE UserStep
  <2>1. CASE \E a \in Activity : PressVideo(a)
    BY <1>2, <1>4, <2>1 DEF PressVideo
  <2>2. CASE \E how \in {"on", "off"} : SwitchCapture(how)
    BY <1>2, <1>4, <2>2 DEF SwitchCapture, ui
  <2>3. CASE BackToAudio \/ Back
    BY <1>2, <1>4, <2>3 DEF BackToAudio, Back
  <2> QED BY <1>3, <1>8, <2>1, <2>2, <2>3 DEF UserStep
<1>9. CASE PacketTested \/ PacketDelivered \/ \E i \in 1 .. Len(events) : Overtakes(i)
  BY <1>2, <1>4, <1>9 DEF PacketTested, PacketDelivered, Overtakes, ui
<1> QED BY <1>5, <1>6, <1>7, <1>8, <1>9 DEF Next, AppStep

-----------------------------------------------------------------------------
(* After the last call *)

\* A process that crashed does nothing any more.
LEMMA Lives ==
    ASSUME Next
    PROVE  ~media.crashed
BY DEF Next, AppStep, UserStep, LineStep, HandleNew, HandleAnswer, HandleTransfer,
       HandleHangup, Take, OpenVideo, OpenConf, Opened, Type, PressVideo, SwitchCapture,
       BackToAudio, Back, PacketTested, PacketDelivered, Incoming, PeerAnswers, Transferred, PeerEnds, Ended,
       PressDial, PressAnswer, PressHangup, Overtakes, Alive

\* Where nothing is, there is nothing to stop.
LEMMA NothingToStop == StopVideo(Capture(NoMedia, "off")) = NoMedia
<1>1. /\ NoMedia.capturer = "null" /\ DestroyCapture(NoMedia) = NoMedia
      /\ \A s \in Stream : ~Exists(NoMedia, s)
  <2>1. NoMedia \in Media /\ NoMedia.capturer = "null"
    BY DEF NoMedia, Media
  <2>2. ASSUME NEW m \in Media, m.capturer = "null"
        PROVE  [m EXCEPT !.capturer = "null"] = m
    BY <2>2 DEF Media
  <2>3. \A s \in Stream : NoMedia.of[s] = "null"
    BY DEF NoMedia
  <2> QED BY <2>1, <2>2, <2>3 DEF DestroyCapture, Exists
<1>2. "video send" \in Stream /\ "video receive" \in Stream
  BY DEF Stream
<1>3. Capture(NoMedia, "off") = NoMedia
  BY <1>1 DEF Capture
<1>4. StopBoth(NoMedia, "video send", "video receive") = NoMedia
  BY <1>1, <1>2 DEF StopBoth
<1>5. Destroy(NoMedia, "video send") = NoMedia /\ Destroy(NoMedia, "video receive") = NoMedia
  BY <1>1, <1>2 DEF Destroy
<1> QED BY <1>1, <1>3, <1>4, <1>5 DEF StopVideo

\* What the last hangup leaves behind
LEMMA HangupLeaves ==
    ASSUME TypeOK, HandleHangup
    PROVE  /\ Typed(media') /\ (media.crashed => media'.crashed)
           /\ media'.crashed \/ ~Hearing(media')
           /\ Proper(media) => media'.crashed \/ media' = NoMedia
           /\ Proper(media) /\ ~media.crashed
                   /\ (dest = "plain" \/ (media.call /\ receivers = 1))
                  => ~media'.crashed
<1>1. Typed(media) /\ dest \in {"plain", "conf"}
  BY TypedMedia
<1>2. PICK r : r = EndMedia(media)
  OBVIOUS
<1>3. /\ Typed(r) /\ (media.crashed => r.crashed)
      /\ r.crashed \/ ~Hearing(r)
      /\ Proper(media) =>
             /\ Clean(r) /\ \A s \in Stream : r.of[s] = "null"
             /\ r.crashed \/ r = NoMedia
             /\ dest = "plain" \/ media.call => r.crashed = media.crashed
  BY <1>1, <1>2, EndMediaFacts DEF Proper
<1>4. Proper(media) => Proper(r)
  BY <1>3 DEF Proper, Foreign, Stream
<1>5. PICK q : q = EndMedia(r)
  OBVIOUS
<1>6. /\ Typed(q) /\ (r.crashed => q.crashed)
      /\ q.crashed \/ ~Hearing(q)
      /\ Proper(r) =>
             /\ q.crashed \/ q = NoMedia
             /\ dest = "plain" \/ r.call => q.crashed = r.crashed
  BY <1>1, <1>3, <1>5, EndMediaFacts DEF Proper
<1>7. media' = IF receivers = 1 THEN r ELSE q
  BY <1>2, <1>5 DEF HandleHangup
<1> QED BY <1>1, <1>3, <1>4, <1>6, <1>7

\* When the last call has ended nothing is left of it.
LEMMA GoneStep ==
    ASSUME IInv, Next
    PROVE  GoneInv'
<1> SUFFICES ASSUME ~media'.crashed, mishaps' \cap {"outside", "retyped", "overtaken"} = {},
                    ~AnyBusy', NoTurn(events')
             PROVE  media' = NoMedia
  BY DEF GoneInv
<1>1. Shape /\ ~media.crashed
  BY Shapes, Lives
<1>2. /\ lines \in [Line -> {"free", "in", "out", "answered"}]
      /\ events \in Seq(Event) /\ TypeOK
  BY DEF IInv, TypeOK
<1>a. /\ ~AnyBusy /\ NoTurn(events) => media = NoMedia
      /\ ~AnyBusy => \A i \in 1 .. Len(events) : LastTurn(events, i) => events[i] \in Ends
      /\ ForNumber
  BY <1>1, Now
<1>3. ASSUME NEW e \in Turns, events' = Append(events, e) PROVE FALSE
  <2>1. e \in Event
    BY DEF Turns, Event
  <2> QED BY <1>2, <1>3, <2>1, Appended DEF NoTurn
<1>4. ASSUME NEW l \in Line, NEW to \in {"in", "out", "answered"},
             lines' = [lines EXCEPT ![l] = to]
      PROVE  FALSE
  BY <1>2, <1>4 DEF AnyBusy, Busy
<1>b. ASSUME NEW l \in Line, lines[l] = "answered", lines' = lines PROVE FALSE
  BY <1>b DEF AnyBusy, Busy
<1>5. CASE lines' = lines /\ (HandleNew \/ HandleAnswer \/ HandleTransfer \/ HandleHangup)
  <2>1. events # <<>> /\ events' = Tail(events)
    BY <1>5 DEF HandleNew, HandleAnswer, HandleTransfer, HandleHangup, Take
  <2>2. /\ Len(events) \in Nat /\ Len(events') = Len(events) - 1 /\ Head(events) = events[1]
        /\ Len(events) >= 1
        /\ \A j \in 1 .. Len(events') : events'[j] = events[j + 1]
    BY <1>2, <2>1, Taken
  <2>3. \A j \in 1 .. Len(events) : j > 1 =>
            j - 1 \in 1 .. Len(events') /\ events'[j - 1] = events[j]
    BY <2>2
  <2>4. \A j \in 1 .. Len(events) : j > 1 => events[j] \notin Turns
    BY <2>3 DEF NoTurn
  <2>5. ~AnyBusy
    BY <1>5 DEF AnyBusy, Busy
  <2>6. CASE events[1] \in Turns
    <3>1. LastTurn(events, 1) /\ 1 \in 1 .. Len(events)
      BY <2>2, <2>4, <2>6 DEF LastTurn
    <3>2. Head(events) \in Ends
      BY <1>a, <2>2, <2>5, <3>1
    <3>3. HandleHangup
      BY <1>5, <3>2 DEF HandleNew, HandleAnswer, HandleTransfer, Take, Ends
    <3>4. Proper(media)
      BY <1>a DEF ForNumber, Proper
    <3> QED BY <1>2, <3>3, <3>4, HangupLeaves
  <2>7. CASE events[1] \notin Turns
    <3>1. \A j \in 1 .. Len(events) : j = 1 \/ j > 1
      BY <2>2
    <3>2. NoTurn(events)
      BY <2>4, <2>7, <3>1 DEF NoTurn
    <3>3. HandleNew \/ HandleTransfer
      BY <1>5, <2>2, <2>7 DEF HandleAnswer, HandleHangup, Take, Turns
    <3> QED BY <1>a, <2>5, <3>2, <3>3 DEF HandleNew, HandleTransfer
  <2> QED BY <2>6, <2>7
<1>c. ASSUME NEW i \in 1 .. Len(events) - 1, Overtakes(i) PROVE media' = NoMedia
  <2>1. /\ events' = [events EXCEPT ![i] = events[i + 1], ![i + 1] = events[i]]
        /\ lines' = lines /\ ~({events[i], events[i + 1]} \subseteq Turns) /\ media' = media
    BY <1>c DEF Overtakes
  <2>2. NoTurn(events)
    BY <1>2, <2>1, SwapTurns
  <2> QED BY <1>a, <2>1, <2>2 DEF AnyBusy, Busy
<1>6. CASE lines' = lines /\ events' = events
  <2>1. media = NoMedia
    BY <1>a, <1>6 DEF AnyBusy, Busy
  <2>2. CASE HandleAnswer \/ HandleHangup
    <3>1. events # <<>> /\ events' = Tail(events)
      BY <2>2 DEF HandleAnswer, HandleHangup, Take
    <3>2. Len(events') = Len(events) - 1 /\ Len(events) \in Nat
      BY <1>2, <3>1, Taken
    <3> QED BY <1>6, <3>2
  <2>3. CASE OpenConf \/ \E camera \in BOOLEAN : OpenVideo(camera)
    <3>1. ~InCall
      BY <1>6 DEF InCall, AnyBusy, Busy
    <3> QED BY <2>3, <3>1 DEF OpenConf, OpenVideo, Opened
  <2>4. CASE \E how \in {"on", "off"} : SwitchCapture(how)
    BY <2>1, <2>4 DEF SwitchCapture, NoMedia
  <2>5. CASE BackToAudio
    BY <2>1, <2>5, NothingToStop DEF BackToAudio
  <2>6. CASE PacketDelivered
    <3>1. media' = media \/ media' = Crash(media)
      BY <2>6 DEF PacketDelivered, Use
    <3>2. Crash(media).crashed
      BY <2>1 DEF Crash, NoMedia
    <3> QED BY <2>1, <3>1, <3>2
  <2> QED BY <2>1, <2>2, <2>3, <2>4, <2>5, <2>6, MediaSteps
<1> QED BY <1>1, <1>3, <1>4, <1>b, <1>5, <1>c, <1>6 DEF Shape, Ends, Turns

-----------------------------------------------------------------------------
(* Audio *)

\* A turn is the last one when it is told.
LEMMA DueTurn ==
    ASSUME NEW ev \in Seq(Event), NEW e \in Turns, NEW h \in BOOLEAN
    PROVE  Due(Append(ev, e), h, e = "answer")
<1>1. PICK f : f = Append(ev, e)
  OBVIOUS
<1>2. e \in Event
  BY DEF Turns, Event
<1>3. /\ f \in Seq(Event) /\ Len(ev) \in Nat
      /\ Len(f) = Len(ev) + 1 /\ f[Len(ev) + 1] = e
  BY <1>1, <1>2
<1>4. LastTurn(f, Len(ev) + 1) /\ Len(ev) + 1 \in 1 .. Len(f)
  BY <1>3 DEF LastTurn
<1>5. Due(f, h, e = "answer")
  BY <1>3, <1>4 DEF Due
<1> QED BY <1>1, <1>5

\* Any other event leaves due what was.
LEMMA DueOther ==
    ASSUME NEW ev \in Seq(Event), NEW e \in Event \ Turns, NEW h \in BOOLEAN,
           NEW b \in BOOLEAN, Due(ev, h, b)
    PROVE  Due(Append(ev, e), h, b)
<1>1. PICK f : f = Append(ev, e)
  OBVIOUS
<1>2. /\ f \in Seq(Event) /\ Len(ev) \in Nat
      /\ Len(f) = Len(ev) + 1 /\ f[Len(ev) + 1] = e
      /\ \A i \in 1 .. Len(ev) : f[i] = ev[i]
  BY <1>1
<1>3. NoTurn(ev) => NoTurn(f)
  BY <1>2 DEF NoTurn
<1>4. \A i \in 1 .. Len(ev) : LastTurn(ev, i) => LastTurn(f, i)
  BY <1>2 DEF LastTurn
<1>5. Due(f, h, b)
  BY <1>2, <1>3, <1>4 DEF Due
<1> QED BY <1>1, <1>5

\* Handling an event leaves due what was, if a turn does what it stands for.
LEMMA DueTaken ==
    ASSUME NEW ev \in Seq(Event), ev # <<>>, NEW h \in BOOLEAN, NEW g \in BOOLEAN,
           NEW b \in BOOLEAN, Due(ev, h, b),
           Head(ev) \in Turns => (g <=> Head(ev) = "answer"),
           Head(ev) \notin Turns => (g <=> h)
    PROVE  Due(Tail(ev), g, b)
<1>1. PICK f : f = Tail(ev)
  OBVIOUS
<1>2. /\ f \in Seq(Event) /\ Len(ev) \in Nat /\ Len(ev) >= 1
      /\ Len(f) = Len(ev) - 1 /\ Head(ev) = ev[1]
      /\ \A i \in 1 .. Len(f) : f[i] = ev[i + 1]
  BY <1>1
<1>3. CASE NoTurn(ev) /\ (h <=> b)
  <2>1. NoTurn(f) /\ Head(ev) \notin Turns
    BY <1>2, <1>3 DEF NoTurn
  <2> QED BY <1>1, <1>3, <2>1 DEF Due
<1>4. ASSUME NEW i \in 1 .. Len(ev), LastTurn(ev, i), ev[i] = "answer" <=> b
      PROVE  Due(f, g, b)
  <2>1. CASE i = 1
    <3>1. NoTurn(f)
      BY <1>2, <1>4, <2>1 DEF NoTurn, LastTurn
    <3>2. g <=> b
      BY <1>2, <1>4, <2>1 DEF LastTurn
    <3> QED BY <3>1, <3>2 DEF Due
  <2>2. CASE i # 1
    <3>1. i - 1 \in 1 .. Len(f) /\ f[i - 1] = ev[i]
      BY <1>2, <2>2
    <3>2. LastTurn(f, i - 1)
      BY <1>2, <1>4, <3>1 DEF LastTurn
    <3> QED BY <1>4, <3>1, <3>2 DEF Due
  <2> QED BY <2>1, <2>2
<1> QED BY <1>1, <1>3, <1>4 DEF Due

\* Steps on other streams leave audio as it is.
LEMMA HearingKept ==
    ASSUME NEW m, NEW r, NEW S, Only(m, r, S), \A s \in S : s \notin Audio
    PROVE  (m.crashed => r.crashed) /\ (Hearing(r) <=> Hearing(m))
BY DEF Only, Hearing, Audio, Stream

\* Beside turns and new calls, steps leave audio as it is, or an activity that comes up
\* in a call turns it on.
LEMMA AudioKept ==
    ASSUME TypeOK, Next, events' = events, ~media'.crashed, "outside" \notin mishaps'
    PROVE  \/ Hearing(media') <=> Hearing(media)
           \/ Hearing(media') /\ Answered /\ NoTurn(events)
<1>1. Typed(media) /\ events \in Seq(Event)
  BY TypedMedia DEF TypeOK
<1>2. CASE HandleAnswer \/ HandleHangup
  <2>1. events # <<>> /\ events' = Tail(events)
    BY <1>2 DEF HandleAnswer, HandleHangup, Take
  <2>2. Len(events') = Len(events) - 1 /\ Len(events) \in Nat
    BY <1>1, <2>1, Taken
  <2> QED BY <2>2
<1>3. ASSUME NEW camera \in BOOLEAN, OpenVideo(camera)
      PROVE  Hearing(media') /\ Answered /\ NoTurn(events)
  <2>1. PICK n : n = CreateLocalRender(media, camera)
    OBVIOUS
  <2>2. PICK o : o = StartAudio(n)
    OBVIOUS
  <2>3. PICK q : q = StartVideo(o)
    OBVIOUS
  <2>4. Typed(n)
    BY <1>1, <2>1, LocalRenderFacts, OnlyTyped
  <2>5. Typed(o) /\ (o.crashed \/ Hearing(o))
    BY <2>2, <2>4, StartAudioFacts, OnlyTyped
  <2>6. Only(o, q, Video)
    BY <2>3, <2>5, StartVideoFacts
  <2>7. media' = Capture(q, "on")
    BY <1>3, <2>1, <2>2, <2>3 DEF OpenVideo
  <2>8. Only(q, media', {})
    BY <2>6, <2>7, CaptureFacts, OnlyTyped
  <2>9. (o.crashed => q.crashed) /\ (Hearing(q) <=> Hearing(o))
    BY <2>6, NotAudio, HearingKept
  <2>10. (q.crashed => media'.crashed) /\ (Hearing(media') <=> Hearing(q))
    BY <2>8, HearingKept
  <2>11. InCall
    BY <1>3 DEF OpenVideo, Opened
  <2> QED BY <2>5, <2>9, <2>10, <2>11 DEF InCall, Answered, NoTurn, Turns
<1>4. CASE OpenConf
  <2>1. PICK n : n = StartConfVideo(media)
    OBVIOUS
  <2>2. Only(media, n, Conference)
    BY <1>1, <2>1, StartConfFacts
  <2>3. media' = Capture(n, "on")
    BY <1>4, <2>1 DEF OpenConf
  <2>4. Only(n, media', {})
    BY <2>2, <2>3, CaptureFacts, OnlyTyped
  <2>5. Hearing(n) <=> Hearing(media)
    BY <2>2, NotAudio, HearingKept
  <2> QED BY <2>4, <2>5, HearingKept
<1>5. ASSUME NEW how \in {"on", "off"}, SwitchCapture(how)
      PROVE  Hearing(media') <=> Hearing(media)
  <2>1. media' = Capture(media, how)
    BY <1>5 DEF SwitchCapture
  <2>2. Only(media, media', {})
    BY <1>1, <2>1, CaptureFacts
  <2> QED BY <2>2, HearingKept
<1>6. CASE BackToAudio
  <2>1. PICK n : n = Capture(media, "off")
    OBVIOUS
  <2>2. Only(media, n, {})
    BY <1>1, <2>1, CaptureFacts
  <2>3. media' = StopVideo(n)
    BY <1>6, <2>1 DEF BackToAudio
  <2>4. Only(n, media', Video)
    BY <2>2, <2>3, StopVideoFacts, OnlyTyped
  <2>5. Hearing(media') <=> Hearing(n)
    BY <2>4, NotAudio, HearingKept
  <2> QED BY <2>2, <2>5, HearingKept
<1>7. CASE PacketDelivered
  <2>1. media' = media \/ media' = Crash(media)
    BY <1>7 DEF PacketDelivered, Use
  <2> QED BY <1>1, <2>1, CrashFacts DEF Hearing
<1>8. CASE media' = media
  BY <1>8
<1> QED BY <1>2, <1>3, <1>4, <1>5, <1>6, <1>7, <1>8, MediaSteps

\* Audio stays due while a call is answered.
LEMMA AudioStep ==
    ASSUME IInv, Next
    PROVE  AudioInv'
<1> SUFFICES ASSUME ~media'.crashed, mishaps' \cap {"overlap", "outside", "overtaken"} = {}
             PROVE  Due(events', Hearing(media'), Answered')
  BY DEF AudioInv
<1>1. Shape /\ ~media.crashed /\ OneLine
  BY Shapes, Lives, Now
<1>2. /\ lines \in [Line -> {"free", "in", "out", "answered"}]
      /\ events \in Seq(Event) /\ TypeOK
  BY DEF IInv, TypeOK
<1>3. Due(events, Hearing(media), Answered)
  BY <1>1, Now
<1>4. Hearing(media) \in BOOLEAN /\ Answered \in BOOLEAN /\ Hearing(media') \in BOOLEAN
  BY DEF Hearing, Answered
<1>5. ASSUME NEW l \in Line, lines[l] = "free", NEW to \in {"in", "out"},
             lines' = [lines EXCEPT ![l] = to]
      PROVE  Answered' <=> Answered
  <2>1. \A k \in Line : lines'[k] = IF k = l THEN to ELSE lines[k]
    BY <1>2, <1>5
  <2> QED BY <1>5, <2>1 DEF Answered
<1>6. ASSUME NEW l \in Line, NEW e \in Event, events' = Append(events, e), media' = media,
             \/ e = "new" /\ lines[l] = "free" /\ lines' = [lines EXCEPT ![l] = "in"]
             \/ e = "transfer" /\ lines' = lines
      PROVE  Due(events', Hearing(media'), Answered')
  <2>1. e \in Event \ Turns
    BY <1>6 DEF Turns
  <2>2. Answered' <=> Answered
    BY <1>5, <1>6 DEF Answered
  <2>3. Due(events', Hearing(media), Answered)
    BY <1>2, <1>3, <1>4, <1>6, <2>1, DueOther
  <2> QED BY <1>4, <1>6, <2>2, <2>3
<1>7. ASSUME NEW l \in Line, events' = Append(events, "answer"), media' = media,
             lines' = [lines EXCEPT ![l] = "answered"]
      PROVE  Due(events', Hearing(media'), Answered')
  <2>1. lines'[l] = "answered"
    BY <1>2, <1>7
  <2>2. Answered'
    BY <2>1 DEF Answered
  <2>3. Due(events', Hearing(media'), "answer" = "answer")
    BY <1>2, <1>4, <1>7, DueTurn DEF Turns
  <2> QED BY <2>2, <2>3 DEF Due
<1>8. ASSUME NEW l \in Line, NEW e \in Ends, events' = Append(events, e), media' = media,
             Busy(l), lines' = [lines EXCEPT ![l] = "free"]
      PROVE  Due(events', Hearing(media'), Answered')
  <2>1. \A k \in Line : lines'[k] = IF k = l THEN "free" ELSE lines[k]
    BY <1>2, <1>8
  <2>2. \A k \in Line : lines[k] = "answered" => k = l
    BY <1>1, <1>8 DEF OneLine, Busy
  <2>3. ~Answered'
    BY <2>1, <2>2 DEF Answered
  <2>4. e \in Turns /\ e # "answer"
    BY <1>8 DEF Ends, Turns
  <2>5. Due(events', Hearing(media'), e = "answer")
    BY <1>2, <1>4, <1>8, <2>4, DueTurn
  <2> QED BY <2>3, <2>4, <2>5 DEF Due
<1>9. ASSUME lines' = lines, HandleNew \/ HandleAnswer \/ HandleTransfer \/ HandleHangup
      PROVE  Due(events', Hearing(media'), Answered')
  <2>1. events # <<>> /\ events' = Tail(events)
    BY <1>9 DEF HandleNew, HandleAnswer, HandleTransfer, HandleHangup, Take
  <2>2. CASE HandleNew \/ HandleTransfer
    <3>1. Head(events) \notin Turns /\ media' = media
      BY <2>2 DEF HandleNew, HandleTransfer, Take, Turns
    <3>2. Due(events', Hearing(media'), Answered)
      BY <1>2, <1>3, <1>4, <2>1, <3>1, DueTaken
    <3> QED BY <1>9, <3>2 DEF Answered
  <2>3. CASE HandleAnswer
    <3>1. Head(events) = "answer" /\ media' = StartAudio(media)
      BY <2>3 DEF HandleAnswer, Take
    <3>2. Hearing(media')
      BY <1>2, <3>1, TypedMedia, StartAudioFacts
    <3>3. Due(events', Hearing(media'), Answered)
      BY <1>2, <1>3, <1>4, <2>1, <3>1, <3>2, DueTaken DEF Turns
    <3> QED BY <1>9, <3>3 DEF Answered
  <2>4. CASE HandleHangup
    <3>1. Head(events) \in Turns /\ Head(events) # "answer"
      BY <2>4 DEF HandleHangup, Take, Turns
    <3>2. ~Hearing(media')
      BY <1>2, <2>4, HangupLeaves
    <3>3. Due(events', Hearing(media'), Answered)
      BY <1>2, <1>3, <1>4, <2>1, <3>1, <3>2, DueTaken
    <3> QED BY <1>9, <3>3 DEF Answered
  <2> QED BY <1>9, <2>2, <2>3, <2>4
<1>10. ASSUME lines' = lines, events' = events
       PROVE  Due(events', Hearing(media'), Answered')
  <2>1. Answered' <=> Answered
    BY <1>10 DEF Answered
  <2>2. \/ Hearing(media') <=> Hearing(media)
        \/ Hearing(media') /\ Answered /\ NoTurn(events)
    BY <1>2, <1>10, AudioKept
  <2> QED BY <1>3, <1>10, <2>1, <2>2 DEF Due
<1>11. ASSUME NEW l \in Line, events' = events, lines[l] = "free",
              lines' = [lines EXCEPT ![l] = "out"], media' = media
       PROVE  Due(events', Hearing(media'), Answered')
  BY <1>3, <1>4, <1>5, <1>11 DEF Due
<1>12. ASSUME NEW i \in 1 .. Len(events) - 1, Overtakes(i)
       PROVE  Due(events', Hearing(media'), Answered')
  <2>1. /\ events' = [events EXCEPT ![i] = events[i + 1], ![i + 1] = events[i]]
        /\ lines' = lines /\ ~({events[i], events[i + 1]} \subseteq Turns) /\ media' = media
    BY <1>12 DEF Overtakes
  <2>2. Answered' <=> Answered
    BY <2>1 DEF Answered
  <2>3. Len(events') = Len(events)
    BY <1>2, <2>1, Swapped
  <2>4. /\ NoTurn(events') <=> NoTurn(events)
        /\ \A k \in 1 .. Len(events) : LastTurn(events, k) =>
              \E j \in 1 .. Len(events) : LastTurn(events', j) /\ events[k] = events'[j]
    BY <1>2, <2>1, SwapTurns
  <2>5. CASE NoTurn(events) /\ (Hearing(media) <=> Answered)
    BY <2>1, <2>2, <2>4, <2>5 DEF Due
  <2>6. ASSUME NEW k \in 1 .. Len(events), LastTurn(events, k),
               events[k] = "answer" <=> Answered
        PROVE  Due(events', Hearing(media'), Answered')
    <3>1. PICK j \in 1 .. Len(events) : LastTurn(events', j) /\ events[k] = events'[j]
      BY <2>4, <2>6
    <3> QED BY <2>2, <2>3, <2>6, <3>1 DEF Due
  <2> QED BY <1>3, <2>5, <2>6 DEF Due
<1> QED BY <1>1, <1>6, <1>7, <1>8, <1>9, <1>10, <1>11, <1>12 DEF Shape

-----------------------------------------------------------------------------
(* The WebRTC call *)

\* What was prepared stays so when an event is told.
LEMMA PreparedKept ==
    ASSUME NEW ev \in Seq(Event), NEW e \in Event, NEW c \in BOOLEAN,
           NEW i \in 1 .. Len(ev), Prepared(ev, c, i)
    PROVE  Prepared(Append(ev, e), c, i)
<1>1. PICK f : f = Append(ev, e)
  OBVIOUS
<1>2. /\ f \in Seq(Event) /\ Len(ev) \in Nat
      /\ Len(f) = Len(ev) + 1 /\ \A j \in 1 .. Len(ev) : f[j] = ev[j]
  BY <1>1
<1>3. \A j \in 1 .. Len(f) : j < i => j \in 1 .. Len(ev)
  BY <1>2
<1>4. \A j \in 1 .. Len(ev) : j \in 1 .. Len(f)
  BY <1>2
<1>5. Prepared(f, c, i)
  BY <1>2, <1>3, <1>4 DEF Prepared
<1> QED BY <1>1, <1>5

\* The hangup of an answered call is prepared when it is told.
LEMMA PreparedTold ==
    ASSUME NEW ev \in Seq(Event), NEW e \in Event, NEW c \in BOOLEAN,
           NEW h \in BOOLEAN, Due(ev, h, TRUE), NoTurn(ev) => c
    PROVE  Prepared(Append(ev, e), c, Len(ev) + 1)
<1>1. PICK f : f = Append(ev, e)
  OBVIOUS
<1>2. /\ f \in Seq(Event) /\ Len(ev) \in Nat
      /\ Len(f) = Len(ev) + 1 /\ \A j \in 1 .. Len(ev) : f[j] = ev[j]
  BY <1>1
<1>3. \A j \in 1 .. Len(f) : j < Len(ev) + 1 => j \in 1 .. Len(ev)
  BY <1>2
<1>4. CASE NoTurn(ev)
  BY <1>2, <1>3, <1>4 DEF NoTurn, Prepared
<1>5. ASSUME NEW j \in 1 .. Len(ev), LastTurn(ev, j), ev[j] = "answer"
      PROVE  Prepared(f, c, Len(ev) + 1)
  <2>1. j \in 1 .. Len(f) /\ j < Len(ev) + 1 /\ f[j] = "answer"
    BY <1>2, <1>5
  <2>2. \A k \in 1 .. Len(f) : j < k /\ k < Len(ev) + 1 => f[k] \notin Turns
    BY <1>2, <1>3, <1>5 DEF LastTurn
  <2> QED BY <2>1, <2>2 DEF Prepared
<1> QED BY <1>1, <1>4, <1>5 DEF Due

\* What was prepared stays so when an event is handled: an answer makes the call, and
\* what is no turn keeps it.
LEMMA PreparedTaken ==
    ASSUME NEW ev \in Seq(Event), ev # <<>>, NEW c \in BOOLEAN, NEW d \in BOOLEAN,
           Head(ev) = "answer" => d, Head(ev) \notin Turns => (c => d),
           NEW i \in 1 .. Len(Tail(ev)), Prepared(ev, c, i + 1)
    PROVE  Prepared(Tail(ev), d, i)
<1>1. PICK f : f = Tail(ev)
  OBVIOUS
<1>2. /\ f \in Seq(Event) /\ Len(ev) \in Nat /\ Len(ev) >= 1
      /\ Len(f) = Len(ev) - 1 /\ Head(ev) = ev[1]
      /\ \A j \in 1 .. Len(f) : j + 1 \in 1 .. Len(ev) /\ f[j] = ev[j + 1]
  BY <1>1
<1>3. i \in 1 .. Len(f) /\ 1 \in 1 .. Len(ev)
  BY <1>1, <1>2
<1>4. CASE c /\ \A j \in 1 .. Len(ev) : j < i + 1 => ev[j] \notin Turns
  <2>1. d
    BY <1>2, <1>3, <1>4
  <2>2. \A j \in 1 .. Len(f) : j < i => f[j] \notin Turns
    BY <1>2, <1>3, <1>4
  <2> QED BY <1>1, <2>1, <2>2 DEF Prepared
<1>5. ASSUME NEW j \in 1 .. Len(ev), j < i + 1, ev[j] = "answer",
             \A k \in 1 .. Len(ev) : j < k /\ k < i + 1 => ev[k] \notin Turns
      PROVE  Prepared(f, d, i)
  <2>1. CASE j = 1
    <3>1. d
      BY <1>2, <1>5, <2>1
    <3>2. \A k \in 1 .. Len(f) : k < i => f[k] \notin Turns
      BY <1>2, <1>3, <1>5, <2>1
    <3> QED BY <3>1, <3>2 DEF Prepared
  <2>2. CASE j # 1
    <3>1. j - 1 \in 1 .. Len(f) /\ j - 1 < i /\ f[j - 1] = "answer"
      BY <1>2, <1>3, <1>5, <2>2
    <3>2. \A k \in 1 .. Len(f) : j - 1 < k /\ k < i => f[k] \notin Turns
      BY <1>2, <1>3, <1>5, <2>2
    <3> QED BY <3>1, <3>2 DEF Prepared
  <2> QED BY <2>1, <2>2
<1> QED BY <1>1, <1>4, <1>5 DEF Prepared

\* Two events that are not both turns swap: what was prepared stays so.
LEMMA PreparedSwapped ==
    ASSUME events \in Seq(Event), NEW i \in 1 .. Len(events) - 1,
           events' = [events EXCEPT ![i] = events[i + 1], ![i + 1] = events[i]],
           ~({events[i], events[i + 1]} \subseteq Turns), NEW c,
           \A k \in 1 .. Len(events) : events[k] = "hangup" => Prepared(events, c, k),
           NEW j \in 1 .. Len(events'), events'[j] = "hangup"
    PROVE  Prepared(events', c, j)
<1> DEFINE at(k) == IF k = i THEN i + 1 ELSE IF k = i + 1 THEN i ELSE k
<1>1. /\ Len(events) \in Nat /\ Len(events') = Len(events)
      /\ i \in 1 .. Len(events) /\ i + 1 \in 1 .. Len(events)
      /\ events'[i] = events[i + 1] /\ events'[i + 1] = events[i]
      /\ \A k \in 1 .. Len(events) \ {i, i + 1} : events'[k] = events[k]
  BY Swapped
<1>2. \A k \in 1 .. Len(events) :
          /\ at(k) \in 1 .. Len(events) /\ at(at(k)) = k
          /\ events'[k] = events[at(k)] /\ events[k] = events'[at(k)]
  BY <1>1
<1>3. \A k, n \in 1 .. Len(events) :
          k < n /\ ~(k = i /\ n = i + 1) => at(k) < at(n)
  BY <1>1
<1>4. events[i] \notin Turns \/ events[i + 1] \notin Turns
  OBVIOUS
<1>5. i \in Int /\ \A k \in 1 .. Len(events) : k \in Int
  BY <1>1
<1> HIDE DEF at
<1>6. \A k, n \in 1 .. Len(events) :
          k < n /\ events'[k] \in Turns /\ events'[n] \in Turns => at(k) < at(n)
  BY <1>1, <1>3, <1>4
<1>7. \A k, n \in 1 .. Len(events) :
          k < n /\ events[k] \in Turns /\ events[n] \in Turns => at(k) < at(n)
  BY <1>3, <1>4
<1>8. at(j) \in 1 .. Len(events) /\ events[at(j)] = "hangup" /\ "hangup" \in Turns
      /\ j \in 1 .. Len(events) /\ at(at(j)) = j
  BY <1>1, <1>2 DEF Turns
<1>9. Prepared(events, c, at(j))
  BY <1>8
<1>10. CASE c /\ \A k \in 1 .. Len(events) : k < at(j) => events[k] \notin Turns
  <2>1. \A k \in 1 .. Len(events') : k < j => events'[k] \notin Turns
    BY <1>1, <1>2, <1>6, <1>8, <1>10
  <2> QED BY <1>10, <2>1 DEF Prepared
<1>11. ASSUME NEW m \in 1 .. Len(events), m < at(j), events[m] = "answer",
              \A k \in 1 .. Len(events) : m < k /\ k < at(j) => events[k] \notin Turns
       PROVE  Prepared(events', c, j)
  <2>1. "answer" \in Turns
    BY DEF Turns
  <2>2. at(m) \in 1 .. Len(events) /\ events'[at(m)] = "answer" /\ at(at(m)) = m
    BY <1>2, <1>11
  <2>3. at(m) < j
    BY <1>7, <1>8, <1>11, <2>1
  <2>4. ASSUME NEW k \in 1 .. Len(events), at(m) < k, k < j, events'[k] \in Turns
        PROVE  FALSE
    <3>1. m < at(k) /\ at(k) < at(j)
      BY <1>6, <1>8, <2>1, <2>2, <2>4
    <3> QED BY <1>2, <1>11, <2>4, <3>1
  <2> QED BY <1>1, <2>2, <2>3, <2>4 DEF Prepared
<1> QED BY <1>9, <1>10, <1>11 DEF Prepared

\* Without a mishap no step crashes, and only a hangup ends the call.
LEMMA CallKept ==
    ASSUME TypeOK, ForNumber, Ready, Next, mishaps' = {}
    PROVE  /\ ~media'.crashed
           /\ HandleAnswer => media'.call
           /\ media.call /\ ~HandleHangup => media'.call
<1>1. Typed(media) /\ dest \in {"plain", "conf"} /\ events \in Seq(Event)
  BY TypedMedia DEF TypeOK
<1>2. ~media.crashed
  BY Lives
<1>3. Clean(media) /\ Proper(media)
  BY DEF ForNumber, Proper
<1>4. CASE HandleAnswer
  BY <1>1, <1>2, <1>3, <1>4, StartAudioFacts DEF HandleAnswer
<1>5. ASSUME HandleHangup PROVE ~media'.crashed
  <2>1. CASE dest = "plain"
    BY <1>2, <1>3, <1>5, <2>1, HangupLeaves
  <2>2. CASE dest = "conf"
    <3>1. events # <<>> /\ Head(events) = "hangup" /\ receivers # 2
      BY <1>5, <2>2 DEF HandleHangup, Take
    <3>2. receivers = 1
      BY <3>1 DEF TypeOK
    <3>3. Len(events) \in Nat /\ Len(events) >= 1 /\ events[1] = "hangup"
      BY <1>1, <3>1, Taken
    <3>4. Prepared(events, media.call, 1)
      BY <3>3 DEF Ready
    <3>5. \A j \in 1 .. Len(events) : ~(j < 1)
      BY <3>3
    <3>6. media.call
      BY <3>4, <3>5 DEF Prepared
    <3> QED BY <1>2, <1>3, <1>5, <3>2, <3>6, HangupLeaves
  <2> QED BY <1>1, <2>1, <2>2
<1>6. ASSUME InCall PROVE media.call
  <2>1. NoTurn(events) /\ Answered
    BY <1>6 DEF InCall, NoTurn, Answered, Turns
  <2> QED BY <2>1 DEF Ready
<1>7. ASSUME NEW camera \in BOOLEAN, OpenVideo(camera)
      PROVE  ~media'.crashed /\ media'.call
  <2>1. PICK n : n = CreateLocalRender(media, camera)
    OBVIOUS
  <2>2. PICK o : o = StartAudio(n)
    OBVIOUS
  <2>3. PICK q : q = StartVideo(o)
    OBVIOUS
  <2>4. camera
    BY <1>7 DEF OpenVideo, Opened
  <2>5. Typed(n) /\ Clean(n) /\ ~n.crashed
    BY <1>1, <1>2, <1>3, <2>1, <2>4, LocalRenderFacts, OnlyTyped
  <2>6. Typed(o) /\ Clean(o) /\ ~o.crashed /\ o.call
    BY <2>2, <2>5, StartAudioFacts, OnlyTyped
  <2>7. Typed(q) /\ ~q.crashed /\ q.call
    BY <2>3, <2>6, StartVideoFacts, OnlyTyped
  <2>8. media' = Capture(q, "on")
    BY <1>7, <2>1, <2>2, <2>3 DEF OpenVideo
  <2> QED BY <2>7, <2>8, CaptureFacts
<1>8. ASSUME OpenConf PROVE ~media'.crashed /\ media'.call
  <2>1. PICK n : n = StartConfVideo(media)
    OBVIOUS
  <2>2. media.call
    BY <1>6, <1>8 DEF OpenConf, Opened
  <2>3. Typed(n) /\ ~n.crashed /\ n.call
    BY <1>1, <1>2, <1>3, <2>1, <2>2, StartConfFacts, OnlyTyped
  <2>4. media' = Capture(n, "on")
    BY <1>8, <2>1 DEF OpenConf
  <2> QED BY <2>3, <2>4, CaptureFacts
<1>9. ASSUME NEW how \in {"on", "off"}, SwitchCapture(how)
      PROVE  ~media'.crashed /\ (media.call => media'.call)
  BY <1>1, <1>2, <1>9, CaptureFacts DEF SwitchCapture
<1>10. ASSUME BackToAudio PROVE ~media'.crashed /\ (media.call => media'.call)
  <2>1. PICK n : n = Capture(media, "off")
    OBVIOUS
  <2>2. Typed(n) /\ Clean(n) /\ ~n.crashed /\ n.call = media.call
    BY <1>1, <1>2, <1>3, <2>1, CaptureFacts, OnlyTyped
  <2>3. media' = StopVideo(n)
    BY <1>10, <2>1 DEF BackToAudio
  <2> QED BY <2>2, <2>3, StopVideoFacts
<1>11. ASSUME PacketDelivered PROVE media' = media
  BY <1>11 DEF PacketDelivered, Use
<1>12. HandleAnswer => ~HandleHangup
  BY DEF HandleAnswer, HandleHangup, Take
<1> QED
  BY <1>2, <1>4, <1>5, <1>7, <1>8, <1>9, <1>10, <1>11, <1>12, MediaSteps

\* Without a mishap every hangup finds its call.
LEMMA CallStep ==
    ASSUME IInv, Next
    PROVE  CallInv'
<1> SUFFICES ASSUME mishaps' = {} PROVE CallInv'
  BY DEF CallInv
<1>1. Shape /\ ~media.crashed /\ ForNumber /\ Ready /\ TypeOK
  BY Shapes, Now, Lives DEF IInv
<1>2. /\ lines \in [Line -> {"free", "in", "out", "answered"}]
      /\ events \in Seq(Event) /\ media.call \in BOOLEAN /\ Hearing(media) \in BOOLEAN
  BY <1>1 DEF TypeOK, Media, Hearing
<1>3. /\ ~media'.crashed
      /\ HandleAnswer => media'.call
      /\ media.call /\ ~HandleHangup => media'.call
  BY <1>1, CallKept
<1>4. media'.call \in BOOLEAN
  BY <1>1, MediaTyped DEF Typed, Media
<1>5. /\ NoTurn(events) /\ Answered => media.call
      /\ \A i \in 1 .. Len(events) : events[i] = "hangup" => Prepared(events, media.call, i)
      /\ Due(events, Hearing(media), Answered)
  BY <1>1, Now DEF Ready
<1>6. SUFFICES /\ NoTurn(events') /\ Answered' => media'.call
               /\ \A i \in 1 .. Len(events') :
                     events'[i] = "hangup" => Prepared(events', media'.call, i)
  BY <1>3 DEF CallInv, Ready
<1>7. ASSUME NEW l \in Line, NEW e \in Event, events' = Append(events, e), media' = media,
             \/ e = "new" /\ lines[l] = "free" /\ lines' = [lines EXCEPT ![l] = "in"]
             \/ e = "answer"
             \/ e = "transfer" /\ lines' = lines
             \/ e \in Ends /\ (e = "hangup" <=> lines[l] = "answered")
      PROVE  /\ NoTurn(events') /\ Answered' => media'.call
             /\ \A i \in 1 .. Len(events') :
                   events'[i] = "hangup" => Prepared(events', media'.call, i)
  <2>1. /\ events' \in Seq(Event) /\ Len(events) \in Nat
        /\ Len(events') = Len(events) + 1 /\ events'[Len(events) + 1] = e
        /\ \A i \in 1 .. Len(events) : events'[i] = events[i]
    BY <1>2, <1>7, Appended
  <2>2. NoTurn(events') => NoTurn(events) /\ e \notin Turns
    BY <2>1 DEF NoTurn
  <2>3. e \notin Turns /\ Answered' => Answered
    <3>1. ASSUME lines[l] = "free", lines' = [lines EXCEPT ![l] = "in"]
          PROVE  Answered' => Answered
      <4>1. \A k \in Line : lines'[k] = IF k = l THEN "in" ELSE lines[k]
        BY <1>2, <3>1
      <4> QED BY <3>1, <4>1 DEF Answered
    <3> QED BY <1>7, <3>1 DEF Answered, Ends, Turns
  <2>4. ASSUME NEW i \in 1 .. Len(events), events'[i] = "hangup"
        PROVE  Prepared(events', media'.call, i)
    BY <1>2, <1>5, <1>7, <2>1, <2>4, PreparedKept
  <2>5. ASSUME e = "hangup" PROVE Prepared(events', media'.call, Len(events) + 1)
    <3>1. Answered
      BY <1>7, <2>5 DEF Answered, Ends
    <3>2. Due(events, Hearing(media), TRUE)
      BY <1>5, <3>1 DEF Due
    <3> QED BY <1>2, <1>5, <1>7, <3>1, <3>2, PreparedTold
  <2>6. \A i \in 1 .. Len(events') : i \in 1 .. Len(events) \/ i = Len(events) + 1
    BY <2>1
  <2> QED BY <1>5, <1>7, <2>1, <2>2, <2>3, <2>4, <2>5, <2>6
<1>8. ASSUME lines' = lines, HandleNew \/ HandleAnswer \/ HandleTransfer \/ HandleHangup
      PROVE  /\ NoTurn(events') /\ Answered' => media'.call
             /\ \A i \in 1 .. Len(events') :
                   events'[i] = "hangup" => Prepared(events', media'.call, i)
  <2>1. events # <<>> /\ events' = Tail(events)
    BY <1>8 DEF HandleNew, HandleAnswer, HandleTransfer, HandleHangup, Take
  <2>2. /\ Len(events) \in Nat /\ Len(events) >= 1
        /\ Len(events') = Len(events) - 1 /\ Head(events) = events[1]
        /\ \A i \in 1 .. Len(events') : events'[i] = events[i + 1]
    BY <1>2, <2>1, Taken
  <2>3. /\ HandleHangup => Head(events) \in Turns /\ Head(events) # "answer"
        /\ HandleAnswer <=> Head(events) = "answer"
    BY <1>8 DEF HandleNew, HandleAnswer, HandleTransfer, HandleHangup, Take, Turns
  <2>4. ASSUME NoTurn(events'), Answered' PROVE media'.call
    <3>1. Answered
      BY <1>8, <2>4 DEF Answered
    <3>2. CASE HandleHangup
      <4>1. PICK i \in 1 .. Len(events) : LastTurn(events, i) /\ events[i] = "answer"
        <5>1. ~NoTurn(events)
          BY <2>2, <2>3, <3>2 DEF NoTurn
        <5> QED BY <1>5, <3>1, <5>1 DEF Due
      <4>2. i # 1
        BY <2>2, <2>3, <3>2, <4>1
      <4>3. i - 1 \in 1 .. Len(events') /\ events'[i - 1] = events[i]
        BY <2>2, <4>2
      <4> QED BY <2>4, <4>1, <4>3 DEF NoTurn, LastTurn
    <3>3. CASE HandleAnswer
      BY <1>3, <3>3
    <3>4. CASE ~HandleHangup /\ ~HandleAnswer
      <4>1. Head(events) \notin Turns
        BY <1>8, <3>4 DEF HandleNew, HandleTransfer, Take, Turns
      <4>2. \A i \in 1 .. Len(events) : i = 1 \/ i - 1 \in 1 .. Len(events')
        BY <2>2
      <4>3. \A i \in 1 .. Len(events) : i # 1 => events[i] = events'[i - 1]
        BY <2>2
      <4>4. NoTurn(events)
        BY <2>2, <2>4, <4>1, <4>2, <4>3 DEF NoTurn
      <4> QED BY <1>3, <1>5, <3>1, <3>4, <4>4
    <3> QED BY <3>2, <3>3, <3>4
  <2>5. ASSUME NEW i \in 1 .. Len(events'), events'[i] = "hangup"
        PROVE  Prepared(events', media'.call, i)
    <3>1. i + 1 \in 1 .. Len(events) /\ events[i + 1] = "hangup"
      BY <2>2, <2>5
    <3>2. Prepared(events, media.call, i + 1)
      BY <1>5, <3>1
    <3>3. /\ Head(events) = "answer" => media'.call
          /\ Head(events) \notin Turns => (media.call => media'.call)
      BY <1>3, <2>3
    <3>4. i \in 1 .. Len(Tail(events))
      BY <2>1
    <3> QED BY <1>2, <1>4, <2>1, <3>2, <3>3, <3>4, PreparedTaken
  <2> QED BY <2>4, <2>5
<1>9. ASSUME events' = events, Answered' => Answered, ~HandleHangup
      PROVE  /\ NoTurn(events') /\ Answered' => media'.call
             /\ \A i \in 1 .. Len(events') :
                   events'[i] = "hangup" => Prepared(events', media'.call, i)
  <2>1. media.call => media'.call
    BY <1>3, <1>9
  <2>2. \A i \in 1 .. Len(events) :
            Prepared(events, media.call, i) => Prepared(events, media'.call, i)
    BY <2>1 DEF Prepared
  <2> QED BY <1>5, <1>9, <2>1, <2>2
<1>10. HandleHangup => events' # events
  <2>1. ASSUME events # <<>>, events' = Tail(events) PROVE events' # events
    <3>1. Len(events') = Len(events) - 1 /\ Len(events) \in Nat
      BY <1>2, <2>1, Taken
    <3> QED BY <3>1
  <2> QED BY <2>1 DEF HandleHangup, Take
<1>11. CASE lines' = lines /\ events' = events
  BY <1>9, <1>10, <1>11 DEF Answered
<1>12. ASSUME NEW l \in Line, events' = events, lines[l] = "free",
              lines' = [lines EXCEPT ![l] = "out"]
       PROVE  /\ NoTurn(events') /\ Answered' => media'.call
              /\ \A i \in 1 .. Len(events') :
                    events'[i] = "hangup" => Prepared(events', media'.call, i)
  <2>1. \A k \in Line : lines'[k] = IF k = l THEN "out" ELSE lines[k]
    BY <1>2, <1>12
  <2>2. Answered' => Answered
    BY <1>12, <2>1 DEF Answered
  <2> QED BY <1>9, <1>10, <1>12, <2>2
<1>13. ASSUME NEW i \in 1 .. Len(events) - 1, Overtakes(i)
       PROVE  /\ NoTurn(events') /\ Answered' => media'.call
              /\ \A j \in 1 .. Len(events') :
                    events'[j] = "hangup" => Prepared(events', media'.call, j)
  <2>1. /\ events' = [events EXCEPT ![i] = events[i + 1], ![i + 1] = events[i]]
        /\ lines' = lines /\ ~({events[i], events[i + 1]} \subseteq Turns) /\ media' = media
    BY <1>13 DEF Overtakes
  <2>2. NoTurn(events') => NoTurn(events)
    BY <1>2, <2>1, SwapTurns
  <2>3. ASSUME NEW j \in 1 .. Len(events'), events'[j] = "hangup"
        PROVE  Prepared(events', media'.call, j)
    BY <1>2, <1>5, <2>1, <2>3, PreparedSwapped
  <2> QED BY <1>5, <2>1, <2>2, <2>3 DEF Answered
<1> QED BY <1>1, <1>7, <1>8, <1>11, <1>12, <1>13 DEF Shape

\* A call that is no conference needs no call to be there.
LEMMA PlainStep ==
    ASSUME IInv, Next
    PROVE  PlainInv'
<1> SUFFICES ASSUME dest' = "plain", mishaps' \cap AnyNumber = {}
             PROVE  ~media'.crashed
  BY DEF PlainInv
<1>1. Typed(media) /\ ~media.crashed /\ ForNumber
  BY TypedMedia, Lives, Now DEF IInv, AnyNumber
<1>2. Clean(media) /\ Proper(media)
  BY <1>1 DEF ForNumber, Proper
<1>3. CASE media' = media
  BY <1>1, <1>3
<1>4. CASE HandleAnswer
  BY <1>1, <1>2, <1>4, StartAudioFacts DEF HandleAnswer
<1>5. CASE HandleHangup
  BY <1>1, <1>2, <1>5, HangupLeaves DEF IInv, HandleHangup, Take
<1>6. ASSUME NEW camera \in BOOLEAN, OpenVideo(camera)
      PROVE  ~media'.crashed
  <2>1. PICK n : n = CreateLocalRender(media, camera)
    OBVIOUS
  <2>2. PICK o : o = StartAudio(n)
    OBVIOUS
  <2>3. PICK q : q = StartVideo(o)
    OBVIOUS
  <2>4. camera
    BY <1>6 DEF OpenVideo, Opened, AnyNumber
  <2>5. Typed(n) /\ Clean(n) /\ ~n.crashed
    BY <1>1, <1>2, <2>1, <2>4, LocalRenderFacts, OnlyTyped
  <2>6. Typed(o) /\ Clean(o) /\ ~o.crashed /\ o.call
    BY <2>2, <2>5, StartAudioFacts, OnlyTyped
  <2>7. Typed(q) /\ ~q.crashed /\ q.call
    BY <2>3, <2>6, StartVideoFacts, OnlyTyped
  <2>8. media' = Capture(q, "on")
    BY <1>6, <2>1, <2>2, <2>3 DEF OpenVideo
  <2> QED BY <2>7, <2>8, CaptureFacts
<1>7. ~OpenConf
  BY <1>1 DEF OpenConf, Opened, ForNumber, Own
<1>8. ASSUME NEW how \in {"on", "off"}, SwitchCapture(how)
      PROVE  ~media'.crashed
  BY <1>1, <1>8, CaptureFacts DEF SwitchCapture
<1>9. CASE BackToAudio
  <2>1. PICK n : n = Capture(media, "off")
    OBVIOUS
  <2>2. Typed(n) /\ Clean(n) /\ ~n.crashed /\ n.call = media.call
    BY <1>1, <1>2, <2>1, CaptureFacts, OnlyTyped
  <2>3. media' = StopVideo(n)
    BY <1>9, <2>1 DEF BackToAudio
  <2> QED BY <2>2, <2>3, StopVideoFacts
<1>10. PacketDelivered => media' = media
  BY DEF PacketDelivered, Use, AnyNumber
<1> QED BY <1>3, <1>4, <1>5, <1>6, <1>7, <1>8, <1>9, <1>10, MediaSteps

-----------------------------------------------------------------------------
(* The invariant *)

\* Nothing has happened yet.
LEMMA InitInv == Init => IInv
<1> SUFFICES ASSUME Init PROVE IInv
  OBVIOUS
<1>1. events = <<>> /\ Len(events) = 0 /\ lines = [l \in Line |-> "free"] /\ media = NoMedia
  BY DEF Init
<1>2. /\ \A l \in Line : lines[l] = "free"
      /\ ~AnyBusy /\ ~Answered /\ NoTurn(events) /\ OneInv
  BY <1>1 DEF AnyBusy, Answered, Busy, NoTurn, OneInv, OneLine
<1>3. /\ NoMedia \in Media /\ NoMedia.running = {} /\ ~NoMedia.crashed
      /\ \A s \in Stream : NoMedia.of[s] = "null"
  BY DEF NoMedia, Media
<1>4. TypeOK
  BY <1>1, <1>3, MaxEventsAssumption DEF Init, TypeOK, Activity, Mishap
<1>5. IdleInv /\ GoneInv
  BY <1>1 DEF Init, IdleInv, GoneInv
<1>6. NumberInv
  BY <1>1, <1>3 DEF Init, NumberInv, ForNumber, Clean, Foreign, Stream
<1>7. AudioInv
  BY <1>1, <1>2, <1>3 DEF AudioInv, Due, Hearing, Audio
<1>8. CallInv
  BY <1>1, <1>2, <1>3 DEF CallInv, Ready
<1>9. PlainInv
  BY <1>1, <1>3 DEF PlainInv
<1> QED BY <1>2, <1>4, <1>5, <1>6, <1>7, <1>8, <1>9 DEF IInv

\* Every step keeps it.
LEMMA NextInv == IInv /\ Next => IInv'
BY TypeStep, IdleStep, NumberStep, GoneStep, OneStep, AudioStep, CallStep, PlainStep DEF IInv

\* Nothing changes when nothing happens.
LEMMA StutterInv == IInv /\ UNCHANGED vars => IInv'
<1> SUFFICES ASSUME IInv, UNCHANGED vars PROVE IInv'
  OBVIOUS
<1>1. /\ lines' = lines /\ events' = events /\ media' = media /\ mishaps' = mishaps
      /\ mode' = mode /\ buttons' = buttons /\ dest' = dest /\ opening' = opening
      /\ open' = open /\ receivers' = receivers /\ packet' = packet
  BY DEF vars, ui
<1>2. (AnyBusy' <=> AnyBusy) /\ (Answered' <=> Answered)
  BY <1>1 DEF AnyBusy, Answered, Busy
<1>3. Own' = Own /\ Foreign' = Foreign
  BY <1>1 DEF Own, Foreign
<1>4. TypeOK'
  BY <1>1 DEF IInv, TypeOK
<1>5. IdleInv' /\ GoneInv'
  BY <1>1, <1>2 DEF IInv, IdleInv, GoneInv, LastTurn, NoTurn
<1>6. NumberInv'
  BY <1>1, <1>3 DEF IInv, NumberInv, ForNumber, Clean
<1>7. OneInv'
  BY <1>1 DEF IInv, OneInv, OneLine, Busy
<1>8. AudioInv'
  BY <1>1, <1>2 DEF IInv, AudioInv, Due
<1>9. CallInv'
  BY <1>1, <1>2 DEF IInv, CallInv, Ready
<1>10. PlainInv'
  BY <1>1 DEF IInv, PlainInv
<1> QED BY <1>4, <1>5, <1>6, <1>7, <1>8, <1>9, <1>10 DEF IInv

\* The invariant holds for any number of lines and of events that wait.
THEOREM InductiveInvariant == Spec => []IInv
<1>1. Init => IInv
  BY InitInv
<1>2. IInv /\ [Next]_vars => IInv'
  BY NextInv, StutterInv
<1> QED BY <1>1, <1>2, PTL DEF Spec

\* The globals of wtk_rtc_api.cc and what MainActivity keeps have their types, and what
\* runs exists.
THEOREM TypeCorrect == Spec => []TypeOK
<1>1. IInv => TypeOK
  BY DEF IInv
<1> QED BY <1>1, InductiveInvariant, PTL

\* No stream outlives the WebRTC call it was made from, in whatever order calls are
\* answered, overlap and end and their events arrive, unless the number was changed while
\* it mattered.
THEOREM StreamsBelong == Spec => []StreamsBelongToTheCall
<1>1. IInv => StreamsBelongToTheCall
  BY DEF IInv, NumberInv, ForNumber, Clean, StreamsBelongToTheCall
<1> QED BY <1>1, InductiveInvariant, PTL

\* No handler reaches for a call, a stream or a camera that is not there, unless there
\* is no camera, the number was changed while it mattered, or a packet came late; or, with
\* the number of a conference, one of the other mishaps has happened since the last rest.
THEOREM CrashExplained == Spec => []CrashIsExplained
<1>1. IInv => CrashIsExplained
  <2> SUFFICES ASSUME IInv, media.crashed, mishaps \cap AnyNumber = {}
               PROVE  /\ dest = "conf"
                      /\ mishaps \cap {"overlap", "outside", "unanswered", "twice",
                                      "overtaken"} # {}
    BY DEF CrashIsExplained, AnyNumber
  <2>1. dest = "conf"
    BY DEF IInv, PlainInv, TypeOK
  <2>2. mishaps # {} /\ mishaps \subseteq Mishap
    BY DEF IInv, CallInv, Ready, TypeOK
  <2> QED BY <2>1, <2>2 DEF Mishap, AnyNumber
<1> QED BY <1>1, InductiveInvariant, PTL

\* When the application has seen all events, it hears and is heard exactly if a call is
\* answered, unless two calls overlap, an activity came up outside a call, or an answer
\* and an end were seen in the wrong order; any other events may overtake each other.
THEOREM AudioFollows == Spec => []AudioFollowsTheCall
<1>1. IInv => AudioFollowsTheCall
  <2> SUFFICES ASSUME IInv, ~media.crashed, events = <<>>,
                      mishaps \cap {"overlap", "outside", "overtaken"} = {}
               PROVE  Hearing(media) <=> Answered
    BY DEF AudioFollowsTheCall, Hearing, Audio, Answered
  <2>1. Due(events, Hearing(media), Answered)
    BY DEF IInv, AudioInv
  <2>2. \A i \in 1 .. Len(events) : FALSE
    OBVIOUS
  <2> QED BY <2>1, <2>2 DEF Due
<1> QED BY <1>1, InductiveInvariant, PTL

\* When the application has seen the last call end, no camera, microphone or stream is
\* left behind it, unless an activity came up outside a call, the number was changed, or
\* an answer and an end were seen in the wrong order.
THEOREM NothingOutlives == Spec => []NothingOutlivesTheCall
<1>1. IInv => NothingOutlivesTheCall
  <2>1. events = <<>> => NoTurn(events)
    BY DEF NoTurn
  <2> QED BY <2>1 DEF IInv, GoneInv, NothingOutlivesTheCall, Settled, AnyBusy
<1> QED BY <1>1, InductiveInvariant, PTL

=============================================================================
