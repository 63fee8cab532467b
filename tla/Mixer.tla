--------------------------------- MODULE Mixer ---------------------------------
(***************************************************************************)
(* The audio of one room of the conference server: the process's main      *)
(* thread sets a channel up for each member (wtk-mixer.c and               *)
(* libwtk_mixer_setup_mixer), and each channel's audio device has a thread *)
(* (FakeAudioCaptureModule) that every 10 ms decodes what its member has   *)
(* sent and encodes a frame for it.  The thread of channel 0 also mixes,   *)
(* without its own source, one frame for all channels.                     *)
(*                                                                         *)
(* None of this is locked, except inside of WebRTC's mixer: threads start  *)
(* while a channel is being set up, and run on when the room has ended.    *)
(*                                                                         *)
(* A member is named by its channel.  Its audio is numbered: a frame is    *)
(* the number of the last packet heard in it, Silence before the first     *)
(* one, or Garbage, what the buffer of a new source holds.                 *)
(***************************************************************************)
EXTENDS Integers, Sequences, FiniteSets

CONSTANTS
    MaxMembers,         \* bound: addresses that audio comes from in one room
    MaxParticipant,     \* MAX_PARTICIPANT, the size of the arrays
    MaxPackets          \* bound: audio packets of one member

ASSUME MixerAssumption == {MaxMembers, MaxParticipant, MaxPackets} \subseteq Nat \ {0}

VARIABLES
    main,           \* the main thread: "select", a step of setup_mixer, "over", "exited"
    channel,        \* the static counter: the channel of the next member
    p_chi,          \* channels in the list of members
    mixer,          \* g_mixer_audio_mixer is not null
    call,           \* channels with a g_mixer_call
    source,         \* how often the source of each channel is in the mixer
    recording, playing,     \* channels whose device records, plays
    arrived,        \* the last packet of each member
    tick,           \* the thread of each channel
    audio_data,     \* of each source
    mixed,          \* mixed_audio_frame: the audio of each channel in it
    send_buffer,    \* of each device
    crashed

mixerVars == <<main, channel, p_chi, mixer, call, source, recording, playing, arrived, tick,
               audio_data, mixed, send_buffer, crashed>>

device == <<call, recording, playing>>
audio == <<audio_data, mixed, send_buffer>>

Channel == 0 .. MaxMembers - 1

Silence == 0
Garbage == -1
Absent == -2
Audio == {Garbage, Silence} \cup 1 .. MaxPackets
Frame == [Channel -> Audio \cup {Absent}]

Nobody == [c \in Channel |-> Absent]

Runs == ~crashed /\ main # "exited"

-----------------------------------------------------------------------------
(* The main thread *)

\* mutant: the source is added after the streams have been started
AddedLast == <<"select", "link", "create", "send", "receive", "add", "deliver">>

\* The order in which a new member is listed and its channel is set up
Order == <<"select", "link", "create", "add", "send", "receive", "deliver">>

Follows(step) ==
    LET i == CHOOSE j \in 1 .. Len(Order) : Order[j] = step
    IN  Order[(i % Len(Order)) + 1]

Step(step) == Runs /\ main = step /\ main' = Follows(step)

\* Audio from an address that is not known
NewMember ==
    /\ Step("select")
    /\ channel < MaxMembers
    /\ UNCHANGED <<channel, p_chi, mixer, source, device, arrived, tick, audio, crashed>>

Link ==
    /\ Step("link")
    /\ p_chi' = p_chi \cup {channel}
    /\ UNCHANGED <<channel, mixer, source, device, arrived, tick, audio, crashed>>

\* g_mixer_call[channel] and its streams. Beyond the arrays the process is taken to end.
Create ==
    /\ Step("create")
    /\ IF channel < MaxParticipant THEN call' = call \cup {channel} /\ UNCHANGED crashed
                                   ELSE crashed' = TRUE /\ UNCHANGED call
    /\ UNCHANGED <<channel, p_chi, mixer, source, recording, playing, arrived, tick, audio>>

\* SetSink and AddSource for a new source, whose buffer nobody has written yet
AddSource ==
    /\ Step("add")
    /\ source' = [source EXCEPT ![channel] = @ + 1]
    /\ UNCHANGED <<channel, p_chi, mixer, device, arrived, tick, audio, crashed>>

\* The send stream makes the device record, which starts the channel's thread.
StartSend ==
    /\ Step("send")
    /\ recording' = recording \cup {channel}
    /\ UNCHANGED <<channel, p_chi, mixer, call, source, playing, arrived, tick, audio,
                   crashed>>

StartReceive ==
    /\ Step("receive")
    /\ playing' = playing \cup {channel}
    /\ UNCHANGED <<channel, p_chi, mixer, call, source, recording, arrived, tick, audio,
                   crashed>>

Delivered(c) == arrived' = [arrived EXCEPT ![c] = @ + 1]

CountedTwice(n) == n + 2    \* mutant: setup_mixer counts the channel, too

NextChannel(n) == n + 1

\* The packet that the member came with
Deliver ==
    /\ Step("deliver")
    /\ Delivered(channel)
    /\ channel' = NextChannel(channel)
    /\ UNCHANGED <<p_chi, mixer, source, device, tick, audio, crashed>>

\* Audio of a member: libwtk_mixer_decode_audio
Packet(c) ==
    /\ Runs /\ main = "select" /\ c \in p_chi \cap call /\ arrived[c] < MaxPackets
    /\ Delivered(c)
    /\ UNCHANGED <<main, channel, p_chi, mixer, source, device, tick, audio, crashed>>

\* HUPCNF or the receive timeout: libwtk_mixer_deinit
Deinit ==
    /\ Runs /\ main = "select"
    /\ main' = "over"
    /\ mixer' = FALSE
    /\ UNCHANGED <<channel, p_chi, source, device, arrived, tick, audio, crashed>>

Exit ==
    /\ Runs /\ main = "over"
    /\ main' = "exited"
    /\ UNCHANGED <<channel, p_chi, mixer, source, device, arrived, tick, audio, crashed>>

-----------------------------------------------------------------------------
(* The thread of a channel: ProcessFrameP *)

EveryChannel(c) == TRUE     \* mutant: no test for channel 0

Mixes(c) == c = 0

\* ReceiveFrameP: the newest audio of the member is decoded, OnData takes it.
Decode(c) ==
    /\ Runs /\ tick[c] = "wait" /\ c \in playing
    /\ audio_data' = [audio_data EXCEPT ![c] = arrived[c]]
    /\ tick' = [tick EXCEPT ![c] = IF Mixes(c) THEN "remove" ELSE "send"]
    /\ UNCHANGED <<main, channel, p_chi, mixer, source, device, arrived, mixed, send_buffer,
                   crashed>>

\* g_mixer_audio_mixer is dereferenced: after the room has ended, it is null.
Calls(c, from, to) ==
    /\ Runs /\ tick[c] = from
    /\ crashed' = ~mixer
    /\ tick' = [tick EXCEPT ![c] = IF mixer THEN to ELSE @]
    /\ UNCHANGED <<main, channel, p_chi, mixer, device, arrived, audio_data, send_buffer>>

TakenOut(n) == IF n = 0 THEN 0 ELSE n - 1

RemoveOwn(c) ==
    /\ Calls(c, "remove", "mix")
    /\ source' = IF mixer THEN [source EXCEPT ![c] = TakenOut(@)] ELSE source
    /\ UNCHANGED mixed

Mix(c) ==
    /\ Calls(c, "mix", "add")
    /\ mixed' = IF mixer
                THEN [d \in Channel |-> IF source[d] > 0 THEN audio_data[d] ELSE Absent]
                ELSE mixed
    /\ UNCHANGED source

AddOwn(c) ==
    /\ Calls(c, "add", "send")
    /\ source' = IF mixer THEN [source EXCEPT ![c] = @ + 1] ELSE source
    /\ UNCHANGED mixed

\* mutant: only the channel that mixes takes the mixed frame
CopiedByMixer(c) == IF c = 0 THEN mixed ELSE send_buffer[c]

\* SpeakerVolume
Copied(c) == IF c \in playing THEN mixed ELSE send_buffer[c]

\* The mixed frame becomes what the device records, and SendFrameP sends it; a device that
\* does not play yet sends what is in the buffer.
Send(c) ==
    /\ Runs /\ c \in recording
    /\ tick[c] = "send" \/ (tick[c] = "wait" /\ c \notin playing)
    /\ send_buffer' = [send_buffer EXCEPT ![c] = Copied(c)]
    /\ tick' = [tick EXCEPT ![c] = "wait"]
    /\ UNCHANGED <<main, channel, p_chi, mixer, source, device, arrived, audio_data, mixed,
                   crashed>>

-----------------------------------------------------------------------------

\* start_meetme has called libwtk_mixer_init.
MixerInit ==
    /\ main = "select" /\ channel = 0 /\ p_chi = {} /\ mixer = TRUE
    /\ call = {} /\ recording = {} /\ playing = {}
    /\ source = [c \in Channel |-> 0]
    /\ arrived = [c \in Channel |-> 0]
    /\ tick = [c \in Channel |-> "wait"]
    /\ audio_data = [c \in Channel |-> Garbage]
    /\ mixed = Nobody
    /\ send_buffer = [c \in Channel |-> Nobody]
    /\ crashed = FALSE

Setup == Link \/ Create \/ AddSource \/ StartSend \/ StartReceive \/ Deliver

Tick(c) == Decode(c) \/ RemoveOwn(c) \/ Mix(c) \/ AddOwn(c) \/ Send(c)

MixerNext ==
    \/ NewMember \/ Deinit \/ Exit
    \/ Setup
    \/ \E c \in Channel : Packet(c) \/ Tick(c)

MixerSpec == MixerInit /\ [][MixerNext]_mixerVars

\* The main thread does not wait while it sets a channel up; every device has its own
\* thread, which wakes up every 10 ms (kTimePerFrameMs).
MixerFairSpec == MixerSpec /\ WF_mixerVars(Setup) /\ \A c \in Channel : WF_mixerVars(Tick(c))

-----------------------------------------------------------------------------
(* Properties *)

\* Types of the variables.
MixerTypeOK ==
    /\ main \in {"select", "link", "create", "add", "send", "receive", "deliver", "over",
                "exited"}
    /\ channel \in 0 .. MaxMembers
    /\ p_chi \subseteq Channel /\ call \subseteq Channel
    /\ recording \subseteq Channel /\ playing \subseteq Channel
    /\ mixer \in BOOLEAN /\ crashed \in BOOLEAN
    /\ source \in [Channel -> Nat]
    /\ arrived \in [Channel -> 0 .. MaxPackets]
    /\ tick \in [Channel -> {"wait", "remove", "mix", "add", "send"}]
    /\ audio_data \in [Channel -> Audio]
    /\ mixed \in Frame /\ send_buffer \in [Channel -> Frame]

\* The member of channel 0 does not hear itself, whatever the main thread adds while
\* its thread has taken the own source out (start_mix_and_send).
ZeroIsNotMixed == mixed[0] = Absent /\ \A c \in Channel : send_buffer[c][0] = Absent

\* Each channel that is set up is in the mixer once, in spite of the thread that takes
\* its own source out and puts it back in every turn.
SourcesAreMixedOnce ==
    \A c \in Channel :
        /\ source[c] <= 1
        /\ c \in recording /\ source[c] = 0 => tick[c] \in {"mix", "add"}

\* The threads send to members only that they find in the list, which the main thread
\* extends while they run (send_to_audio_channel).
SentToMembers == recording \cup playing \subseteq p_chi \cap call

\* The process ends in the middle of a room only when more addresses have sent audio than
\* the arrays have room for; otherwise at the end, when the mixer is gone and the thread of
\* channel 0 still runs.
CrashIsExplained == crashed => main = "over" \/ Cardinality(p_chi) > MaxParticipant

\* What a member hears of another never gets older, nor does the other disappear.
AudioNeverGoesBack ==
    [][\A c, d \in Channel : send_buffer'[c][d] >= send_buffer[c][d]]_mixerVars

\* The newest audio of every member but the first gets to every member, and the noise of a
\* new source ends.
NewestIsHeard ==
    \A c \in Channel, d \in Channel \ {0} :
        c \in playing /\ d \in playing
            ~> (send_buffer[c][d] = arrived[d] \/ main \in {"over", "exited"} \/ crashed)

=============================================================================
