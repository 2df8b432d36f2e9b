------------------------------ MODULE Playout ------------------------------
(***************************************************************************)
(* How a watched share is heard and seen (client-core media/jitter.rs,     *)
(* share_audio.rs, the playing half of voice.rs and the receiving half of  *)
(* share.rs): the audio worker inserts packets into a JitterBuffer and     *)
(* pulls 10 ms at a time, publishing where playback is; the decoder's      *)
(* thread holds pictures back until the audio has caught up with them.     *)
(* One tick is a pull (PULL); a packet is two (FRAME). Packets are named   *)
(* by their timestamps before wrapping, the buffer sees them wrapped.      *)
(***************************************************************************)
EXTENDS Integers, Sequences, FiniteSets, FiniteSetsExt, SequencesExt

CONSTANTS
    Wrap,          \* timestamps of either clock count modulo this (2^32)
    Stamps,        \* the packets the sharer sends
    Targets,       \* what target() may come to as the jitter estimate moves
    MaxPackets, MaxConcealed, Spare, AccelerateEvery,
    Ratio,         \* video clock ticks to one of the audio clock
    MaxHold,       \* MAX_HOLD, in video ticks
    MaxHeld,       \* MAX_HELD
    Queues,        \* pulls that may be queued at the device
    FirstPicture,  \* the first picture's timestamp
    Gaps,          \* video ticks between two pictures
    MaxPictures    \* bound on the pictures of a behaviour

ASSUME PlayoutAssumption ==
    /\ Wrap \in Nat \ {0} /\ Ratio \in Nat \ {0} /\ Stamps \subseteq Nat
    /\ MaxPackets \in Nat \ {0} /\ MaxHeld \in Nat \ {0}

NoStamp == -1
FullFrame == 2
Unset == 1000

VARIABLES
    jb,        \* the share's JitterBuffer
    target,    \* JitterBuffer::target
    coming,    \* packets on their way; one may stay here for ever
    heard,     \* Playout: the audio reaching the speakers, or NoStamp
    device,    \* whether the output device asks for audio
    held,      \* decoded pictures held back, oldest first
    shown,     \* the picture on screen, or NoStamp
    pictures   \* the last picture decoded, and how many are to come

playoutVars == <<jb, target, coming, heard, device, held, shown, pictures>>

\* timestamp_before, RFC 1982.
TimestampBefore(a, b) == a # b /\ (b - a) % Wrap < Wrap \div 2

Key(packet) == packet % Wrap
FirstKey(packets) == CHOOSE p \in packets : \A q \in packets : Key(p) <= Key(q)
LastKey(packets) == CHOOSE p \in packets : \A q \in packets : Key(p) >= Key(q)
At(packets, key) == {p \in packets : Key(p) = key}

NewJitterBuffer ==
    [packets |-> {}, next |-> NoStamp, playing |-> FALSE, frame |-> 0, pos |-> FullFrame,
     concealed |-> 0, pulls |-> 0, lowest |-> Unset,
     last |-> NoStamp]      \* the packet last decoded since playing began

PlayoutInit ==
    /\ jb = NewJitterBuffer
    /\ target = Min(Targets)
    /\ coming = Stamps
    /\ heard = NoStamp
    /\ device = TRUE
    /\ held = <<>> /\ shown = NoStamp
    /\ pictures = [last |-> NoStamp, left |-> MaxPictures]

-----------------------------------------------------------------------------
(* JitterBuffer.                                                           *)

InsertPacket(j, p) ==
    LET early == \/ j.next = NoStamp
                 \/ j.packets = {}
                 \/ TimestampBefore(Key(p), j.next)
        kept == IF Cardinality(j.packets) >= MaxPackets
                THEN j.packets \ {FirstKey(j.packets)} ELSE j.packets
    IN IF j.playing /\ j.next # NoStamp /\ TimestampBefore(Key(p), j.next) THEN j
       ELSE [j EXCEPT !.next = IF ~j.playing /\ early THEN Key(p) ELSE @,
                      !.packets = kept \cup {p}]

Buffered(j) ==
    LET undecoded == IF \/ j.next = NoStamp \/ j.packets = {}
                        \/ TimestampBefore(Key(LastKey(j.packets)), j.next)
                     THEN 0
                     ELSE ((Key(LastKey(j.packets)) - j.next) % Wrap) + FullFrame
    IN undecoded + IF j.playing THEN FullFrame - j.pos ELSE 0

\* Mutant: a frame played while the next packet is late counts as that packet.
StretchedNext(j, next) ==
    [j EXCEPT !.concealed = @ + 1, !.frame = next, !.pos = 0]

\* A concealed frame while nothing is buffered: the next packet stays next.
Stretched(j, next) ==
    [j EXCEPT !.concealed = @ + 1, !.frame = (next - FullFrame) % Wrap, !.pos = 0]

\* Mutant: what an advance overtakes stays buffered.
AdvancedKeeping(j, next) ==
    [j EXCEPT !.frame = next, !.pos = 0, !.next = (next + FullFrame) % Wrap]

\* The frame at next plays and the one that follows it is next.
Advanced(j, next) ==
    LET following == (next + FullFrame) % Wrap IN
    [j EXCEPT !.frame = next, !.pos = 0, !.next = following,
              !.packets = {p \in @ : ~TimestampBefore(Key(p), following)}]

Rebuffered(j) ==
    [j EXCEPT !.playing = FALSE, !.last = NoStamp,
              !.next = IF j.packets = {} THEN NoStamp ELSE Key(FirstKey(j.packets))]

DecodeNext(j) ==
    LET offGrid == /\ At(j.packets, j.next) = {} /\ j.packets # {}
                   /\ ((Key(FirstKey(j.packets)) - j.next) % Wrap) % FullFrame # 0
        next == IF offGrid THEN Key(FirstKey(j.packets)) ELSE j.next
        here == At(j.packets, next)
        after == At(j.packets, (next + FullFrame) % Wrap)
        near == /\ j.packets # {}
                /\ (Key(FirstKey(j.packets)) - next) % Wrap <= target
    IN IF here # {}
       THEN Advanced([j EXCEPT !.packets = @ \ here, !.concealed = 0, !.last = Max(here)], next)
       ELSE IF after # {}
       THEN Advanced([j EXCEPT !.concealed = 0, !.last = Max(after) - FullFrame], next)
       ELSE IF j.packets = {} /\ j.concealed < MaxConcealed THEN Stretched(j, next)
       ELSE IF j.concealed < MaxConcealed \/ near
       THEN Advanced([j EXCEPT !.concealed = @ + 1], next)
       ELSE Rebuffered(j)

\* Skips one frame when the buffer stayed over Spare for a whole window.
Accelerate(j) ==
    LET lowest == Min({j.lowest, Buffered(j)})
        skips == lowest > Spare /\ At(j.packets, j.next) # {}
    IN IF j.pulls + 1 < AccelerateEvery THEN [j EXCEPT !.pulls = @ + 1, !.lowest = lowest]
       ELSE [j EXCEPT !.pulls = 0, !.lowest = Unset,
                      !.packets = IF skips THEN @ \ At(@, j.next) ELSE @,
                      !.next = IF skips THEN (@ + FullFrame) % Wrap ELSE @]

PullAudio(j) ==
    LET ready == j.playing \/ (j.next # NoStamp /\ Buffered(j) >= target)
        started == IF j.playing THEN j ELSE [j EXCEPT !.playing = TRUE, !.pos = FullFrame]
        decoded == IF started.pos = FullFrame THEN DecodeNext(started) ELSE started
    IN IF ~ready THEN j
       ELSE IF ~decoded.playing \/ decoded.pos = FullFrame THEN decoded
       ELSE Accelerate([decoded EXCEPT !.pos = @ + 1])

-----------------------------------------------------------------------------
(* The audio worker: receive, mix_shares.                                  *)

PacketArrives ==
    /\ \E p \in coming, t \in Targets :
        /\ coming' = coming \ {p}
        /\ target' = t
        /\ jb' = InsertPacket(jb, p)
    /\ UNCHANGED <<heard, device, held, shown, pictures>>

PlayoutTimestamp(j) == (j.frame + j.pos) % Wrap

\* Mutant: the last audio heard stays published when playback stops.
HeardLast(j, queued) == IF j.playing THEN (PlayoutTimestamp(j) - queued) % Wrap ELSE heard

Heard(j, queued) == IF j.playing THEN (PlayoutTimestamp(j) - queued) % Wrap ELSE NoStamp

MixShares ==
    /\ device
    /\ jb' = PullAudio(jb)
    /\ \E queued \in Queues : heard' = Heard(jb', queued)
    /\ UNCHANGED <<target, coming, device, held, shown, pictures>>

\* The output device goes away: its ring stays full and nothing is pulled.
DeviceStops ==
    /\ device
    /\ device' = FALSE
    /\ UNCHANGED <<jb, target, coming, heard, held, shown, pictures>>

-----------------------------------------------------------------------------
(* The decoder's thread: receive in share.rs.                              *)

AudioToVideo(timestamp) == (timestamp * Ratio) % Wrap

MakeRoom(frames) == IF Len(frames) >= MaxHeld THEN Tail(frames) ELSE frames

Ahead(frame) == (frame - AudioToVideo(heard)) % Wrap

IsDue(frame) ==
    \/ heard = NoStamp
    \/ ~TimestampBefore(AudioToVideo(heard), frame % Wrap)
    \/ Ahead(frame) > MaxHold

\* How many of the held frames, oldest first, are due: take_while.
DueFrames(frames) ==
    Max({n \in 0 .. Len(frames) : \A i \in 1 .. n : IsDue(frames[i])})

ShowDue(frames) ==
    LET due == DueFrames(frames) IN
    /\ held' = SubSeq(frames, due + 1, Len(frames))
    /\ shown' = IF due > 0 THEN frames[due] ELSE shown

\* A unit is decoded into a picture.
DecodePicture ==
    /\ pictures.left > 0
    /\ \E gap \in Gaps :
        LET at == IF pictures.last = NoStamp THEN FirstPicture ELSE pictures.last + gap IN
        /\ pictures' = [last |-> at, left |-> pictures.left - 1]
        /\ ShowDue(Append(MakeRoom(held), at))
    /\ UNCHANGED <<jb, target, coming, heard, device>>

\* No unit is waiting: the thread looks again while it holds pictures.
LookAgain ==
    /\ held # <<>>
    /\ ShowDue(held)
    /\ UNCHANGED <<jb, target, coming, heard, device, pictures>>

PlayoutNext ==
    \/ PacketArrives
    \/ MixShares
    \/ DeviceStops
    \/ DecodePicture
    \/ LookAgain

\* The worker's loop pulls whenever its device asks, the decoder's thread
\* polls while it holds pictures; packets and pictures may stop coming.
PlayoutFairness == WF_playoutVars(MixShares) /\ WF_playoutVars(LookAgain)

PlayoutSpec == PlayoutInit /\ [][PlayoutNext]_playoutVars /\ PlayoutFairness

-----------------------------------------------------------------------------
(* Properties.                                                             *)

\* JitterBuffer::decode_next: while it plays, each frame decoded or recovered
\* is after the one before, whatever order packets arrive in and across a
\* wrap of the timestamps, until playout stops to rebuffer.
DecodesForward ==
    [][jb.last # NoStamp /\ jb'.last # jb.last => jb'.last = NoStamp \/ jb'.last > jb.last]_playoutVars

\* JitterBuffer::playout_timestamp: pictures are held to audio that has been
\* decoded, never to audio still to come, and to no older than two frames.
HeardNearNext ==
    jb.playing => (jb.next - PlayoutTimestamp(jb)) % Wrap <= 2 * FullFrame

\* due_frames and Playout: a picture held back for the share's audio is
\* shown, or makes room for newer ones, even when the audio stops coming, as
\* long as the output device plays.
PicturesShown == held # <<>> /\ device ~> held = <<>> \/ ~device

\* A watched share is heard in order and seen with its sound, or without where that stops
\* (jitter.rs, share_audio.rs).
PlaysOn == []HeardNearNext /\ DecodesForward /\ PicturesShown

=============================================================================
