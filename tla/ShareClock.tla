----------------------------- MODULE ShareClock -----------------------------
(***************************************************************************)
(* A capture's clocks (client-core media/capture/clock.rs, audio_ring.rs): *)
(* the pair of rings that carries timestamped audio buffers from the       *)
(* capture's callback to the share thread, the chunker that cuts them into *)
(* frames on one grid, and the limiter that thins out pictures by their    *)
(* wrapping timestamps. One tick stands for a quarter of an audio frame in *)
(* the chunker and of a picture interval in the limiter.                   *)
(***************************************************************************)
EXTENDS Integers, Sequences, SequencesExt, FiniteSets, FiniteSetsExt

CONSTANTS
    Frame,       \* FRAME, in ticks
    Interval,    \* FrameLimiter::interval, in ticks
    Wrap,        \* timestamps count modulo this (2^32)
    SampleRing, BufferRing,   \* capacities of the two rings
    Lengths,     \* lengths of captured buffers, in ticks
    Slips,       \* how far a buffer's time may be from the end of the last
    Pauses,      \* times between two pictures
    MaxBuffers, MaxPictures   \* bounds

ASSUME ClockAssumption ==
    /\ Frame \in Nat \ {0} /\ Interval \in Nat \ {0} /\ Wrap \in Nat \ {0}
    /\ Lengths \subseteq Nat \ {0} /\ Slips \subseteq Int /\ Pauses \subseteq Nat

NoTime == -1000
Silence == -999
Slip == Frame \div 2

VARIABLES
    samples,     \* the sample ring: the time each sample was captured at
    buffers,     \* the buffer ring: [at, frames]
    pushing,     \* a buffer whose samples are in, on the callback's thread
    source,      \* where the source's next buffer would begin, and buffers left
    zero,        \* ShareZero::zero
    chunker,     \* [at, pending]
    emitted,     \* frames handed to the encoder: [at, samples]
    limiter,     \* FrameLimiter::next, or NoTime
    pictures     \* pictures so far: [at, kept], at unwrapped

clockVars == <<samples, buffers, pushing, source, zero, chunker, emitted, limiter, pictures>>
audioVars == <<samples, buffers, pushing, source, zero, chunker, emitted>>

ClockInit ==
    /\ samples = <<>> /\ buffers = <<>> /\ pushing = <<>>
    /\ source = [at |-> 0, left |-> MaxBuffers]
    /\ zero \in {0, 3}       \* a picture before or within the first buffer
    /\ chunker = [at |-> NoTime, pending |-> <<>>]
    /\ emitted = <<>>
    /\ limiter = NoTime
    /\ pictures = <<>>

-----------------------------------------------------------------------------
(* AudioProducer::push, on the capture's thread, and AudioConsumer::pop.   *)

Captured(at, n) == [i \in 1 .. n |-> at + i - 1]

\* Mutant: the buffer is announced before its samples are in.
PushSamplesLate ==
    /\ source.left > 0 /\ pushing = <<>>
    /\ \E n \in Lengths, slip \in Slips :
        LET at == source.at + slip IN
        /\ source' = [at |-> at + n, left |-> source.left - 1]
        /\ IF Len(samples) + n <= SampleRing /\ Len(buffers) < BufferRing
           THEN buffers' = Append(buffers, [at |-> at, frames |-> n]) /\ UNCHANGED pushing
           ELSE UNCHANGED <<buffers, pushing>>
    /\ UNCHANGED <<samples, zero, chunker, emitted, limiter, pictures>>

\* The samples are written first; a full ring drops the whole buffer.
PushSamples ==
    /\ source.left > 0 /\ pushing = <<>>
    /\ \E n \in Lengths, slip \in Slips :
        LET at == source.at + slip IN
        /\ source' = [at |-> at + n, left |-> source.left - 1]
        /\ IF Len(samples) + n <= SampleRing /\ Len(buffers) < BufferRing
           THEN samples' = samples \o Captured(at, n) /\ pushing' = <<[at |-> at, frames |-> n]>>
           ELSE UNCHANGED <<samples, pushing>>
    /\ UNCHANGED <<buffers, zero, chunker, emitted, limiter, pictures>>

PushBuffer ==
    /\ pushing # <<>>
    /\ buffers' = buffers \o pushing
    /\ pushing' = <<>>
    /\ UNCHANGED <<samples, source, zero, chunker, emitted, limiter, pictures>>

-----------------------------------------------------------------------------
(* AudioChunker.                                                           *)

\* Mutant: a buffer that slipped restarts the grid where it begins.
ChunkerPushedAt(c, at, taken) ==
    LET expected == c.at + Len(c.pending) IN
    IF c.at = NoTime THEN [at |-> at, pending |-> taken]
    ELSE IF at - expected \in -Slip .. Slip THEN [c EXCEPT !.pending = @ \o taken]
    ELSE [at |-> at, pending |-> taken]

\* Mutant: what was already sent is not skipped.
ChunkerPushedAgain(c, at, taken) ==
    LET expected == c.at + Len(c.pending)
        grid == c.at + ((at - c.at) \div Frame) * Frame
    IN IF c.at = NoTime THEN [at |-> at, pending |-> taken]
       ELSE IF at - expected \in -Slip .. Slip THEN [c EXCEPT !.pending = @ \o taken]
       ELSE IF grid >= c.at
       THEN [at |-> grid, pending |-> [i \in 1 .. at - grid |-> Silence] \o taken]
       ELSE [c EXCEPT !.pending = taken]

ChunkerPushed(c, at, taken) ==
    LET expected == c.at + Len(c.pending)
        grid == c.at + ((at - c.at) \div Frame) * Frame
    IN IF c.at = NoTime THEN [at |-> at, pending |-> taken]
       ELSE IF at - expected \in -Slip .. Slip THEN [c EXCEPT !.pending = @ \o taken]
       ELSE IF grid >= c.at
       THEN [at |-> grid, pending |-> [i \in 1 .. at - grid |-> Silence] \o taken]
       ELSE [c EXCEPT !.pending = SubSeq(taken, c.at - at + 1, Len(taken))]

\* ShareClock::next_audio pulls one captured buffer while it needs more.
PullBuffer ==
    /\ Len(chunker.pending) < Frame /\ buffers # <<>>
    /\ LET b == Head(buffers) IN
       /\ buffers' = Tail(buffers)
       /\ IF Len(samples) < b.frames
          THEN UNCHANGED <<samples, chunker>>
          ELSE /\ samples' = SubSeq(samples, b.frames + 1, Len(samples))
               /\ chunker' = ChunkerPushed(chunker, b.at - zero, SubSeq(samples, 1, b.frames))
    /\ UNCHANGED <<pushing, source, zero, emitted, limiter, pictures>>

\* take: a frame that starts before the zero is discarded.
TakeFrame ==
    /\ Len(chunker.pending) >= Frame
    /\ chunker' = [at |-> chunker.at + Frame, pending |-> SubSeq(chunker.pending, Frame + 1, Len(chunker.pending))]
    /\ emitted' = IF chunker.at < 0 THEN emitted
                  ELSE Append(emitted, [at |-> chunker.at, samples |-> SubSeq(chunker.pending, 1, Frame)])
    /\ UNCHANGED <<samples, buffers, pushing, source, zero, limiter, pictures>>

-----------------------------------------------------------------------------
(* FrameLimiter::admits.                                                   *)

\* next - timestamp as a signed wrapping difference.
Early(next, timestamp) ==
    LET d == (next - timestamp) % Wrap IN IF d < Wrap \div 2 THEN d ELSE d - Wrap

\* Mutant: a pause that wraps is not told from a frame that is early.
KeepsOnTime(next, timestamp) == next = NoTime \/ Early(next, timestamp) <= Interval \div 4

Keeps(next, timestamp) ==
    \/ next = NoTime
    \/ Early(next, timestamp) > 2 * Interval
    \/ Early(next, timestamp) <= Interval \div 4

\* Mutant: the schedule starts afresh at every frame kept.
NextDueAfresh(next, timestamp) == (timestamp + Interval) % Wrap

NextDue(next, timestamp) ==
    IF next # NoTime /\ Early(next, timestamp) \in 1 - Interval .. Interval \div 4
    THEN (next + Interval) % Wrap
    ELSE (timestamp + Interval) % Wrap

\* ShareClock::video: each picture is stamped after the last.
VideoTime(at) ==
    IF pictures = <<>> THEN at ELSE Max({at, pictures[Len(pictures)].at + 1})

TakePicture ==
    /\ Len(pictures) < MaxPictures
    /\ \E pause \in Pauses :
        LET at == VideoTime(IF pictures = <<>> THEN pause ELSE pictures[Len(pictures)].at + pause)
            kept == Keeps(limiter, at % Wrap)
        IN /\ pictures' = Append(pictures, [at |-> at, kept |-> kept])
           /\ limiter' = IF kept THEN NextDue(limiter, at % Wrap) ELSE limiter
    /\ UNCHANGED audioVars

\* The pictures and the audio do not touch: one of them moves in a behaviour.
ClockEither ==
    \/ pictures = <<>> /\ (PushSamples \/ PushBuffer \/ PullBuffer \/ TakeFrame)
    \/ source.left = MaxBuffers /\ TakePicture

-----------------------------------------------------------------------------
(* Properties.                                                             *)

\* A buffer the share thread sees has all its samples in the other ring,
\* however the two threads interleave, so buffers and samples stay in step.
RingsInStep ==
    /\ Len(samples) = FoldLeft(LAMBDA n, b : n + b.frames, 0, buffers \o pushing)
    /\ buffers # <<>> => samples[1] = buffers[1].at

\* Every frame handed on lies on the first one's grid of Frame ticks and
\* after the one before, whatever slips and gaps the source has, which the
\* listeners' jitter buffers rely on.
OnOneGrid ==
    \A i, j \in DOMAIN emitted : i < j =>
        /\ emitted[i].at < emitted[j].at
        /\ (emitted[j].at - emitted[i].at) % Frame = 0

\* What a frame holds was captured within Slip of where the frame puts it.
InPlace ==
    \A i \in DOMAIN emitted : \A k \in 1 .. Frame :
        emitted[i].samples[k] # Silence =>
            emitted[i].samples[k] - zero - (emitted[i].at + k - 1) \in -Slip .. Slip

Kept == SelectSeq(pictures, LAMBDA p : p.kept)

\* The limiter holds the share's rate on average: no run of pictures has more
\* than one above what its time allows, also across a wrap.
RateHeld ==
    \A i, j \in DOMAIN Kept : i < j =>
        (j - i - 1) * Interval <= Kept[j].at - Kept[i].at + Interval \div 4

\* A picture more than two intervals after the last one kept is only turned
\* away right after a pause that wrapped, and then not for long.
NoPictureStarves ==
    \A i \in DOMAIN pictures : ~pictures[i].kept =>
        \E j \in 1 .. i :
            /\ pictures[i].at - pictures[j].at <= 2 * Interval
            /\ \/ pictures[j].kept
               \/ j > 1 /\ pictures[j].at - pictures[j - 1].at >= Wrap - 3 * Interval

\* Sound and pictures of a share keep their time (clock.rs, audio_ring.rs).
ClockKept == RingsInStep /\ OnOneGrid /\ InPlace /\ RateHeld /\ NoPictureStarves

=============================================================================
