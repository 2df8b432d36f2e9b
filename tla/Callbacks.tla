------------------------------ MODULE Callbacks ------------------------------
(***************************************************************************)
(* Captures the system calls back, capture/windows.rs and capture/macos.rs: *)
(* handlers put pictures in a small ring that the share thread empties. On  *)
(* Windows a handler may run on any thread of a pool, and the sound comes   *)
(* from a thread of its own, whose opening may hang.                        *)
(*                                                                         *)
(* Scaling, colour conversion and the samples are left out; what may fail   *)
(* of them fails here too.                                                  *)
(***************************************************************************)
EXTENDS Integers, Sequences, FiniteSets, FiniteSetsExt

CONSTANTS
    Threads,        \* threads handlers run on
    RingSize,       \* RING
    PictureEvery,   \* FrameLimiter::interval, in ticks
    Gaps,           \* ticks between two pictures
    MaxTaken        \* bound: pictures captured

ASSUME CallbacksAssumption ==
    /\ Threads # {} /\ RingSize \in Nat \ {0} /\ PictureEvery \in Nat \ {0}
    /\ Gaps \subseteq Nat \ {0} /\ MaxTaken \in Nat

Nothing == -1

VARIABLES
    platform,    \* "windows" or "macos"
    phase,       \* of the capture: "audio", "gave up", "let go", "capturing", "closing", "over"
    closed,      \* the ended flag: what is shared went away
    screen,      \* [now, taken]: time of the last picture, and how many there were
    pooled,      \* pictures of the frame pool no handler took yet
    hands,       \* the picture each running handler holds
    lock,        \* handlers holding the feed
    due,         \* FrameLimiter::next
    ring,        \* pictures waiting for the share thread
    zeroAt,      \* ShareZero::zero
    stamp,       \* ShareClock::last_frame
    shown,       \* pictures handed to the share thread: [at, stamp]
    loop,        \* the loopback thread: "none", "opening", "open", "failed", "running", "done"
    ready,       \* its answer: "empty", "ok", "err", or "hung up" once nobody listens
    stop,        \* LoopbackAudio::stop
    audio        \* WinCapture::audio holds the loopback

callbackVars == <<platform, phase, closed, screen, pooled, hands, lock, due, ring, zeroAt,
                  stamp, shown, loop, ready, stop, audio>>
pictureVars == <<screen, pooled, hands, lock, due, ring>>
stampVars == <<zeroAt, stamp, shown>>
loopVars == <<loop, ready, stop, audio>>

CallbacksTypeOK ==
    /\ platform \in {"windows", "macos"} /\ closed \in BOOLEAN /\ stop \in BOOLEAN
    /\ phase \in {"audio", "gave up", "let go", "refused", "capturing", "closing", "over"}
    /\ Len(ring) <= RingSize /\ Cardinality(lock) <= 1
    /\ ready \in {"empty", "ok", "err", "hung up"}
    /\ loop \in {"none", "opening", "open", "failed", "running", "done"}

\* start: the sound is set up before the first picture, on Windows by a thread waited for.
CallbacksInit ==
    /\ platform \in {"windows", "macos"}
    /\ phase = (IF platform = "windows" THEN "audio" ELSE "capturing")
    /\ loop = (IF platform = "windows" THEN "opening" ELSE "none")
    /\ closed = FALSE /\ screen = [now |-> 0, taken |-> 0] /\ pooled = <<>>
    /\ hands = [t \in Threads |-> Nothing] /\ lock = {} /\ due = Nothing /\ ring = <<>>
    /\ zeroAt = Nothing /\ stamp = Nothing /\ shown = <<>>
    /\ ready = "empty" /\ stop = FALSE /\ audio = FALSE

-----------------------------------------------------------------------------
(* LoopbackAudio: its thread *)

LoopbackOpens ==
    /\ loop = "opening"
    /\ loop' \in {"open", "failed"}
    /\ UNCHANGED <<ready, stop, audio, platform, phase, closed>>
    /\ UNCHANGED pictureVars /\ UNCHANGED stampVars

\* ready.send fails once the receiver is gone; only a stream waited for runs.
LoopbackAnswers ==
    /\ loop \in {"open", "failed"}
    /\ ready' = IF ready = "hung up" THEN ready ELSE IF loop = "open" THEN "ok" ELSE "err"
    /\ loop' = IF loop = "open" /\ ready # "hung up" THEN "running" ELSE "done"
    /\ UNCHANGED <<stop, audio, platform, phase, closed>>
    /\ UNCHANGED pictureVars /\ UNCHANGED stampVars

\* Loopback::run ends once told to stop, or when the stream fails.
LoopbackEnd ==
    /\ loop = "running"
    /\ loop' = "done"
    /\ UNCHANGED <<ready, stop, audio, platform, phase, closed>>
    /\ UNCHANGED pictureVars /\ UNCHANGED stampVars

LoopbackStops == stop /\ LoopbackEnd
LoopbackFails == ~stop /\ LoopbackEnd

-----------------------------------------------------------------------------
(* LoopbackAudio::start, which waits for it *)

LoopbackReady ==
    /\ phase = "audio" /\ ready \in {"ok", "err"}
    /\ audio' = (ready = "ok")
    /\ stop' = (ready = "err")
    /\ phase' = IF ready = "ok" THEN "capturing" ELSE "refused"
    /\ UNCHANGED <<loop, ready, platform, closed>>
    /\ UNCHANGED pictureVars /\ UNCHANGED stampVars

\* Dropping what failed to open joins its thread.
RefusedJoins ==
    /\ phase = "refused" /\ loop = "done"
    /\ ready' = "hung up"
    /\ phase' = "capturing"
    /\ UNCHANGED <<loop, stop, audio, platform, closed>>
    /\ UNCHANGED pictureVars /\ UNCHANGED stampVars

\* After AUDIO_SETUP_TIMEOUT the thread is let go of, since joining could hang with it.
Detached == TRUE

\* The mutant: it is joined like any other.
DetachedJoined == loop = "done"

LetsGo == Detached

\* The mutant: only a thread still held is told to stop.
StopsHeld == stop' = audio

StopsAlways == stop' = TRUE

\* Drop for LoopbackAudio.
StopsLoopback == StopsAlways

SetupTimesOut ==
    /\ phase = "audio" /\ ready = "empty"
    /\ phase' = "gave up"
    /\ UNCHANGED <<platform, closed>> /\ UNCHANGED loopVars
    /\ UNCHANGED pictureVars /\ UNCHANGED stampVars

GaveUpDrops ==
    /\ phase = "gave up"
    /\ StopsLoopback
    /\ phase' = "let go"
    /\ UNCHANGED <<platform, closed, loop, ready, audio>>
    /\ UNCHANGED pictureVars /\ UNCHANGED stampVars

\* The receiver goes last: until then the late answer is still taken.
GaveUpHangsUp ==
    /\ phase = "let go" /\ LetsGo
    /\ ready' = "hung up"
    /\ phase' = "capturing"
    /\ UNCHANGED <<platform, closed, loop, stop, audio>>
    /\ UNCHANGED pictureVars /\ UNCHANGED stampVars

-----------------------------------------------------------------------------
(* Pictures *)

InUse ==
    Len(pooled) + Len(ring) + Cardinality({t \in Threads: hands[t] # Nothing})

\* The frame pool has one texture more than the ring; macOS makes its own buffers.
PictureTaken ==
    /\ phase = "capturing" /\ screen.taken < MaxTaken
    /\ platform = "windows" => InUse < RingSize + 1
    /\ \E gap \in Gaps:
         /\ screen' = [now |-> screen.now + gap, taken |-> screen.taken + 1]
         /\ pooled' = Append(pooled, screen.now + gap)
    /\ UNCHANGED <<platform, phase, closed, hands, lock, due, ring>>
    /\ UNCHANGED stampVars /\ UNCHANGED loopVars

\* The FrameArrived handler takes the next picture; macOS runs its handlers one by one.
HandlerTakes(t) ==
    /\ phase = "capturing" /\ pooled # <<>> /\ hands[t] = Nothing
    /\ platform = "macos" => \A u \in Threads: hands[u] = Nothing
    /\ hands' = [hands EXCEPT ![t] = Head(pooled)]
    /\ pooled' = Tail(pooled)
    /\ UNCHANGED <<platform, phase, closed, screen, lock, due, ring>>
    /\ UNCHANGED stampVars /\ UNCHANGED loopVars

\* try_lock: a handler that finds the feed taken drops its picture.
HandlerLocks(t) ==
    /\ hands[t] # Nothing /\ t \notin lock
    /\ IF lock = {} THEN lock' = {t} /\ UNCHANGED hands
       ELSE hands' = [hands EXCEPT ![t] = Nothing] /\ UNCHANGED lock
    /\ UNCHANGED <<platform, phase, closed, screen, pooled, due, ring>>
    /\ UNCHANGED stampVars /\ UNCHANGED loopVars

\* FrameLimiter::admits.
DueEarly(time) == due - time
Admitted(time) ==
    \/ platform = "macos" \/ due = Nothing
    \/ DueEarly(time) > 2 * PictureEvery \/ DueEarly(time) <= PictureEvery \div 4
DueAfter(time) ==
    IF due # Nothing /\ DueEarly(time) \in 1 - PictureEvery .. PictureEvery \div 4
    THEN due + PictureEvery ELSE time + PictureEvery

\* Feed::offer, queue_output: a full ring drops the newest.
HandlerOffers(t) ==
    /\ t \in lock
    /\ LET time == hands[t]
       IN /\ due' = IF Admitted(time) THEN DueAfter(time) ELSE due
          /\ ring' = IF Admitted(time) /\ Len(ring) < RingSize THEN Append(ring, time) ELSE ring
    /\ lock' = {}
    /\ hands' = [hands EXCEPT ![t] = Nothing]
    /\ UNCHANGED <<platform, phase, closed, screen, pooled>>
    /\ UNCHANGED stampVars /\ UNCHANGED loopVars

\* ShareClock::video.
StampedAfter(ticks) == IF stamp = Nothing THEN ticks ELSE Max({ticks, stamp + 1})

\* The mutant: each picture keeps the time it was taken at.
StampedAt(ticks) == ticks

Stamped(ticks) == StampedAfter(ticks)

\* next_frame: a picture before the zero has no stamp, and one may fail to be read or scaled.
PictureShown ==
    /\ phase = "capturing" /\ ring # <<>>
    /\ ring' = Tail(ring)
    /\ LET time == Head(ring)
           zero == IF zeroAt = Nothing THEN time ELSE zeroAt
       IN /\ zeroAt' = zero
          /\ IF time < zero THEN UNCHANGED <<stamp, shown>>
             ELSE /\ stamp' = Stamped(time - zero)
                  /\ \/ shown' = Append(shown, [at |-> time, stamp |-> stamp'])
                     \/ UNCHANGED shown
    /\ UNCHANGED <<platform, phase, closed, screen, pooled, hands, lock, due>>
    /\ UNCHANGED loopVars

\* The first buffer of sound sets the zero when it comes before any picture.
SoundZero ==
    /\ phase = "capturing" /\ zeroAt = Nothing
    /\ audio \/ platform = "macos"
    /\ zeroAt' = screen.now + 1
    /\ UNCHANGED <<platform, phase, closed, stamp, shown>>
    /\ UNCHANGED pictureVars /\ UNCHANGED loopVars

-----------------------------------------------------------------------------
(* The end *)

ItemCloses ==
    /\ phase = "capturing" /\ ~closed
    /\ closed' = TRUE
    /\ UNCHANGED <<platform, phase>>
    /\ UNCHANGED pictureVars /\ UNCHANGED stampVars /\ UNCHANGED loopVars

\* Drop for WinCapture: no more handlers start, then the sound is stopped and joined.
CaptureDrops ==
    /\ phase = "capturing"
    /\ IF audio THEN StopsLoopback ELSE UNCHANGED stop
    /\ phase' = IF audio THEN "closing" ELSE "over"
    /\ pooled' = <<>>
    /\ UNCHANGED <<platform, closed, screen, hands, lock, due, ring, loop, ready, audio>>
    /\ UNCHANGED stampVars

CaptureJoins ==
    /\ phase = "closing" /\ loop = "done"
    /\ phase' = "over"
    /\ UNCHANGED <<platform, closed>>
    /\ UNCHANGED pictureVars /\ UNCHANGED stampVars /\ UNCHANGED loopVars

CallbacksNext ==
    \/ LoopbackOpens \/ LoopbackAnswers \/ LoopbackStops \/ LoopbackFails
    \/ LoopbackReady \/ RefusedJoins \/ SetupTimesOut \/ GaveUpDrops \/ GaveUpHangsUp
    \/ PictureTaken \/ PictureShown \/ SoundZero
    \/ \E t \in Threads: HandlerTakes(t) \/ HandlerLocks(t) \/ HandlerOffers(t)
    \/ ItemCloses \/ CaptureDrops \/ CaptureJoins

CallbacksSpec == CallbacksInit /\ [][CallbacksNext]_callbackVars

-----------------------------------------------------------------------------
\* Pictures are handed on with stamps that rise, in whatever order the handlers came to queue
\* them: two pictures of one stamp, or one going back, would be one access unit to a viewer
\* (clock.rs video, windows.rs offer).
StampsRise == \A i, j \in DOMAIN shown: i < j => shown[i].stamp < shown[j].stamp

\* A share starts even if the loopback hangs while it opens: starting has a next step that
\* does not wait for the thread (windows.rs LoopbackAudio::start).
StartNotHeld ==
    phase \in {"audio", "gave up", "let go", "refused"} /\ loop = "opening" =>
        ENABLED (LoopbackReady \/ RefusedJoins \/ SetupTimesOut \/ GaveUpDrops \/ GaveUpHangsUp)

\* A loopback nobody holds does not go on capturing, also when its answer crossed the timeout:
\* it runs only while told to stop at its next turn (windows.rs LoopbackAudio::start, drop,
\* Loopback::run).
NoLoopbackLeft == loop = "running" /\ ~audio /\ phase \notin {"audio", "gave up"} => stop

\* Pictures reach the share thread in the order they were taken.
PicturesInOrder == \A i, j \in DOMAIN shown: i < j => shown[i].at < shown[j].at

\* Handlers on other threads neither mix up pictures, nor hold up a share, nor outlive it
\* (windows.rs, macos.rs).
CallbacksApart == StampsRise /\ StartNotHeld /\ NoLoopbackLeft

=============================================================================
