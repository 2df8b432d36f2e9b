----------------------------- MODULE Screencast -----------------------------
(***************************************************************************)
(* A screen share on Linux, from the compositor's buffers to the encoder.   *)
(* capture/linux.rs reads the PipeWire stream on a thread of its own: a     *)
(* picture in shared memory is copied into a slot of a pool, one in GPU     *)
(* memory stays in its buffer, which is lent to the share thread until that *)
(* returns it.  share.rs encodes what arrives and refuses GPU memory that   *)
(* its encoder cannot take, which the PipeWire thread then offers no more.  *)
(*                                                                         *)
(* The compositor fills buffers, picks a format among those offered and     *)
(* takes its buffers away when the format changes; the next ones may be at  *)
(* the same address.  Every callback, message and turn of the share loop is *)
(* a step, in any order.  A lease is named by the least number no lease     *)
(* still around has, which stands for the counter that never repeats.       *)
(***************************************************************************)
EXTENDS Naturals, Sequences, FiniteSets, SequencesExt

CONSTANTS Bufs,       \* addresses of the stream's buffers
          Modifiers,  \* modifiers of GPU memory
          Imports,    \* those of them the encoder's device can import
          Pool,       \* POOL: slots
          Lendable,   \* LENT: buffers lent at once
          MaxTurns    \* bound: formats the compositor changes by itself

ASSUME ScreencastAssumption ==
  /\ Imports \subseteq Modifiers /\ IsFiniteSet(Bufs)
  /\ Pool \in Nat \ {0} /\ Lendable \in Nat \ {0} /\ MaxTurns \in Nat

VARIABLES where,    \* of each buffer: gone, with the compositor, ready or dequeued
          format,   \* StreamState.layout: none, in shared memory, or a modifier
          size,     \* bytes a picture of the format takes in shared memory
          lent,     \* Lent.buffers: who is lent under which lease
          stuck,    \* Lent.buffers: number of those whose lease nobody was given
          free,     \* slots for the next pictures, each its size
          spare,    \* StreamState.spare: a slot, or none
          filled,   \* slots with pictures, oldest first
          offers,   \* modifiers offered
          askedFor,    \* whether the compositor has to pick a format again
          control,  \* messages to the PipeWire thread
          refused,  \* PipeWireCapture.refused
          at,       \* where the share thread is
          current,  \* the frame in GPU memory it holds, or none
          takesGpu, \* whether the encoder that opened and its device take GPU memory
          over,     \* PipeWireCapture.ended
          sent,     \* flips with every picture encoded
          turns     \* bound: changes of format so far

screenVars == <<where, format, size, lent, stuck, free, spare, filled, offers, askedFor, control,
                refused, at, current, takesGpu, over, sent, turns>>
shareVars == <<at, current, takesGpu, refused, sent>>

Shared == "shared"
All == "all"
NoFrame == [is |-> "none"]
Sizes == 1..2

ScreencastTypeOK ==
  /\ where \in [Bufs -> {"gone", "compositor", "ready", "dequeued"}]
  /\ format \in Modifiers \cup {Shared, "none"} /\ size \in Sizes
  /\ lent \subseteq [buf: Bufs, lease: Nat]
  /\ stuck \in Nat /\ Cardinality(lent) + stuck <= Lendable
  /\ free \in Seq(Sizes) /\ spare \in Sizes \cup {0}
  /\ offers \subseteq Modifiers /\ refused \subseteq Modifiers \cup {All}
  /\ at \in {"first", "firstFrame", "run", "frame", "encode", "done"}
  /\ over \in BOOLEAN /\ sent \in BOOLEAN /\ turns \in 0..MaxTurns

-----------------------------------------------------------------------------
(* The encoder ladder *)

Ladder == <<"nvenc", "vaapi", "nvenc", "libvpx">>

\* The first rung of those given, as Encoder::open and first_tried find it.
First(rungs) == Ladder[CHOOSE i \in rungs: \A j \in rungs: i <= j]

\* tries_gpu_input_first: GPU memory is offered when the first rung with a driver takes it.
Offered(tried) == IF First(tried) = "vaapi" THEN Modifiers ELSE {}

\* Any of those may fail to open.
Opening(tried) == (SUBSET tried) \ {{}}

\* Whether the one that opened takes GPU memory: its device may have no video processing.
TakesGpu(opens) == {First(opens) = "vaapi", FALSE}

\* Vpp::import: whether the device takes memory of this layout.
Importable(m) == m \in Imports

-----------------------------------------------------------------------------
(* The PipeWire thread *)

Leases(frames) == {frames[i].lease: i \in {j \in 1..Len(frames): frames[j].is = "gpu"}}
Returns == {control[i].lease: i \in {j \in 1..Len(control): control[j].do = "return"}}
Held == IF current.is = "gpu" THEN {current.lease} ELSE {}
Around == Leases(filled) \cup Returns \cup Held \cup {e.lease: e \in lent}

NewLease == CHOOSE n \in 0..Cardinality(Around): n \notin Around

\* The frame history of a buffer the stream took away.
Outlived(frame) == IF frame.is = "gpu" THEN [frame EXCEPT !.live = FALSE] ELSE frame

\* The callback of a removed buffer: its lending is forgotten.
RemoveBuffers == {}

\* The mutant: it is kept.
RemoveNone == lent

Removed == RemoveBuffers

\* StreamState::take of a dequeued buffer: copied into a slot or lent out with one.
Slot == IF spare # 0 THEN spare ELSE IF free # <<>> THEN Head(free) ELSE 0
FreeLeft == IF spare # 0 THEN free ELSE Tail(free)

Requeue(b) == where' = [where EXCEPT ![b] = "compositor"]

\* The thread goes on until it comes to the message to quit.
Running == IF control = <<>> THEN TRUE ELSE Head(control).do # "quit"

\* Lent::lend finds an entry, unless as many as can be tracked already are.
MayLend == Cardinality(lent) + stuck < Lendable

\* What does not reach the ring leaves its slot aside for the next picture.  One in GPU memory
\* was lent by then, if it could be: frame.zip(self.lent.lend(buffer)) lends also when there is
\* no frame, and the lease is dropped, so the entry stays as long as the stream has the buffer.
SetAside(b) ==
  /\ Requeue(b)
  /\ spare' = Slot /\ free' = FreeLeft
  /\ stuck' = IF format \in Modifiers /\ MayLend THEN stuck + 1 ELSE stuck
  /\ UNCHANGED <<lent, filled>>

\* The mutant: the slot is lost.
SetAsideLost(b) ==
  /\ Requeue(b)
  /\ spare' = 0 /\ free' = FreeLeft
  /\ stuck' = IF format \in Modifiers /\ MayLend THEN stuck + 1 ELSE stuck
  /\ UNCHANGED <<lent, filled>>

Unused(b) == SetAside(b)

Lend(b) ==
  /\ MayLend
  /\ where' = [where EXCEPT ![b] = "dequeued"]
  /\ lent' = lent \cup {[buf |-> b, lease |-> NewLease]}
  /\ filled' = Append(filled, [is |-> "gpu", slot |-> Slot, lease |-> NewLease, buf |-> b,
                               modifier |-> format, live |-> TRUE])
  /\ spare' = 0 /\ free' = FreeLeft

\* A picture too large for its slot goes along empty, for the share thread to enlarge it.
Copy(b) ==
  /\ Requeue(b)
  /\ filled' = Append(filled, [is |-> "copied", slot |-> Slot, needs |-> size,
                               picture |-> Slot >= size])
  /\ spare' = 0 /\ free' = FreeLeft
  /\ UNCHANGED lent

\* on_process: the buffer is used, or goes back at once: without a format or a slot, when
\* the picture is damaged, and when no more can be lent.
Uses(b) ==
  /\ Running /\ where[b] = "ready" /\ Slot # 0
  /\ \/ format = Shared /\ Copy(b)
     \/ format \in Modifiers /\ Lend(b)
  /\ UNCHANGED <<format, size, stuck, offers, askedFor, control, over, turns>>
  /\ UNCHANGED shareVars

Discards(b) ==
  /\ Running /\ where[b] = "ready"
  /\ IF format = "none" \/ Slot = 0
       THEN Requeue(b) /\ UNCHANGED <<lent, stuck, free, spare, filled>>
       ELSE Unused(b)
  /\ UNCHANGED <<format, size, offers, askedFor, control, over, turns>> /\ UNCHANGED shareVars

\* on_param_changed, after the buffers of the old format were removed: new ones come with a
\* format the compositor picked among those offered, or none does.
Renegotiate(f) ==
  /\ Running
  /\ format' = f
  /\ where' = [b \in Bufs |-> IF f = "none" THEN "gone" ELSE "compositor"]
  /\ lent' = Removed /\ stuck' = 0
  /\ filled' = [i \in DOMAIN filled |-> Outlived(filled[i])]
  /\ current' = Outlived(current)
  /\ size' \in (IF f = Shared THEN Sizes ELSE {size})
  /\ UNCHANGED <<free, spare, offers, control, over, at, takesGpu, refused, sent>>

PickFormat ==
  /\ askedFor /\ askedFor' = FALSE
  /\ \E f \in offers \cup {Shared}: Renegotiate(f)
  /\ UNCHANGED turns

\* A window is resized, or the stream pauses.
FormatTurns ==
  /\ ~askedFor /\ turns < MaxTurns /\ turns' = turns + 1
  /\ askedFor' = TRUE
  /\ Renegotiate("none")

\* Messages from the share thread, in order: a lent buffer comes back, a format is offered no
\* more, or the loop quits.
DropOffer(m) == IF m = All THEN {} ELSE offers \ {m}

\* The mutant: only an offer of all of them is taken back.
DropAllOnly(m) == IF m = All THEN {} ELSE offers

Refuse(m) == DropOffer(m)

OnControl ==
  /\ control # <<>> /\ Running
  /\ control' = Tail(control)
  /\ LET message == Head(control)
         back == {e \in lent: message.do = "return" /\ e.lease = message.lease}
     IN /\ where' = [b \in Bufs |-> IF \E e \in back: e.buf = b THEN "compositor" ELSE where[b]]
        /\ lent' = lent \ back
        /\ offers' = IF message.do = "refuse" THEN Refuse(message.modifier) ELSE offers
        /\ askedFor' = (askedFor \/ message.do = "refuse")
  /\ UNCHANGED <<format, size, stuck, free, spare, filled, over, turns>>
  /\ UNCHANGED shareVars

-----------------------------------------------------------------------------
(* The share thread *)

Return(frame) == [do |-> "return", lease |-> frame.lease]
GivenBack == IF current.is = "gpu" THEN Append(control, Return(current)) ELSE control

IsRefused(frame) == All \in refused \/ frame.modifier \in refused

\* A refused frame goes back unread.
ReturnUnread(frame) == Append(GivenBack, Return(frame))

\* The mutant: it is only dropped.
DropUnread(frame) == GivenBack

Unread(frame) == ReturnUnread(frame)

NextIsGpu == filled # <<>> /\ Head(filled).is = "gpu"

\* next_dmabuf: the frame held goes back, refused ones are skipped.
NextDmabuf ==
  /\ at = "first" \/ (at = "run" /\ ~over)
  /\ IF NextIsGpu
       THEN LET frame == Head(filled)
            IN /\ filled' = Tail(filled)
               /\ free' = Append(free, frame.slot)
               /\ IF IsRefused(frame)
                    THEN /\ control' = Unread(frame)
                         /\ current' = NoFrame /\ UNCHANGED at
                    ELSE /\ control' = GivenBack
                         /\ current' = frame
                         /\ at' = IF at = "first" THEN "run" ELSE "encode"
       ELSE /\ control' = GivenBack /\ current' = NoFrame
            /\ at' = IF at = "first" THEN "firstFrame" ELSE "frame"
            /\ UNCHANGED <<filled, free>>
  /\ UNCHANGED <<where, format, size, lent, stuck, spare, offers, askedFor, refused,
                 takesGpu, over, sent, turns>>

\* next_frame, and the picture it copies out encoded; a slot too small is enlarged.  The
\* wait for the first frame ends with a picture, kept for the encoder that then opens, or
\* when it took too long.
NextFrame ==
  /\ at \in {"firstFrame", "frame"}
  /\ IF filled = <<>> \/ NextIsGpu
       THEN /\ at' \in (IF at = "frame" THEN {"run"} ELSE {"first", "run"})
            /\ UNCHANGED <<filled, free, sent>>
       ELSE LET slot == Head(filled)
            IN /\ filled' = Tail(filled)
               /\ free' = Append(free, IF slot.slot < slot.needs THEN slot.needs ELSE slot.slot)
               /\ sent' = (sent # slot.picture)
               /\ at' = IF slot.picture THEN "run" ELSE at
  /\ UNCHANGED <<where, format, size, lent, stuck, spare, offers, askedFor, control, refused,
                 current, takesGpu, over, turns>>

\* encode_dmabuf, where refusal decides what else is not to come: nothing in GPU memory for
\* an encoder without it or a device that cannot convert, else what did not import.
Refusal ==
  IF ~takesGpu THEN {All}
  ELSE IF ~Importable(current.modifier) THEN {current.modifier} ELSE {}

RefusePicture ==
  /\ at = "encode" /\ Refusal # {}
  /\ at' = "run"
  /\ refused' = refused \cup Refusal
  /\ \E m \in Refusal: control' = Append(control, [do |-> "refuse", modifier |-> m])
  /\ UNCHANGED <<where, format, size, lent, stuck, free, spare, filled, offers, askedFor, current,
                 takesGpu, over, sent, turns>>

EncodePicture ==
  /\ at = "encode" /\ Refusal = {}
  /\ at' = "run" /\ sent' = ~sent
  /\ UNCHANGED <<where, format, size, lent, stuck, free, spare, filled, offers, askedFor, control,
                 refused, current, takesGpu, over, turns>>

\* The limiter skips it, or an error that may pass costs this frame.
SkipPicture ==
  /\ at = "encode"
  /\ at' = "run"
  /\ UNCHANGED <<where, format, size, lent, stuck, free, spare, filled, offers, askedFor, control,
                 refused, current, takesGpu, over, sent, turns>>

\* The share loop ends, and the capture is dropped with what it holds.
Stops ==
  /\ at = "run" /\ over
  /\ at' = "done" /\ current' = NoFrame
  /\ control' = Append(control, [do |-> "quit"])
  /\ UNCHANGED <<where, format, size, lent, stuck, free, spare, filled, offers, askedFor, refused,
                 takesGpu, over, sent, turns>>

-----------------------------------------------------------------------------
(* The compositor and the portal *)

FillBuffer(b) ==
  /\ where[b] = "compositor"
  /\ where' = [where EXCEPT ![b] = "ready"]
  /\ UNCHANGED <<format, size, lent, stuck, free, spare, filled, offers, askedFor, control, over,
                 turns>> /\ UNCHANGED shareVars

\* The stream fails or unlinks, the portal session is closed, or the user stops sharing.
ShareOver ==
  /\ ~over /\ over' = TRUE
  /\ UNCHANGED <<where, format, size, lent, stuck, free, spare, filled, offers, askedFor, control,
                 turns>> /\ UNCHANGED shareVars

-----------------------------------------------------------------------------
\* The encoder that opens may be another than the first one tried.
ScreencastInit ==
  /\ \E tried \in (SUBSET DOMAIN Ladder) \ {{}}: \E opens \in Opening(tried):
       takesGpu \in TakesGpu(opens) /\ offers = Offered(tried)
  /\ where = [b \in Bufs |-> "gone"] /\ format = "none" /\ size = 1
  /\ lent = {} /\ stuck = 0 /\ free = [i \in 1..Pool |-> 1] /\ spare = 0 /\ filled = <<>>
  /\ askedFor = TRUE /\ control = <<>> /\ refused = {} /\ at = "first" /\ current = NoFrame
  /\ over = FALSE /\ sent = FALSE /\ turns = 0

ScreencastNext ==
  \/ \E b \in Bufs: Uses(b) \/ Discards(b) \/ FillBuffer(b)
  \/ PickFormat \/ FormatTurns \/ OnControl
  \/ NextDmabuf \/ NextFrame \/ RefusePicture \/ EncodePicture \/ SkipPicture
  \/ Stops \/ ShareOver

ScreencastSpec == ScreencastInit /\ [][ScreencastNext]_screenVars

\* The threads run, the compositor fills buffers and picks a format when asked, and neither
\* damage nor the limiter takes every picture.
ScreencastFair ==
  /\ \A b \in Bufs: WF_screenVars(FillBuffer(b)) /\ SF_screenVars(Uses(b))
                     /\ WF_screenVars(Discards(b))
  /\ WF_screenVars(PickFormat) /\ WF_screenVars(OnControl)
  /\ WF_screenVars(NextDmabuf) /\ WF_screenVars(NextFrame)
  /\ SF_screenVars(RefusePicture) /\ SF_screenVars(EncodePicture)

ScreencastFairSpec == ScreencastSpec /\ ScreencastFair

-----------------------------------------------------------------------------
\* The compositor never draws into a buffer the share thread still reads: a frame waiting or
\* held, whose buffer the stream still has, is neither queued back nor lent to it a second
\* time, however late its return and whatever the address of the buffers of the next format
\* (linux.rs Lent, give_back).
HeldNotDrawn ==
  LET frames == {filled[i]: i \in DOMAIN filled} \cup {current}
  IN \A f \in {x \in frames: x.is = "gpu" /\ x.live}:
       where[f.buf] = "dequeued" /\ [buf |-> f.buf, lease |-> f.lease] \in lent

\* No buffer is lost to the stream: one taken from it is lent under a lease that is in the
\* ring, in the share thread's hand or on its way back.  Of a damaged picture in GPU memory
\* only the entry stays behind (stuck), the buffer went back (linux.rs take, next_dmabuf).
BuffersComeBack ==
  at # "done" =>
    /\ \A b \in Bufs: where[b] = "dequeued" <=> \E e \in lent: e.buf = b
    /\ \A e \in lent: e.lease \in Leases(filled) \cup Returns \cup Held

\* No slot of the pool is lost or doubled (linux.rs take, pop_dmabuf, next_frame).
SlotsConserved == Len(free) + Len(filled) + (IF spare # 0 THEN 1 ELSE 0) = Pool

\* A share that goes on keeps sending pictures while the screen changes: GPU memory the
\* encoder cannot take is given up for some it can, or for shared memory (share.rs
\* send_dmabuf, linux.rs renegotiate, refuse).  Except when damaged pictures in GPU memory have
\* used up every lending: then it stands still until the format changes (linux.rs take).
PicturesGoOn ==
  <>over \/ <>[](stuck = Lendable) \/ ([]<>sent /\ []<>~sent)

\* Every buffer and slot has one owner at a time, and an owner (linux.rs).
BuffersKept == HeldNotDrawn /\ BuffersComeBack /\ SlotsConserved

=============================================================================
