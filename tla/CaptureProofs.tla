---------------------------- MODULE CaptureProofs ----------------------------
(***************************************************************************)
(* What captures of a screen and of the mic promise, for any number of     *)
(* buffers, slots, threads, calls, tracks and users.                       *)
(*                                                                         *)
(* Screencast: a buffer in GPU memory that the share thread reads is not   *)
(* drawn into, and comes back.  The argument follows the leases: one that  *)
(* is in the ring, in the share thread's hand or on its way back is in one *)
(* of these places only, and a new one is none of them, so that a return   *)
(* frees the buffer it was lent for and no other.                          *)
(*                                                                         *)
(* Callbacks: stamps rise whatever the handlers do, and a loopback that    *)
(* nobody holds was told to stop.                                          *)
(*                                                                         *)
(* Voice: calls follow each other on one thread and leave nothing behind.  *)
(* The argument follows the tracks through the command channel: a track    *)
(* that is named there was given to one call, which names it until it      *)
(* names the next, so that the clock starts over only on a track nothing   *)
(* was sent on; and a call sends nothing after its end.                    *)
(***************************************************************************)
EXTENDS Voice, Screencast, Callbacks, FiniteSetTheorems, SequenceTheorems, TLAPS

-----------------------------------------------------------------------------
(* Screencast: what its state is made of. *)

GpuFrames ==
  [is : {"gpu"}, slot : Sizes, lease : Nat, buf : Bufs, modifier : Modifiers, live : BOOLEAN]
Copies == [is : {"copied"}, slot : Sizes, needs : Sizes, picture : BOOLEAN]
Messages ==
  [do : {"return"}, lease : Nat] \cup [do : {"refuse"}, modifier : Modifiers \cup {All}]
    \cup [do : {"quit"}]

\* The leases that messages return.
Coming(messages) ==
  {messages[i].lease : i \in {j \in 1..Len(messages) : messages[j].do = "return"}}

\* ScreencastTypeOK, with the frames and messages it leaves out.
ScreenTypes ==
  /\ ScreencastTypeOK /\ IsFiniteSet(lent)
  /\ filled \in Seq(GpuFrames \cup Copies) /\ current \in GpuFrames \cup {NoFrame}
  /\ control \in Seq(Messages)
  /\ at = "encode" => current.is = "gpu"

\* A lease is in one place: once in the ring, in the share thread's hand, or on its way back.
LeasesApart ==
  /\ \A i, j \in DOMAIN filled :
       filled[i].is = "gpu" /\ filled[j].is = "gpu" /\ filled[i].lease = filled[j].lease => i = j
  /\ Leases(filled) \cap Coming(control) = {} /\ Leases(filled) \cap Held = {}
  /\ Held \cap Coming(control) = {}

\* A buffer is away from the stream while it is lent, and lent once.
LentOnce ==
  /\ \A b \in Bufs : where[b] = "dequeued" <=> \E e \in lent : e.buf = b
  /\ \A e, d \in lent : e.buf = d.buf => e = d

\* HeldNotDrawn, of each frame.
Kept(frame) ==
  frame.is = "gpu" /\ frame.live =>
    where[frame.buf] = "dequeued" /\ [buf |-> frame.buf, lease |-> frame.lease] \in lent
FramesKept == (\A i \in DOMAIN filled : Kept(filled[i])) /\ Kept(current)

\* BuffersComeBack, of each lease.
LeasesFollowed ==
  at # "done" => \A e \in lent : e.lease \in Leases(filled) \cup Coming(control) \cup Held

\* The inductive invariant.
ScreenInv ==
  ScreenTypes /\ LeasesApart /\ LentOnce /\ FramesKept /\ LeasesFollowed /\ SlotsConserved

-----------------------------------------------------------------------------
(* What the operators on frames and messages do. *)

\* What a function makes of a finite set is finite.
LEMMA FiniteImage ==
  ASSUME NEW S, IsFiniteSet(S), NEW f
  PROVE  IsFiniteSet({f[x] : x \in S})
<1> DEFINE T == {f[x] : x \in S}
           g == [x \in S |-> f[x]]
<1>1. g \in Surjection(S, T)
  BY DEF Surjection
<1> QED BY <1>1, FS_Surjection

\* A frame that is queued, one that is taken, and frames whose buffers went away.
LEMMA LeasesOf ==
  ASSUME NEW s \in Seq(GpuFrames \cup Copies)
  PROVE  /\ IsFiniteSet(Leases(s)) /\ Leases(s) \subseteq Nat
         /\ \A f \in GpuFrames : Leases(Append(s, f)) = Leases(s) \cup {f.lease}
         /\ \A f \in Copies : Leases(Append(s, f)) = Leases(s)
         /\ s # <<>> /\ Head(s).is = "gpu" => Leases(s) = Leases(Tail(s)) \cup {Head(s).lease}
         /\ s # <<>> /\ Head(s).is # "gpu" => Leases(s) = Leases(Tail(s))
<1>1. IsFiniteSet(Leases(s)) /\ Leases(s) \subseteq Nat
  <2> DEFINE on == {j \in 1..Len(s) : s[j].is = "gpu"}
  <2>1. IsFiniteSet(1..Len(s))
    BY FS_Interval
  <2>2. IsFiniteSet(on)
    BY <2>1, FS_Subset
  <2>3. \A i \in on : s[i].lease \in Nat
    BY DEF GpuFrames, Copies
  <2> DEFINE lease == [i \in on |-> s[i].lease]
  <2>4. Leases(s) = {lease[i] : i \in on}
    BY DEF Leases
  <2>5. IsFiniteSet({lease[i] : i \in on})
    BY ZenonT(40), <2>2, FiniteImage
  <2> QED BY <2>3, <2>4, <2>5
<1>2. ASSUME NEW f \in GpuFrames \cup Copies
      PROVE  /\ f \in GpuFrames => Leases(Append(s, f)) = Leases(s) \cup {f.lease}
             /\ f \in Copies => Leases(Append(s, f)) = Leases(s)
  <2>1. /\ Len(Append(s, f)) = Len(s) + 1 /\ Append(s, f)[Len(s) + 1] = f
        /\ \A i \in 1..Len(s) : Append(s, f)[i] = s[i]
    OBVIOUS
  <2>2. (f \in GpuFrames => f.is = "gpu") /\ (f \in Copies => f.is # "gpu")
    BY DEF GpuFrames, Copies
  <2> QED BY <2>1, <2>2 DEF Leases
<1>3. ASSUME s # <<>>
      PROVE  /\ Head(s).is = "gpu" => Leases(s) = Leases(Tail(s)) \cup {Head(s).lease}
             /\ Head(s).is # "gpu" => Leases(s) = Leases(Tail(s))
  <2>1. /\ Len(Tail(s)) = Len(s) - 1 /\ Head(s) = s[1] /\ Len(s) \in Nat \ {0}
        /\ \A i \in 1..Len(s) - 1 : Tail(s)[i] = s[i + 1]
    BY <1>3
  <2>2. \A i \in 1..Len(s) : i = 1 \/ (i - 1 \in 1..Len(s) - 1 /\ s[i] = Tail(s)[i - 1])
    BY <2>1
  <2>3. Leases(Tail(s)) \subseteq Leases(s)
    BY <2>1 DEF Leases
  <2>4. Head(s).is = "gpu" => Head(s).lease \in Leases(s)
    BY <2>1 DEF Leases
  <2>5. ASSUME NEW x \in Leases(s)
        PROVE  x \in Leases(Tail(s)) \/ (Head(s).is = "gpu" /\ x = Head(s).lease)
    <3>1. PICK i \in 1..Len(s) : s[i].is = "gpu" /\ x = s[i].lease
      BY DEF Leases
    <3> QED BY <2>1, <2>2, <3>1 DEF Leases
  <2> QED BY <2>3, <2>4, <2>5
<1> QED BY <1>1, <1>2, <1>3

\* The same of messages.
LEMMA ComingOf ==
  ASSUME NEW s \in Seq(Messages)
  PROVE  /\ IsFiniteSet(Coming(s)) /\ Coming(s) \subseteq Nat
         /\ \A m \in Messages : m.do # "return" => Coming(Append(s, m)) = Coming(s)
         /\ s # <<>> /\ Head(s).do = "return" => Coming(s) = Coming(Tail(s)) \cup {Head(s).lease}
         /\ s # <<>> /\ Head(s).do # "return" => Coming(s) = Coming(Tail(s))
<1>1. IsFiniteSet(Coming(s)) /\ Coming(s) \subseteq Nat
  <2> DEFINE on == {j \in 1..Len(s) : s[j].do = "return"}
             lease == [i \in on |-> s[i].lease]
  <2>1. IsFiniteSet(1..Len(s))
    BY FS_Interval
  <2>2. IsFiniteSet(on)
    BY <2>1, FS_Subset
  <2>3. \A i \in on : s[i].lease \in Nat
    BY DEF Messages
  <2>4. Coming(s) = {lease[i] : i \in on}
    BY DEF Coming
  <2>5. IsFiniteSet({lease[i] : i \in on})
    BY ZenonT(40), <2>2, FiniteImage
  <2> QED BY <2>3, <2>4, <2>5
<1>2. ASSUME NEW m \in Messages, m.do # "return"
      PROVE  Coming(Append(s, m)) = Coming(s)
  <2>1. /\ Len(Append(s, m)) = Len(s) + 1 /\ Append(s, m)[Len(s) + 1] = m
        /\ \A i \in 1..Len(s) : Append(s, m)[i] = s[i]
    OBVIOUS
  <2> QED BY <1>2, <2>1 DEF Coming
<1>3. ASSUME s # <<>>
      PROVE  /\ Head(s).do = "return" => Coming(s) = Coming(Tail(s)) \cup {Head(s).lease}
             /\ Head(s).do # "return" => Coming(s) = Coming(Tail(s))
  <2>1. /\ Len(Tail(s)) = Len(s) - 1 /\ Head(s) = s[1] /\ Len(s) \in Nat \ {0}
        /\ \A i \in 1..Len(s) - 1 : Tail(s)[i] = s[i + 1]
    BY <1>3
  <2>2. \A i \in 1..Len(s) : i = 1 \/ (i - 1 \in 1..Len(s) - 1 /\ s[i] = Tail(s)[i - 1])
    BY <2>1
  <2>3. Coming(Tail(s)) \subseteq Coming(s)
    BY <2>1 DEF Coming
  <2>4. Head(s).do = "return" => Head(s).lease \in Coming(s)
    BY <2>1 DEF Coming
  <2>5. ASSUME NEW x \in Coming(s)
        PROVE  x \in Coming(Tail(s)) \/ (Head(s).do = "return" /\ x = Head(s).lease)
    <3>1. PICK i \in 1..Len(s) : s[i].do = "return" /\ x = s[i].lease
      BY DEF Coming
    <3> QED BY <2>1, <2>2, <3>1 DEF Coming
  <2> QED BY <2>3, <2>4, <2>5
<1> QED BY <1>1, <1>2, <1>3

\* A return more.
LEMMA ReturnComes ==
  ASSUME NEW s \in Seq(Messages), NEW m \in Messages, m.do = "return"
  PROVE  Append(s, m) \in Seq(Messages) /\ Coming(Append(s, m)) = Coming(s) \cup {m.lease}
<1>1. /\ Len(Append(s, m)) = Len(s) + 1 /\ Append(s, m)[Len(s) + 1] = m
      /\ \A i \in 1..Len(s) : Append(s, m)[i] = s[i]
  OBVIOUS
<1> QED BY <1>1 DEF Coming

\* A new lease is none of those around.
LEMMA NewLeaseIsNew == ScreenTypes => NewLease \in Nat /\ NewLease \notin Around
<1> SUFFICES ASSUME ScreenTypes PROVE NewLease \in Nat /\ NewLease \notin Around
  OBVIOUS
<1> DEFINE leases == [e \in lent |-> e.lease]
<1>1. IsFiniteSet({leases[e] : e \in lent})
  BY FiniteImage DEF ScreenTypes
<1>2. {leases[e] : e \in lent} = {e.lease : e \in lent}
  OBVIOUS
<1>3. IsFiniteSet(Held)
  BY FS_Singleton, FS_EmptySet DEF Held
<1>4. IsFiniteSet(Leases(filled)) /\ IsFiniteSet(Coming(control)) /\ Returns = Coming(control)
  BY LeasesOf, ComingOf DEF ScreenTypes, Returns, Coming
<1>5. IsFiniteSet(Around)
  BY <1>1, <1>2, <1>3, <1>4, FS_Union DEF Around
<1>6. Cardinality(Around) \in Nat
  BY <1>5, FS_CardinalityType
<1>7. Cardinality(0..Cardinality(Around)) = Cardinality(Around) + 1
  BY <1>6, FS_Interval
<1>8. ~(0..Cardinality(Around) \subseteq Around)
  <2> SUFFICES ASSUME 0..Cardinality(Around) \subseteq Around PROVE FALSE
    OBVIOUS
  <2>1. Cardinality(0..Cardinality(Around)) <= Cardinality(Around)
    BY <1>5, FS_Subset
  <2> QED BY <1>6, <1>7, <2>1
<1>9. \E n \in 0..Cardinality(Around) : n \notin Around
  BY <1>8
<1> QED BY <1>6, <1>9 DEF NewLease

\* A slot that is taken is one of the pool's.
LEMMA SlotTaken ==
  ASSUME ScreenTypes, Slot # 0
  PROVE  /\ Slot \in Sizes /\ FreeLeft \in Seq(Sizes)
         /\ Len(FreeLeft) + 1 = Len(free) + (IF spare # 0 THEN 1 ELSE 0)
<1>1. free \in Seq(Sizes) /\ spare \in Sizes \cup {0}
  BY DEF ScreenTypes, ScreencastTypeOK
<1>2. CASE spare # 0
  BY <1>1, <1>2 DEF Slot, FreeLeft
<1>3. CASE spare = 0
  <2>1. free # <<>>
    BY <1>3 DEF Slot
  <2>2. Head(free) \in Sizes /\ Tail(free) \in Seq(Sizes) /\ Len(Tail(free)) = Len(free) - 1
    BY <1>1, <2>1
  <2> QED BY <1>1, <1>3, <2>1, <2>2 DEF Slot, FreeLeft
<1> QED BY <1>2, <1>3

-----------------------------------------------------------------------------
(* Every action keeps the invariant. *)

\* A buffer that goes back to the compositor was not lent.
LEMMA RequeueKeeps ==
  ASSUME ScreenInv, NEW b \in Bufs, where[b] = "ready", Requeue(b),
         UNCHANGED <<lent, current>>
  PROVE  /\ where' \in [Bufs -> {"gone", "compositor", "ready", "dequeued"}] /\ LentOnce'
         /\ \A f \in GpuFrames \cup Copies \cup {NoFrame} : Kept(f) => Kept(f)'
<1>1. where \in [Bufs -> {"gone", "compositor", "ready", "dequeued"}]
  BY DEF ScreenInv, ScreenTypes, ScreencastTypeOK
<1>2. where' = [where EXCEPT ![b] = "compositor"]
  BY DEF Requeue
<1>3. \A c \in Bufs : where'[c] = "dequeued" <=> where[c] = "dequeued"
  BY <1>1, <1>2
<1>4. LentOnce'
  BY <1>3 DEF ScreenInv, LentOnce
<1>5. \A f \in GpuFrames \cup Copies \cup {NoFrame} : f.is = "gpu" => f.buf \in Bufs
  BY DEF GpuFrames, Copies, NoFrame
<1> QED BY <1>1, <1>2, <1>3, <1>4, <1>5 DEF Kept

\* A picture in shared memory is copied, and its buffer goes back.
LEMMA CopyKeeps ==
  ASSUME ScreenInv, NEW b \in Bufs, Uses(b), Copy(b)
  PROVE  ScreenInv'
<1> USE DEF ScreenInv
<1>1. /\ where[b] = "ready" /\ Slot # 0 /\ Requeue(b) /\ spare' = 0 /\ free' = FreeLeft
      /\ UNCHANGED <<format, size, stuck, offers, askedFor, control, over, turns, lent>>
      /\ UNCHANGED <<at, current, takesGpu, refused, sent>>
  BY DEF Uses, Copy, shareVars
<1> DEFINE frame == [is |-> "copied", slot |-> Slot, needs |-> size, picture |-> Slot >= size]
<1>2. filled' = Append(filled, frame)
  BY DEF Copy
<1>3. Slot \in Sizes /\ FreeLeft \in Seq(Sizes)
      /\ Len(FreeLeft) + 1 = Len(free) + (IF spare # 0 THEN 1 ELSE 0)
  BY <1>1, SlotTaken
<1>4. frame \in Copies /\ frame.is # "gpu"
  BY <1>3 DEF Copies, ScreenTypes, ScreencastTypeOK
<1>5. filled \in Seq(GpuFrames \cup Copies)
  BY DEF ScreenTypes
<1> HIDE DEF frame
<1>6. /\ filled' \in Seq(GpuFrames \cup Copies) /\ Len(filled') = Len(filled) + 1
      /\ \A i \in DOMAIN filled' : (i \in DOMAIN filled /\ filled'[i] = filled[i]) \/ filled'[i] = frame
      /\ \A i \in DOMAIN filled' : filled'[i].is = "gpu" => i \in DOMAIN filled /\ filled'[i] = filled[i]
      /\ Leases(filled') = Leases(filled)
  BY <1>2, <1>4, <1>5, LeasesOf
<1>7. /\ where' \in [Bufs -> {"gone", "compositor", "ready", "dequeued"}] /\ LentOnce'
      /\ \A f \in GpuFrames \cup Copies \cup {NoFrame} : Kept(f) => Kept(f)'
  BY <1>1, RequeueKeeps
<1>8. ScreenTypes'
  BY <1>1, <1>3, <1>6, <1>7 DEF ScreenTypes, ScreencastTypeOK
<1>9. LeasesApart' /\ LeasesFollowed'
  BY <1>1, <1>6 DEF LeasesApart, LeasesFollowed, Held
<1>10. FramesKept'
  <2>1. Kept(current)' /\ Kept(current) /\ current' = current
    BY <1>1, <1>7 DEF FramesKept, ScreenTypes
  <2>2. ASSUME NEW i \in DOMAIN filled' PROVE Kept(filled[i])'
    <3>1. CASE filled'[i].is # "gpu"
      BY <3>1 DEF Kept
    <3>2. CASE filled'[i].is = "gpu"
      <4>1. i \in DOMAIN filled /\ filled'[i] = filled[i] /\ filled[i] \in GpuFrames \cup Copies
        BY <1>5, <1>6, <3>2
      <4> QED BY <1>7, <4>1 DEF FramesKept, Kept
    <3> QED BY <3>1, <3>2
  <2> QED BY <2>1, <2>2 DEF FramesKept
<1>11. SlotsConserved'
  <2>1. free \in Seq(Sizes) /\ spare \in Sizes \cup {0}
    BY DEF ScreenTypes, ScreencastTypeOK
  <2>2. Len(free) \in Nat /\ Len(filled) \in Nat /\ Len(FreeLeft) \in Nat
    BY <1>3, <1>5, <2>1
  <2> QED BY <1>1, <1>3, <1>6, <2>2 DEF SlotsConserved
<1> QED BY <1>7, <1>8, <1>9, <1>10, <1>11

\* A picture in GPU memory stays in its buffer, which is lent under a new lease.
LEMMA LendKeeps ==
  ASSUME ScreenInv, NEW b \in Bufs, Uses(b), format \in Modifiers, Lend(b)
  PROVE  ScreenInv'
<1> USE DEF ScreenInv
<1>1. /\ where[b] = "ready" /\ Slot # 0 /\ spare' = 0 /\ free' = FreeLeft
      /\ where' = [where EXCEPT ![b] = "dequeued"] /\ Cardinality(lent) + stuck < Lendable
      /\ UNCHANGED <<format, size, stuck, offers, askedFor, control, over, turns>>
      /\ UNCHANGED <<at, current, takesGpu, refused, sent>>
  BY DEF Uses, Lend, MayLend, shareVars
<1> DEFINE lease == NewLease
           entry == [buf |-> b, lease |-> lease]
           frame == [is |-> "gpu", slot |-> Slot, lease |-> lease, buf |-> b,
                     modifier |-> format, live |-> TRUE]
<1>2. filled' = Append(filled, frame) /\ lent' = lent \cup {entry}
  BY DEF Lend
<1>3. Slot \in Sizes /\ FreeLeft \in Seq(Sizes)
      /\ Len(FreeLeft) + 1 = Len(free) + (IF spare # 0 THEN 1 ELSE 0)
  BY <1>1, SlotTaken
<1>4. /\ lease \in Nat /\ lease \notin Leases(filled) /\ lease \notin Coming(control)
      /\ lease \notin Held /\ \A e \in lent : e.lease # lease
  BY NewLeaseIsNew DEF Around, Returns, Coming
<1> HIDE DEF lease
<1>5. /\ frame \in GpuFrames /\ frame.is = "gpu" /\ frame.lease = lease /\ frame.buf = b
      /\ entry \in [buf : Bufs, lease : Nat] /\ entry.buf = b /\ entry.lease = lease
      /\ entry = [buf |-> frame.buf, lease |-> frame.lease]
  BY <1>3, <1>4 DEF GpuFrames, ScreenTypes, ScreencastTypeOK
<1>6. filled \in Seq(GpuFrames \cup Copies)
  BY DEF ScreenTypes
<1> HIDE DEF frame, entry
<1>7. /\ filled' \in Seq(GpuFrames \cup Copies) /\ Len(filled') = Len(filled) + 1
      /\ DOMAIN filled' = 1..Len(filled) + 1 /\ DOMAIN filled = 1..Len(filled)
      /\ filled'[Len(filled) + 1] = frame
      /\ \A i \in 1..Len(filled) : filled'[i] = filled[i]
      /\ Leases(filled') = Leases(filled) \cup {lease}
  BY <1>2, <1>5, <1>6, LeasesOf
<1>8. \A i \in DOMAIN filled : filled[i].is = "gpu" => filled[i].lease \in Leases(filled)
  BY <1>6 DEF Leases
<1>9. where \in [Bufs -> {"gone", "compositor", "ready", "dequeued"}]
  BY DEF ScreenTypes, ScreencastTypeOK
<1>10. \A e \in lent : e.buf # b
  BY <1>1 DEF LentOnce
<1>11. ScreenTypes'
  <2>1. IsFiniteSet(lent') /\ stuck' \in Nat /\ Cardinality(lent') + stuck' <= Lendable
    <3>1. IsFiniteSet(lent) /\ Cardinality(lent) \in Nat /\ stuck \in Nat
      BY FS_CardinalityType DEF ScreenTypes, ScreencastTypeOK
    <3>2. /\ IsFiniteSet(lent \cup {entry})
          /\ Cardinality(lent \cup {entry}) = IF entry \in lent THEN Cardinality(lent) ELSE Cardinality(lent) + 1
      BY <3>1, FS_AddElement
    <3>3. IsFiniteSet(lent') /\ Cardinality(lent') <= Cardinality(lent) + 1
      BY <1>2, <3>1, <3>2
    <3>4. Cardinality(lent') \in Nat
      BY <3>3, FS_CardinalityType
    <3> QED BY <1>1, <3>1, <3>3, <3>4, ScreencastAssumption
  <2> QED BY <1>1, <1>2, <1>3, <1>5, <1>7, <1>9, <2>1 DEF ScreenTypes, ScreencastTypeOK
<1>12. LeasesApart'
  <2>1. ASSUME NEW i \in DOMAIN filled', NEW j \in DOMAIN filled',
               filled'[i].is = "gpu", filled'[j].is = "gpu", filled'[i].lease = filled'[j].lease
        PROVE  i = j
    <3>1. CASE i \in 1..Len(filled) /\ j \in 1..Len(filled)
      BY <1>7, <2>1, <3>1 DEF LeasesApart
    <3>2. CASE ~(i \in 1..Len(filled) /\ j \in 1..Len(filled))
      <4>1. Len(filled) \in Nat
        BY <1>6
      <4>2. i = Len(filled) + 1 \/ j = Len(filled) + 1
        BY <1>7, <3>2, <4>1
      <4>3. \A n \in 1..Len(filled) : filled'[n].is = "gpu" => filled'[n].lease # lease
        BY <1>4, <1>7, <1>8
      <4> QED BY <1>5, <1>7, <2>1, <4>1, <4>2, <4>3
    <3> QED BY <3>1, <3>2
  <2>2. Held' = Held /\ Coming(control)' = Coming(control)
    BY <1>1 DEF Held
  <2> QED BY <1>4, <1>7, <2>1, <2>2 DEF LeasesApart
<1>13. LentOnce'
  <2>1. \A c \in Bufs : where'[c] = "dequeued" <=> \E e \in lent' : e.buf = c
    BY <1>1, <1>2, <1>5, <1>9 DEF LentOnce
  <2> QED BY <1>2, <1>5, <1>10, <2>1 DEF LentOnce
<1>14. FramesKept'
  <2>1. ASSUME NEW f \in GpuFrames \cup Copies \cup {NoFrame}, Kept(f) PROVE Kept(f)'
    <3>1. f.is = "gpu" => f.buf \in Bufs
      BY DEF GpuFrames, Copies, NoFrame
    <3> QED BY <1>1, <1>2, <1>9, <2>1, <3>1 DEF Kept
  <2>2. Kept(current)' /\ current' = current
    BY <1>1, <2>1 DEF FramesKept, ScreenTypes
  <2>3. where'[frame.buf] = "dequeued" /\ [buf |-> frame.buf, lease |-> frame.lease] \in lent'
    BY <1>1, <1>2, <1>5, <1>9
  <2>4. \A i \in 1..Len(filled) : Kept(filled[i])'
    <3> TAKE i \in 1..Len(filled)
    <3>1. filled'[i] = filled[i] /\ filled[i] \in GpuFrames \cup Copies /\ Kept(filled[i])
      BY <1>6, <1>7 DEF FramesKept
    <3> QED BY <2>1, <3>1 DEF Kept
  <2>5. ASSUME NEW i \in DOMAIN filled' PROVE Kept(filled[i])'
    <3>1. i \in 1..Len(filled) \/ (i = Len(filled) + 1 /\ filled'[i] = frame)
      BY <1>6, <1>7
    <3> QED BY <2>3, <2>4, <3>1 DEF Kept
  <2> QED BY <2>2, <2>5 DEF FramesKept
<1>15. LeasesFollowed'
  BY <1>1, <1>2, <1>5, <1>7 DEF LeasesFollowed, Held
<1>16. SlotsConserved'
  <2>1. free \in Seq(Sizes) /\ spare \in Sizes \cup {0}
    BY DEF ScreenTypes, ScreencastTypeOK
  <2>2. Len(free) \in Nat /\ Len(filled) \in Nat /\ Len(FreeLeft) \in Nat
    BY <1>3, <1>6, <2>1
  <2> QED BY <1>1, <1>3, <1>7, <2>2 DEF SlotsConserved
<1> QED BY <1>11, <1>12, <1>13, <1>14, <1>15, <1>16

\* A buffer that is not used goes back, and its slot is set aside; its lending may be stuck.
LEMMA DiscardsKeeps ==
  ASSUME ScreenInv, NEW b \in Bufs, Discards(b)
  PROVE  ScreenInv'
<1> USE DEF ScreenInv
<1>1. /\ where[b] = "ready" /\ Requeue(b)
      /\ UNCHANGED <<format, size, offers, askedFor, control, over, turns, lent, filled>>
      /\ UNCHANGED <<at, current, takesGpu, refused, sent>>
      /\ \/ UNCHANGED <<free, spare>>
         \/ Slot # 0 /\ spare' = Slot /\ free' = FreeLeft
      /\ stuck' = stuck \/ (stuck' = stuck + 1 /\ Cardinality(lent) + stuck < Lendable)
  BY DEF Discards, Unused, SetAside, MayLend, shareVars
<1>2. free' \in Seq(Sizes) /\ spare' \in Sizes \cup {0} /\ SlotsConserved'
  <2>1. CASE UNCHANGED <<free, spare>>
    BY <1>1, <2>1 DEF SlotsConserved, ScreenTypes, ScreencastTypeOK
  <2>2. CASE Slot # 0 /\ spare' = Slot /\ free' = FreeLeft
    <3>1. /\ Slot \in Sizes /\ FreeLeft \in Seq(Sizes)
          /\ Len(FreeLeft) + 1 = Len(free) + (IF spare # 0 THEN 1 ELSE 0)
      BY <2>2, SlotTaken
    <3>2. /\ free \in Seq(Sizes) /\ filled \in Seq(GpuFrames \cup Copies)
      BY DEF ScreenTypes, ScreencastTypeOK
    <3>3. Len(free) \in Nat /\ Len(filled) \in Nat /\ Len(FreeLeft) \in Nat /\ Slot # 0
      BY <2>2, <3>1, <3>2
    <3> QED BY <1>1, <2>2, <3>1, <3>3 DEF SlotsConserved
  <2> QED BY <1>1, <2>1, <2>2
<1>3. /\ where' \in [Bufs -> {"gone", "compositor", "ready", "dequeued"}] /\ LentOnce'
      /\ \A f \in GpuFrames \cup Copies \cup {NoFrame} : Kept(f) => Kept(f)'
  BY <1>1, RequeueKeeps
<1>4. ScreenTypes'
  <2>1. stuck' \in Nat /\ Cardinality(lent') + stuck' <= Lendable
    <3>1. Cardinality(lent) \in Nat /\ stuck \in Nat /\ Cardinality(lent) + stuck <= Lendable
      BY FS_CardinalityType DEF ScreenTypes, ScreencastTypeOK
    <3> QED BY <1>1, <3>1, ScreencastAssumption
  <2> QED BY <1>1, <1>2, <1>3, <2>1 DEF ScreenTypes, ScreencastTypeOK
<1>5. LeasesApart' /\ LeasesFollowed'
  BY <1>1 DEF LeasesApart, LeasesFollowed, Held
<1>6. FramesKept'
  <2>1. Kept(current)'
    BY <1>1, <1>3 DEF FramesKept, ScreenTypes, Kept
  <2>2. \A i \in DOMAIN filled' : Kept(filled[i])'
    <3> TAKE i \in DOMAIN filled'
    <3>1. filled'[i] = filled[i] /\ filled[i] \in GpuFrames \cup Copies /\ Kept(filled[i])
      BY <1>1 DEF FramesKept, ScreenTypes
    <3> QED BY <1>3, <3>1 DEF Kept
  <2> QED BY <2>1, <2>2 DEF FramesKept
<1> QED BY <1>2, <1>3, <1>4, <1>5, <1>6

\* The compositor fills a buffer it has.
LEMMA FillKeeps ==
  ASSUME ScreenInv, NEW b \in Bufs, FillBuffer(b)
  PROVE  ScreenInv'
<1> USE DEF ScreenInv
<1>1. /\ where[b] = "compositor" /\ where' = [where EXCEPT ![b] = "ready"]
      /\ UNCHANGED <<format, size, stuck, offers, askedFor, control, over, turns, lent, filled>>
      /\ UNCHANGED <<free, spare>>
      /\ UNCHANGED <<at, current, takesGpu, refused, sent>>
  BY DEF FillBuffer, shareVars
<1>2. where \in [Bufs -> {"gone", "compositor", "ready", "dequeued"}]
  BY DEF ScreenTypes, ScreencastTypeOK
<1>3. \A c \in Bufs : where'[c] = "dequeued" <=> where[c] = "dequeued"
  BY <1>1, <1>2
<1>4. ScreenTypes'
  BY <1>1, <1>2 DEF ScreenTypes, ScreencastTypeOK
<1>5. LeasesApart' /\ LeasesFollowed' /\ LentOnce' /\ SlotsConserved'
  BY <1>1, <1>3 DEF LeasesApart, LeasesFollowed, LentOnce, Held, SlotsConserved
<1>6. ASSUME NEW f \in GpuFrames \cup Copies \cup {NoFrame}, Kept(f) PROVE Kept(f)'
  <2>1. f.is = "gpu" => f.buf \in Bufs
    BY DEF GpuFrames, Copies, NoFrame
  <2> QED BY <1>1, <1>3, <1>6, <2>1 DEF Kept
<1>7. FramesKept'
  <2>1. Kept(current)'
    BY <1>1, <1>6 DEF FramesKept, ScreenTypes, Kept
  <2>2. \A i \in DOMAIN filled' : Kept(filled[i])'
    <3> TAKE i \in DOMAIN filled'
    <3>1. filled'[i] = filled[i] /\ filled[i] \in GpuFrames \cup Copies /\ Kept(filled[i])
      BY <1>1 DEF FramesKept, ScreenTypes
    <3> QED BY <1>6, <3>1 DEF Kept
  <2> QED BY <2>1, <2>2 DEF FramesKept
<1> QED BY <1>4, <1>5, <1>7

\* A new format: all buffers are other ones, and no frame is of them.
LEMMA RenegotiateKeeps ==
  ASSUME ScreenInv, NEW f \in Modifiers \cup {Shared, "none"}, Renegotiate(f), turns' \in 0..MaxTurns
  PROVE  ScreenInv'
<1> USE DEF ScreenInv
<1>1. /\ format' = f /\ lent' = {} /\ stuck' = 0 /\ current' = Outlived(current)
      /\ where' = [b \in Bufs |-> IF f = "none" THEN "gone" ELSE "compositor"]
      /\ filled' = [i \in DOMAIN filled |-> Outlived(filled[i])] /\ size' \in Sizes
      /\ UNCHANGED <<free, spare, offers, control, over, at, takesGpu, refused, sent>>
  BY DEF Renegotiate, Removed, RemoveBuffers, ScreenTypes, ScreencastTypeOK
<1>2. ASSUME NEW x \in GpuFrames \cup Copies \cup {NoFrame}
      PROVE  /\ Outlived(x).is = x.is /\ (x.is = "gpu" => Outlived(x).lease = x.lease /\ ~Outlived(x).live)
             /\ x \in GpuFrames => Outlived(x) \in GpuFrames
             /\ x \in Copies => Outlived(x) \in Copies
             /\ x = NoFrame => Outlived(x) = NoFrame
  <2>1. CASE x \in GpuFrames
    <3>1. /\ Outlived(x) \in GpuFrames /\ Outlived(x).lease = x.lease /\ Outlived(x).live = FALSE
          /\ Outlived(x).is = "gpu" /\ x.is = "gpu"
      BY <2>1 DEF Outlived, GpuFrames
    <3> QED BY <2>1, <3>1 DEF Copies, NoFrame
  <2>2. CASE x \in Copies \cup {NoFrame}
    <3>1. x.is # "gpu"
      BY <2>2 DEF Copies, NoFrame
    <3>2. Outlived(x) = x /\ x \notin GpuFrames
      BY <3>1 DEF Outlived, GpuFrames
    <3> QED BY <3>1, <3>2
  <2> QED BY <2>1, <2>2
<1>3. filled \in Seq(GpuFrames \cup Copies) /\ current \in GpuFrames \cup {NoFrame}
  BY DEF ScreenTypes
<1>4. /\ DOMAIN filled' = 1..Len(filled) /\ DOMAIN filled = 1..Len(filled) /\ Len(filled) \in Nat
      /\ \A i \in 1..Len(filled) : /\ filled[i] \in GpuFrames \cup Copies
                                 /\ filled'[i] = Outlived(filled[i])
                                 /\ filled'[i] \in GpuFrames \cup Copies
  BY <1>1, <1>2, <1>3
<1>5. filled' \in Seq(GpuFrames \cup Copies) /\ Len(filled') = Len(filled)
  BY <1>1, <1>4
<1>6. \A i \in 1..Len(filled) :
        /\ filled'[i].is = filled[i].is
        /\ filled[i].is = "gpu" => filled'[i].lease = filled[i].lease /\ ~filled'[i].live
  BY <1>2, <1>4
<1>7. Leases(filled') = Leases(filled) /\ Held' = Held
  <2>1. Leases(filled') \subseteq Leases(filled) /\ Leases(filled) \subseteq Leases(filled')
    BY <1>5, <1>6 DEF Leases
  <2>2. Held' = Held
    BY <1>1, <1>2, <1>3 DEF Held
  <2> QED BY <2>1, <2>2
<1>8. ScreenTypes'
  <2>1. IsFiniteSet(lent') /\ Cardinality(lent') = 0
    BY <1>1, FS_EmptySet
  <2>2. current' \in GpuFrames \cup {NoFrame} /\ current'.is = current.is
    BY <1>1, <1>2, <1>3
  <2> QED BY <1>1, <1>5, <2>1, <2>2, ScreencastAssumption DEF ScreenTypes, ScreencastTypeOK
<1>9. LeasesApart'
  <2>1. \A i, j \in DOMAIN filled' :
          filled'[i].is = "gpu" /\ filled'[j].is = "gpu" /\ filled'[i].lease = filled'[j].lease => i = j
    BY <1>4, <1>6 DEF LeasesApart
  <2>2. Coming(control') = Coming(control)
    BY <1>1
  <2> QED BY <1>7, <2>1, <2>2 DEF LeasesApart
<1>10. LentOnce' /\ LeasesFollowed'
  BY <1>1 DEF LentOnce, LeasesFollowed
<1>11. FramesKept'
  <2>1. Kept(current)'
    BY <1>1, <1>2, <1>3 DEF Kept
  <2>2. \A i \in DOMAIN filled' : Kept(filled[i])'
    BY <1>4, <1>6 DEF Kept
  <2> QED BY <2>1, <2>2 DEF FramesKept
<1>12. SlotsConserved'
  BY <1>1, <1>5 DEF SlotsConserved
<1> QED BY <1>8, <1>9, <1>10, <1>11, <1>12

\* A return frees the buffer it was lent for: no frame that is read is in it.
LEMMA OnControlKeeps ==
  ASSUME ScreenInv, OnControl
  PROVE  ScreenInv'
<1> USE DEF ScreenInv
<1> DEFINE message == Head(control)
           back == {e \in lent : message.do = "return" /\ e.lease = message.lease}
<1>1. /\ control # <<>> /\ control' = Tail(control) /\ lent' = lent \ back
      /\ where' = [b \in Bufs |-> IF \E e \in back : e.buf = b THEN "compositor" ELSE where[b]]
      /\ offers' = (IF message.do = "refuse" THEN Refuse(message.modifier) ELSE offers)
      /\ UNCHANGED <<format, size, stuck, free, spare, filled, over, turns>>
      /\ UNCHANGED <<at, current, takesGpu, refused, sent>>
  BY DEF OnControl, shareVars
<1>2. /\ control \in Seq(Messages) /\ filled \in Seq(GpuFrames \cup Copies)
      /\ current \in GpuFrames \cup {NoFrame}
      /\ where \in [Bufs -> {"gone", "compositor", "ready", "dequeued"}]
      /\ lent \subseteq [buf : Bufs, lease : Nat]
  BY DEF ScreenTypes, ScreencastTypeOK
<1>3. /\ message.do = "return" => Coming(control) = Coming(control') \cup {message.lease}
      /\ message.do # "return" => Coming(control) = Coming(control')
      /\ control' \in Seq(Messages)
  BY <1>1, <1>2, ComingOf
<1>4. \A e \in back : e \in lent /\ e.lease \in Coming(control)
  BY <1>3
<1>5. \A e \in lent \ back : e.lease \in Coming(control) => e.lease \in Coming(control')
  BY <1>3
<1>6. offers' \subseteq Modifiers
  BY <1>1 DEF Refuse, DropOffer, ScreenTypes, ScreencastTypeOK
<1> HIDE DEF message, back
<1>7. \A b \in Bufs : where'[b] = "dequeued" <=> where[b] = "dequeued" /\ ~\E e \in back : e.buf = b
  BY <1>1
<1>8. ScreenTypes'
  <2>1. IsFiniteSet(lent') /\ Cardinality(lent') + stuck <= Lendable
    <3>1. /\ IsFiniteSet(lent) /\ Cardinality(lent) \in Nat /\ stuck \in Nat
          /\ Cardinality(lent) + stuck <= Lendable
      BY FS_CardinalityType DEF ScreenTypes, ScreencastTypeOK
    <3>2. IsFiniteSet(lent') /\ Cardinality(lent') <= Cardinality(lent)
      BY <1>1, <3>1, FS_Subset
    <3>3. Cardinality(lent') \in Nat
      BY <3>2, FS_CardinalityType
    <3> QED BY <3>1, <3>2, <3>3, ScreencastAssumption
  <2>2. where' \in [Bufs -> {"gone", "compositor", "ready", "dequeued"}]
    BY <1>1, <1>2
  <2> QED BY <1>1, <1>3, <1>6, <2>1, <2>2 DEF ScreenTypes, ScreencastTypeOK
<1>9. LeasesApart'
  BY <1>1, <1>3 DEF LeasesApart, Held
<1>10. LentOnce'
  <2>1. ASSUME NEW b \in Bufs PROVE where'[b] = "dequeued" <=> \E e \in lent' : e.buf = b
    BY <1>1, <1>4, <1>7 DEF LentOnce
  <2> QED BY <1>1, <2>1 DEF LentOnce
<1>11. ASSUME NEW x \in GpuFrames \cup Copies \cup {NoFrame}, Kept(x),
              x.is = "gpu" => x.lease \notin Coming(control)
       PROVE  Kept(x)'
  <2> SUFFICES ASSUME x.is = "gpu", x.live
               PROVE  where'[x.buf] = "dequeued" /\ [buf |-> x.buf, lease |-> x.lease] \in lent'
    BY DEF Kept
  <2> DEFINE mine == [buf |-> x.buf, lease |-> x.lease]
  <2>1. where[x.buf] = "dequeued" /\ mine \in lent /\ mine.buf = x.buf /\ mine.lease = x.lease
    BY <1>11 DEF Kept
  <2>2. x.buf \in Bufs
    BY DEF GpuFrames, Copies, NoFrame
  <2>3. mine \notin back
    BY <1>4, <1>11, <2>1
  <2>4. ASSUME NEW e \in back, e.buf = x.buf PROVE FALSE
    BY <1>4, <2>1, <2>3, <2>4 DEF LentOnce
  <2> QED BY <1>1, <1>7, <2>1, <2>2, <2>3, <2>4
<1>12. FramesKept'
  <2>1. Kept(current)'
    <3>1. current.is = "gpu" => current.lease \notin Coming(control)
      BY DEF LeasesApart, Held
    <3> QED BY <1>1, <1>2, <1>11, <3>1 DEF FramesKept, Kept
  <2>2. \A i \in DOMAIN filled' : Kept(filled[i])'
    <3> TAKE i \in DOMAIN filled'
    <3>1. filled'[i] = filled[i] /\ filled[i] \in GpuFrames \cup Copies /\ Kept(filled[i])
      BY <1>1, <1>2 DEF FramesKept
    <3>2. i \in 1..Len(filled)
      BY <1>1, <1>2
    <3>3. filled[i].is = "gpu" => filled[i].lease \in Leases(filled)
      BY <3>2 DEF Leases
    <3> QED BY <1>11, <3>1, <3>3 DEF Kept, LeasesApart
  <2> QED BY <2>1, <2>2 DEF FramesKept
<1>13. LeasesFollowed' /\ SlotsConserved'
  BY <1>1, <1>5 DEF LeasesFollowed, SlotsConserved, Held
<1> QED BY <1>8, <1>9, <1>10, <1>12, <1>13

\* The frame held goes back.
LEMMA GivenBackDoes ==
  ASSUME ScreenTypes
  PROVE  GivenBack \in Seq(Messages) /\ Coming(GivenBack) = Coming(control) \cup Held
<1>1. control \in Seq(Messages) /\ current \in GpuFrames \cup {NoFrame}
  BY DEF ScreenTypes
<1>2. CASE current.is = "gpu"
  <2>1. Return(current) \in Messages /\ Return(current).do = "return" /\ Return(current).lease = current.lease
    BY <1>1, <1>2 DEF Return, Messages, GpuFrames, NoFrame
  <2>2. Coming(Append(control, Return(current))) = Coming(control) \cup {current.lease}
    BY <1>1, <2>1, ReturnComes
  <2> QED BY <1>1, <1>2, <2>1, <2>2 DEF GivenBack, Held
<1>3. CASE current.is # "gpu"
  BY <1>1, <1>3 DEF GivenBack, Held
<1> QED BY <1>2, <1>3

\* A frame leaves the ring, with its slot.
LEMMA TakenFromRing ==
  ASSUME ScreenInv, filled # <<>>, filled' = Tail(filled), NEW n \in Sizes, free' = Append(free, n),
         UNCHANGED <<spare, where, lent>>
  PROVE  /\ filled' \in Seq(GpuFrames \cup Copies) /\ free' \in Seq(Sizes) /\ SlotsConserved'
         /\ \A i, j \in DOMAIN filled' :
              filled'[i].is = "gpu" /\ filled'[j].is = "gpu" /\ filled'[i].lease = filled'[j].lease => i = j
         /\ \A i \in DOMAIN filled' : Kept(filled[i])'
         /\ Head(filled) \in GpuFrames \cup Copies /\ Kept(Head(filled))
         /\ Head(filled).is = "gpu" =>
              /\ Leases(filled) = Leases(filled') \cup {Head(filled).lease}
              /\ Head(filled).lease \notin Leases(filled')
         /\ Head(filled).is # "gpu" => Leases(filled) = Leases(filled')
<1> USE DEF ScreenInv
<1>1. filled \in Seq(GpuFrames \cup Copies) /\ free \in Seq(Sizes)
  BY DEF ScreenTypes, ScreencastTypeOK
<1>2. /\ Head(filled) = filled[1] /\ Len(filled) \in Nat \ {0} /\ Len(filled') = Len(filled) - 1
      /\ DOMAIN filled' = 1..Len(filled) - 1 /\ DOMAIN filled = 1..Len(filled)
      /\ \A i \in 1..Len(filled) - 1 : i + 1 \in 1..Len(filled) /\ filled'[i] = filled[i + 1]
      /\ filled' \in Seq(GpuFrames \cup Copies)
  BY <1>1
<1>3. free' \in Seq(Sizes) /\ Len(free') = Len(free) + 1 /\ Len(free) \in Nat
  BY <1>1
<1>4. SlotsConserved'
  BY <1>2, <1>3 DEF SlotsConserved
<1>5. ASSUME NEW i \in DOMAIN filled', NEW j \in DOMAIN filled',
             filled'[i].is = "gpu", filled'[j].is = "gpu", filled'[i].lease = filled'[j].lease
      PROVE  i = j
  <2>1. i + 1 = j + 1
    BY <1>2, <1>5 DEF LeasesApart
  <2> QED BY <1>2, <2>1
<1>6. \A i \in DOMAIN filled' : Kept(filled[i])'
  BY <1>2 DEF FramesKept, Kept
<1>7. Head(filled) \in GpuFrames \cup Copies /\ Kept(Head(filled))
  BY <1>1, <1>2 DEF FramesKept
<1>8. ASSUME Head(filled).is = "gpu", Head(filled).lease \in Leases(filled') PROVE FALSE
  <2>1. PICK i \in 1..Len(filled') : filled'[i].is = "gpu" /\ filled'[i].lease = Head(filled).lease
    BY <1>8 DEF Leases
  <2>2. i + 1 = 1
    BY <1>2, <1>8, <2>1 DEF LeasesApart
  <2> QED BY <1>2, <2>1, <2>2
<1> QED BY <1>1, <1>2, <1>3, <1>4, <1>5, <1>6, <1>7, <1>8, LeasesOf

\* next_dmabuf: the lease of the frame held goes into its return, the next one's into the hand,
\* or into a return at once.
LEMMA NextDmabufKeeps ==
  ASSUME ScreenInv, NextDmabuf
  PROVE  ScreenInv'
<1> USE DEF ScreenInv
<1>1. /\ UNCHANGED <<where, format, size, lent, stuck, spare, offers, refused, over, sent, turns>>
      /\ at \in {"first", "run"}
  BY DEF NextDmabuf
<1>2. GivenBack \in Seq(Messages) /\ Coming(GivenBack) = Coming(control) \cup Held
  BY GivenBackDoes
<1>3. CASE ~NextIsGpu
  <2>1. /\ control' = GivenBack /\ current' = NoFrame /\ UNCHANGED <<filled, free>>
        /\ at' \in {"firstFrame", "frame"}
    BY <1>3 DEF NextDmabuf
  <2>2. Held' = {} /\ NoFrame.is # "gpu"
    BY <2>1 DEF Held, NoFrame
  <2>3. ScreenTypes'
    BY <1>1, <1>2, <2>1 DEF ScreenTypes, ScreencastTypeOK
  <2>4. LeasesApart' /\ LeasesFollowed' /\ LentOnce' /\ SlotsConserved'
    BY <1>1, <1>2, <2>1, <2>2 DEF LeasesApart, LeasesFollowed, LentOnce, SlotsConserved
  <2>5. FramesKept'
    BY <1>1, <2>1, <2>2 DEF FramesKept, Kept
  <2> QED BY <2>3, <2>4, <2>5
<1>4. CASE NextIsGpu
  <2> DEFINE frame == Head(filled)
  <2>1. /\ filled # <<>> /\ frame.is = "gpu" /\ filled' = Tail(filled)
        /\ free' = Append(free, frame.slot)
        /\ \/ control' = Append(GivenBack, Return(frame)) /\ current' = NoFrame /\ at' = at
           \/ control' = GivenBack /\ current' = frame /\ at' \in {"run", "encode"}
    BY <1>4 DEF NextDmabuf, NextIsGpu, Unread, ReturnUnread
  <2>2. frame \in GpuFrames \cup Copies
    BY <2>1 DEF ScreenTypes
  <2>3. frame \in GpuFrames /\ frame.slot \in Sizes /\ frame.lease \in Nat
    BY <2>1, <2>2 DEF GpuFrames, Copies
  <2>4. /\ filled' \in Seq(GpuFrames \cup Copies) /\ free' \in Seq(Sizes) /\ SlotsConserved'
        /\ \A i, j \in DOMAIN filled' :
             filled'[i].is = "gpu" /\ filled'[j].is = "gpu" /\ filled'[i].lease = filled'[j].lease => i = j
        /\ \A i \in DOMAIN filled' : Kept(filled[i])'
        /\ Kept(frame)
        /\ Leases(filled) = Leases(filled') \cup {frame.lease}
        /\ frame.lease \notin Leases(filled')
    BY <1>1, <2>1, <2>3, TakenFromRing
  <2> HIDE DEF frame
  <2>5. CASE control' = Append(GivenBack, Return(frame)) /\ current' = NoFrame /\ at' = at
    <3>1. Return(frame) \in Messages /\ Return(frame).do = "return" /\ Return(frame).lease = frame.lease
      BY <2>3 DEF Return, Messages
    <3>2. /\ control' \in Seq(Messages)
          /\ Coming(control') = Coming(control) \cup Held \cup {frame.lease}
      <4> DEFINE back == Return(frame)
      <4>1. back \in Messages /\ back.do = "return" /\ back.lease = frame.lease
        BY <3>1
      <4> HIDE DEF back
      <4>2. Coming(Append(GivenBack, back)) = Coming(GivenBack) \cup {back.lease}
        BY <1>2, <4>1, ReturnComes
      <4>3. control' = Append(GivenBack, back)
        BY <2>5 DEF back
      <4> QED BY <1>2, <4>1, <4>2, <4>3
    <3>3. Held' = {} /\ NoFrame.is # "gpu"
      BY <2>5 DEF Held, NoFrame
    <3>4. ScreenTypes'
      BY <1>1, <2>4, <2>5, <3>2 DEF ScreenTypes, ScreencastTypeOK
    <3>5. LeasesApart' /\ LeasesFollowed' /\ LentOnce'
      BY <1>1, <2>4, <2>5, <3>2, <3>3 DEF LeasesApart, LeasesFollowed, LentOnce
    <3>6. FramesKept'
      BY <2>4, <2>5, <3>3 DEF FramesKept, Kept
    <3> QED BY <2>4, <3>4, <3>5, <3>6
  <2>6. CASE control' = GivenBack /\ current' = frame /\ at' \in {"run", "encode"}
    <3>1. Held' = {frame.lease}
      BY <2>1, <2>6 DEF Held
    <3>2. ScreenTypes'
      BY <1>1, <1>2, <2>1, <2>3, <2>4, <2>6 DEF ScreenTypes, ScreencastTypeOK
    <3>3. LeasesApart' /\ LeasesFollowed' /\ LentOnce'
      BY <1>1, <1>2, <2>4, <2>6, <3>1 DEF LeasesApart, LeasesFollowed, LentOnce
    <3>4. FramesKept'
      BY <1>1, <2>4, <2>6 DEF FramesKept, Kept
    <3> QED BY <2>4, <3>2, <3>3, <3>4
  <2> QED BY <2>1, <2>5, <2>6
<1> QED BY <1>3, <1>4

\* next_frame: a copied picture leaves the ring.
LEMMA NextFrameKeeps ==
  ASSUME ScreenInv, NextFrame
  PROVE  ScreenInv'
<1> USE DEF ScreenInv
<1>1. /\ UNCHANGED <<where, format, size, lent, stuck, spare, offers, control, refused>>
      /\ UNCHANGED <<current, over, turns>>
      /\ at \in {"firstFrame", "frame"} /\ at' \in {"firstFrame", "frame", "first", "run"}
  BY DEF NextFrame
<1>2. Held' = Held /\ Coming(control') = Coming(control)
  BY <1>1 DEF Held
<1>3. CASE filled = <<>> \/ NextIsGpu
  <2>1. UNCHANGED <<filled, free, sent>>
    BY <1>3 DEF NextFrame
  <2>2. ScreenTypes'
    BY <1>1, <2>1 DEF ScreenTypes, ScreencastTypeOK
  <2>3. LeasesApart' /\ LeasesFollowed' /\ LentOnce' /\ SlotsConserved' /\ FramesKept'
    BY <1>1, <1>2, <2>1 DEF LeasesApart, LeasesFollowed, LentOnce, SlotsConserved, FramesKept, Kept
  <2> QED BY <2>2, <2>3
<1>4. CASE ~(filled = <<>> \/ NextIsGpu)
  <2> DEFINE slot == Head(filled)
             next == IF slot.slot < slot.needs THEN slot.needs ELSE slot.slot
  <2>1. /\ filled # <<>> /\ slot.is # "gpu" /\ filled' = Tail(filled)
        /\ free' = Append(free, next) /\ sent' = (sent # slot.picture)
    BY <1>4 DEF NextFrame, NextIsGpu
  <2>2. slot \in GpuFrames \cup Copies
    BY <2>1 DEF ScreenTypes
  <2>3. next \in Sizes /\ sent' \in BOOLEAN
    BY <2>1, <2>2 DEF GpuFrames, Copies
  <2> HIDE DEF next
  <2>4. /\ filled' \in Seq(GpuFrames \cup Copies) /\ free' \in Seq(Sizes) /\ SlotsConserved'
        /\ \A i, j \in DOMAIN filled' :
             filled'[i].is = "gpu" /\ filled'[j].is = "gpu" /\ filled'[i].lease = filled'[j].lease => i = j
        /\ \A i \in DOMAIN filled' : Kept(filled[i])'
        /\ Leases(filled) = Leases(filled')
    BY <1>1, <2>1, <2>3, TakenFromRing
  <2> HIDE DEF slot
  <2>5. ScreenTypes'
    BY <1>1, <2>3, <2>4 DEF ScreenTypes, ScreencastTypeOK
  <2>6. LeasesApart' /\ LeasesFollowed' /\ LentOnce'
    BY <1>1, <1>2, <2>4 DEF LeasesApart, LeasesFollowed, LentOnce
  <2>7. FramesKept'
    BY <1>1, <2>4 DEF FramesKept, Kept
  <2> QED BY <2>4, <2>5, <2>6, <2>7
<1> QED BY <1>3, <1>4

\* Pictures are encoded, skipped or refused, and the share ends.
LEMMA RestKeeps ==
  ASSUME ScreenInv, RefusePicture \/ EncodePicture \/ SkipPicture \/ Stops \/ ShareOver
  PROVE  ScreenInv'
<1> USE DEF ScreenInv
<1>1. /\ UNCHANGED <<where, format, size, lent, stuck, free, spare, filled, offers, turns>>
      /\ at' \in {at, "run", "done"} /\ over' \in {over, TRUE} /\ sent' \in {sent, ~sent}
      /\ current' = current \/ (current' = NoFrame /\ at' = "done")
      /\ at' = "encode" => current' = current /\ at = "encode"
      /\ at = "done" => at' = "done"
  BY DEF RefusePicture, EncodePicture, SkipPicture, Stops, ShareOver, shareVars
<1>2. /\ control' \in Seq(Messages) /\ Coming(control') = Coming(control)
      /\ refused' \subseteq Modifiers \cup {All}
  <2>1. control \in Seq(Messages) /\ refused \subseteq Modifiers \cup {All}
    BY DEF ScreenTypes, ScreencastTypeOK
  <2>2. CASE RefusePicture
    <3>1. current \in GpuFrames
      BY <2>2 DEF RefusePicture, ScreenTypes, NoFrame
    <3>2. Refusal \subseteq Modifiers \cup {All}
      BY <3>1 DEF Refusal, GpuFrames
    <3>3. PICK m \in Refusal : control' = Append(control, [do |-> "refuse", modifier |-> m])
      BY <2>2 DEF RefusePicture
    <3>4. [do |-> "refuse", modifier |-> m] \in Messages /\ [do |-> "refuse", modifier |-> m].do # "return"
      BY <3>2 DEF Messages
    <3> QED BY <2>1, <2>2, <3>2, <3>3, <3>4, ComingOf DEF RefusePicture
  <2>3. CASE Stops
    <3>1. [do |-> "quit"] \in Messages /\ [do |-> "quit"].do # "return"
      BY DEF Messages
    <3> QED BY <2>1, <2>3, <3>1, ComingOf DEF Stops
  <2>4. CASE EncodePicture \/ SkipPicture \/ ShareOver
    BY <2>1, <2>4 DEF EncodePicture, SkipPicture, ShareOver, shareVars
  <2> QED BY <2>2, <2>3, <2>4
<1>3. NoFrame.is # "gpu"
  BY DEF NoFrame
<1>4. Held' \subseteq Held /\ (at' # "done" => Held' = Held)
  BY <1>1, <1>3 DEF Held
<1>5. ScreenTypes'
  <2>1. over' \in BOOLEAN /\ sent' \in BOOLEAN
    BY <1>1 DEF ScreenTypes, ScreencastTypeOK
  <2> QED BY <1>1, <1>2, <2>1 DEF ScreenTypes, ScreencastTypeOK
<1>6. LeasesApart' /\ LeasesFollowed' /\ LentOnce' /\ SlotsConserved'
  BY <1>1, <1>2, <1>4 DEF LeasesApart, LeasesFollowed, LentOnce, SlotsConserved
<1>7. FramesKept'
  BY <1>1, <1>3 DEF FramesKept, Kept
<1> QED BY <1>5, <1>6, <1>7

\* Every step keeps it.
LEMMA ScreenStep == ScreenInv /\ [ScreencastNext]_screenVars => ScreenInv'
<1> SUFFICES ASSUME ScreenInv, [ScreencastNext]_screenVars PROVE ScreenInv'
  OBVIOUS
<1>1. CASE \E b \in Bufs : Uses(b)
  BY <1>1, CopyKeeps, LendKeeps DEF Uses
<1>2. CASE \E b \in Bufs : Discards(b) \/ FillBuffer(b)
  BY <1>2, DiscardsKeeps, FillKeeps
<1>3. CASE PickFormat
  <2>1. PICK f \in offers \cup {Shared} : Renegotiate(f)
    BY <1>3 DEF PickFormat
  <2>2. f \in Modifiers \cup {Shared, "none"} /\ turns' \in 0..MaxTurns
    BY <1>3 DEF PickFormat, ScreenInv, ScreenTypes, ScreencastTypeOK
  <2> QED BY <2>1, <2>2, RenegotiateKeeps
<1>4. CASE FormatTurns
  <2>1. turns' \in 0..MaxTurns
    BY <1>4, ScreencastAssumption DEF FormatTurns, ScreenInv, ScreenTypes, ScreencastTypeOK
  <2> QED BY <1>4, <2>1, RenegotiateKeeps DEF FormatTurns
<1>5. CASE OnControl \/ NextDmabuf \/ NextFrame
  BY <1>5, OnControlKeeps, NextDmabufKeeps, NextFrameKeeps
<1>6. CASE RefusePicture \/ EncodePicture \/ SkipPicture \/ Stops \/ ShareOver
  BY <1>6, RestKeeps
<1>7. CASE UNCHANGED screenVars
  BY <1>7 DEF screenVars, ScreenInv, ScreenTypes, ScreencastTypeOK, LeasesApart, LentOnce, FramesKept,
              Kept, LeasesFollowed, SlotsConserved, Held
<1> QED BY <1>1, <1>2, <1>3, <1>4, <1>5, <1>6, <1>7 DEF ScreencastNext

\* It says that buffers and slots are kept.
LEMMA ScreenSays == ScreenInv => BuffersKept
<1> SUFFICES ASSUME ScreenInv PROVE BuffersKept
  OBVIOUS
<1>1. HeldNotDrawn
  BY DEF ScreenInv, FramesKept, Kept, HeldNotDrawn
<1>2. BuffersComeBack
  BY DEF ScreenInv, LentOnce, LeasesFollowed, BuffersComeBack, Returns, Coming
<1> QED BY <1>1, <1>2 DEF BuffersKept, ScreenInv

\* A buffer the share thread reads is not drawn into, none is lost, and no slot of the pool is
\* lost or doubled, for every number of buffers, slots and leases, however late a return,
\* however many pictures are damaged, which costs an entry each and no buffer, and whatever the
\* addresses of the next format's buffers (linux.rs Lent, give_back, take, next_dmabuf).
THEOREM BuffersAlwaysKept == ScreencastSpec => []BuffersKept
<1>1. ScreencastInit => ScreenInv
  <2> SUFFICES ASSUME ScreencastInit PROVE ScreenInv
    OBVIOUS
  <2>1. /\ where = [b \in Bufs |-> "gone"] /\ format = "none" /\ size = 1
        /\ lent = {} /\ stuck = 0 /\ free = [i \in 1..Pool |-> 1] /\ spare = 0 /\ filled = <<>>
        /\ control = <<>> /\ refused = {} /\ at = "first" /\ current = NoFrame
        /\ over = FALSE /\ sent = FALSE /\ turns = 0 /\ offers \subseteq Modifiers
    BY DEF ScreencastInit, Offered
  <2>2. IsFiniteSet(lent) /\ Cardinality(lent) = 0
    BY <2>1, FS_EmptySet
  <2>3. free \in Seq(Sizes) /\ Len(free) = Pool
    BY <2>1, ScreencastAssumption DEF Sizes
  <2>4. ScreenTypes
    <3>1. ScreencastTypeOK
      <4>1. where \in [Bufs -> {"gone", "compositor", "ready", "dequeued"}] /\ size \in Sizes
        BY <2>1 DEF Sizes
      <4>2. lent \subseteq [buf : Bufs, lease : Nat] /\ stuck \in Nat /\ Cardinality(lent) + stuck <= Lendable
        BY <2>1, <2>2, ScreencastAssumption
      <4>3. turns \in 0..MaxTurns
        BY <2>1, ScreencastAssumption
      <4> QED BY <2>1, <2>3, <4>1, <4>2, <4>3 DEF ScreencastTypeOK
    <3>2. filled \in Seq(GpuFrames \cup Copies) /\ control \in Seq(Messages)
      BY <2>1
    <3> QED BY <2>1, <2>2, <3>1, <3>2 DEF ScreenTypes
  <2>5. LeasesApart /\ LentOnce /\ FramesKept /\ LeasesFollowed
    BY <2>1 DEF LeasesApart, LentOnce, FramesKept, Kept, LeasesFollowed, Leases, Held, NoFrame
  <2>6. SlotsConserved
    BY <2>1, <2>3, ScreencastAssumption DEF SlotsConserved
  <2> QED BY <2>4, <2>5, <2>6 DEF ScreenInv
<1> QED BY <1>1, ScreenStep, ScreenSays, PTL DEF ScreencastSpec

-----------------------------------------------------------------------------
(* Callbacks. *)

\* When a picture was taken, and a picture as it was handed on.
Times == Int
Shots == [at : Times, stamp : Times]

\* What handlers and the ring hold.
PicturesInv ==
  /\ screen \in [now : Nat, taken : Nat] /\ pooled \in Seq(Times) /\ ring \in Seq(Times)
  /\ hands \in [Threads -> Times] /\ lock \subseteq Threads

\* No stamp handed on is above the last one.
StampsInv ==
  /\ zeroAt \in Int /\ stamp \in Int /\ stamp >= -1
  /\ shown \in Seq(Shots)
  /\ \A i \in DOMAIN shown : shown[i].stamp <= stamp
  /\ StampsRise

\* Once the start has gone on without the loopback, that was told to stop or never was.
LoopInv ==
  /\ audio \in BOOLEAN /\ stop \in BOOLEAN
  /\ phase \notin {"audio", "gave up"} /\ ~audio => stop \/ loop = "none"

\* The inductive invariant.
CallbacksInv == PicturesInv /\ StampsInv /\ LoopInv

\* A sequence with one element more.
LEMMA Longer ==
  ASSUME NEW S, NEW s \in Seq(S), NEW x \in S
  PROVE  /\ Append(s, x) \in Seq(S) /\ DOMAIN Append(s, x) = 1..Len(s) + 1
         /\ \A i \in 1..Len(s) : Append(s, x)[i] = s[i]
         /\ Append(s, x)[Len(s) + 1] = x
OBVIOUS

\* A stamp is above the last one.
LEMMA StampedRises ==
  ASSUME stamp \in Int, stamp >= -1, NEW ticks \in Nat
  PROVE  Stamped(ticks) \in Int /\ Stamped(ticks) > stamp
<1>1. CASE stamp = Nothing
  BY <1>1 DEF Stamped, StampedAfter, Nothing
<1>2. CASE stamp # Nothing
  <2> DEFINE S == {ticks, stamp + 1}
  <2>1. \E x \in S : \A y \in S : x >= y
    BY <1>2
  <2>2. Max(S) \in S /\ \A y \in S : Max(S) >= y
    BY <2>1 DEF Max
  <2> QED BY <1>2, <2>2 DEF Stamped, StampedAfter
<1> QED BY <1>1, <1>2

\* ShareClock::video: a picture shown has the highest stamp yet.
LEMMA ShownKeeps ==
  ASSUME PicturesInv, StampsInv, PictureShown
  PROVE  PicturesInv' /\ StampsInv' /\ UNCHANGED <<phase, loop, stop, audio>>
<1> DEFINE time == Head(ring)
           zero == IF zeroAt = Nothing THEN time ELSE zeroAt
<1>1. /\ ring # <<>> /\ ring' = Tail(ring) /\ zeroAt' = zero
      /\ UNCHANGED <<phase, screen, pooled, hands, lock, due>>
      /\ UNCHANGED <<loop, stop, audio>>
      /\ \/ UNCHANGED <<stamp, shown>>
         \/ /\ ~(time < zero) /\ stamp' = Stamped(time - zero)
            /\ shown' = Append(shown, [at |-> time, stamp |-> stamp']) \/ shown' = shown
  BY DEF PictureShown, loopVars
<1>2. time \in Times /\ ring' \in Seq(Times)
  BY <1>1 DEF PicturesInv
<1>3. time \in Int /\ zero \in Int
  BY <1>2 DEF StampsInv, Times
<1>4. PicturesInv'
  BY <1>1, <1>2 DEF PicturesInv
<1> HIDE DEF time, zero
<1>5. CASE UNCHANGED <<stamp, shown>>
  BY <1>1, <1>3, <1>4, <1>5 DEF StampsInv, StampsRise
<1>6. CASE /\ ~(time < zero) /\ stamp' = Stamped(time - zero)
           /\ shown' = Append(shown, [at |-> time, stamp |-> stamp']) \/ shown' = shown
  <2>1. time - zero \in Nat
    BY <1>3, <1>6
  <2>2. stamp' \in Int /\ stamp' > stamp
    BY <1>6, <2>1, StampedRises DEF StampsInv
  <2>3. stamp \in Int /\ stamp >= -1
    BY DEF StampsInv
  <2>4. shown \in Seq(Shots) /\ DOMAIN shown = 1..Len(shown) /\ Len(shown) \in Nat
    BY DEF StampsInv
  <2>5. \A i \in DOMAIN shown : shown[i].stamp \in Int
    <3>1. \A i \in DOMAIN shown : shown[i] \in Shots
      BY <2>4
    <3> QED BY <3>1 DEF Shots, Times
  <2>6. /\ shown' \in Seq(Shots)
        /\ \A i \in DOMAIN shown' : \/ i \in DOMAIN shown /\ shown'[i] = shown[i]
                                    \/ i = Len(shown) + 1 /\ shown'[i].stamp = stamp'
        /\ DOMAIN shown' \subseteq 1..Len(shown) + 1
    <3>1. CASE shown' = shown
      <4>1. 1..Len(shown) \subseteq 1..Len(shown) + 1
        BY <2>4
      <4> QED BY <2>4, <3>1, <4>1
    <3>2. CASE shown' = Append(shown, [at |-> time, stamp |-> stamp'])
      <4> DEFINE shot == [at |-> time, stamp |-> stamp']
      <4>1. shot \in Shots /\ shot.stamp = stamp'
        BY <1>2, <2>2 DEF Shots, Times
      <4> HIDE DEF shot
      <4>2. shown' = Append(shown, shot)
        BY <3>2 DEF shot
      <4>3. /\ Append(shown, shot) \in Seq(Shots) /\ DOMAIN Append(shown, shot) = 1..Len(shown) + 1
            /\ \A i \in 1..Len(shown) : Append(shown, shot)[i] = shown[i]
            /\ Append(shown, shot)[Len(shown) + 1] = shot
        BY <2>4, <4>1, Longer
      <4>4. \A i \in 1..Len(shown) + 1 : i \in 1..Len(shown) \/ i = Len(shown) + 1
        BY <2>4
      <4> QED BY <2>4, <4>1, <4>2, <4>3, <4>4
    <3> QED BY <1>6, <3>1, <3>2
  <2>7. \A i \in DOMAIN shown : shown[i].stamp <= stamp
    BY DEF StampsInv
  <2>8. \A i \in DOMAIN shown' : shown'[i].stamp <= stamp'
    BY <2>2, <2>3, <2>4, <2>5, <2>6, <2>7
  <2>9. StampsRise'
    <3> SUFFICES ASSUME NEW i \in DOMAIN shown', NEW j \in DOMAIN shown', i < j
                 PROVE  shown'[i].stamp < shown'[j].stamp
      BY DEF StampsRise
    <3>1. i \in DOMAIN shown /\ shown'[i] = shown[i]
      BY <2>4, <2>6
    <3>2. CASE j \in DOMAIN shown /\ shown'[j] = shown[j]
      BY <3>1, <3>2 DEF StampsInv, StampsRise
    <3>3. CASE shown'[j].stamp = stamp'
      BY <2>2, <2>3, <2>5, <2>7, <3>1, <3>3
    <3> QED BY <2>6, <3>2, <3>3
  <2>10. stamp' >= -1
    BY <2>2, <2>3
  <2>11. StampsInv'
    BY <1>1, <1>3, <2>2, <2>6, <2>8, <2>9, <2>10 DEF StampsInv
  <2> QED BY <1>1, <1>4, <2>11
<1> QED BY <1>1, <1>5, <1>6

\* Handlers, on whichever thread, touch no stamp.
LEMMA HandlersKeep ==
  ASSUME PicturesInv,
         PictureTaken \/ \E t \in Threads : HandlerTakes(t) \/ HandlerLocks(t) \/ HandlerOffers(t)
  PROVE  PicturesInv' /\ UNCHANGED <<phase, zeroAt, stamp, shown, loop, stop, audio>>
<1>1. UNCHANGED <<phase, zeroAt, stamp, shown, loop, stop, audio>>
  BY DEF PictureTaken, HandlerTakes, HandlerLocks, HandlerOffers, stampVars, loopVars
<1>2. CASE PictureTaken
  <2>1. PICK gap \in Gaps : /\ screen' = [now |-> screen.now + gap, taken |-> screen.taken + 1]
                          /\ pooled' = Append(pooled, screen.now + gap)
    BY <1>2 DEF PictureTaken
  <2>2. gap \in Nat
    BY CallbacksAssumption
  <2>3. screen.now + gap \in Times /\ screen' \in [now : Nat, taken : Nat]
    BY <2>1, <2>2 DEF PicturesInv, Times
  <2>4. pooled' \in Seq(Times)
    BY <2>1, <2>3 DEF PicturesInv
  <2> QED BY <1>1, <1>2, <2>3, <2>4 DEF PictureTaken, PicturesInv
<1>3. ASSUME NEW t \in Threads, HandlerTakes(t) PROVE PicturesInv'
  <2>1. Head(pooled) \in Times /\ Tail(pooled) \in Seq(Times)
    BY <1>3 DEF HandlerTakes, PicturesInv
  <2> QED BY <1>3, <2>1 DEF HandlerTakes, PicturesInv
<1>4. ASSUME NEW t \in Threads, HandlerLocks(t) PROVE PicturesInv'
  <2>1. /\ lock' \in {lock, {t}} /\ hands' \in {hands, [hands EXCEPT ![t] = Nothing]}
        /\ UNCHANGED <<screen, pooled, ring>>
    BY <1>4 DEF HandlerLocks
  <2> QED BY <2>1 DEF PicturesInv, Nothing, Times
<1>5. ASSUME NEW t \in Threads, HandlerOffers(t) PROVE PicturesInv'
  <2>1. /\ ring' = ring \/ ring' = Append(ring, hands[t])
        /\ lock' = {} /\ hands' = [hands EXCEPT ![t] = Nothing] /\ UNCHANGED <<screen, pooled>>
    BY <1>5 DEF HandlerOffers
  <2>2. hands[t] \in Times /\ ring \in Seq(Times)
    BY DEF PicturesInv
  <2>3. ring' \in Seq(Times)
    BY <2>1, <2>2
  <2>4. hands' \in [Threads -> Times]
    BY <2>1 DEF PicturesInv, Nothing, Times
  <2> QED BY <2>1, <2>3, <2>4 DEF PicturesInv
<1> QED BY <1>1, <1>2, <1>3, <1>4, <1>5

\* The loopback, its start and its end.
LEMMA LoopbackKeeps ==
  ASSUME CallbacksInv,
         \/ LoopbackOpens \/ LoopbackAnswers \/ LoopbackStops \/ LoopbackFails
         \/ LoopbackReady \/ RefusedJoins \/ SetupTimesOut \/ GaveUpDrops \/ GaveUpHangsUp
         \/ SoundZero \/ ItemCloses \/ CaptureDrops \/ CaptureJoins
  PROVE  CallbacksInv'
<1>1. /\ UNCHANGED <<screen, hands, lock, ring, stamp, shown>> /\ (pooled' = pooled \/ pooled' = <<>>)
      /\ zeroAt' \in {zeroAt, screen.now + 1}
  BY DEF LoopbackOpens, LoopbackAnswers, LoopbackStops, LoopbackFails, LoopbackEnd, LoopbackReady,
         RefusedJoins, SetupTimesOut, GaveUpDrops, GaveUpHangsUp, SoundZero, ItemCloses, CaptureDrops,
         CaptureJoins, pictureVars, stampVars
<1>2. PicturesInv'
  <2>1. pooled' \in Seq(Times)
    BY <1>1, EmptySeq DEF CallbacksInv, PicturesInv
  <2> QED BY <1>1, <2>1 DEF CallbacksInv, PicturesInv
<1>3. StampsInv'
  <2>1. zeroAt' \in Int
    BY <1>1 DEF CallbacksInv, PicturesInv, StampsInv
  <2> QED BY <1>1, <2>1 DEF CallbacksInv, StampsInv, StampsRise
<1>4. LoopInv'
  <2> USE DEF CallbacksInv, LoopInv
  <2>1. CASE LoopbackOpens \/ LoopbackAnswers \/ LoopbackStops \/ LoopbackFails
    BY <2>1 DEF LoopbackOpens, LoopbackAnswers, LoopbackStops, LoopbackFails, LoopbackEnd
  <2>2. CASE LoopbackReady
    <3>1. audio' = (ready = "ok") /\ stop' = (ready = "err") /\ ready \in {"ok", "err"}
      BY <2>2 DEF LoopbackReady
    <3> QED BY <3>1
  <2>3. CASE RefusedJoins \/ GaveUpHangsUp
    BY <2>3 DEF RefusedJoins, GaveUpHangsUp
  <2>4. CASE SetupTimesOut \/ SoundZero \/ ItemCloses \/ CaptureJoins
    BY <2>4 DEF SetupTimesOut, SoundZero, ItemCloses, CaptureJoins, loopVars
  <2>5. CASE GaveUpDrops
    BY <2>5 DEF GaveUpDrops, StopsLoopback, StopsAlways
  <2>6. CASE CaptureDrops
    BY <2>6 DEF CaptureDrops, StopsLoopback, StopsAlways
  <2> QED BY <2>1, <2>2, <2>3, <2>4, <2>5, <2>6
<1> QED BY <1>2, <1>3, <1>4 DEF CallbacksInv

\* Every step keeps it.
LEMMA CallbacksStep == CallbacksInv /\ [CallbacksNext]_callbackVars => CallbacksInv'
<1> SUFFICES ASSUME CallbacksInv, [CallbacksNext]_callbackVars PROVE CallbacksInv'
  OBVIOUS
<1>1. CASE PictureShown
  BY <1>1, ShownKeeps DEF CallbacksInv, LoopInv
<1>2. CASE PictureTaken \/ \E t \in Threads : HandlerTakes(t) \/ HandlerLocks(t) \/ HandlerOffers(t)
  <2>1. PicturesInv' /\ UNCHANGED <<phase, zeroAt, stamp, shown, loop, stop, audio>>
    BY <1>2, HandlersKeep DEF CallbacksInv
  <2> QED BY <2>1 DEF CallbacksInv, StampsInv, StampsRise, LoopInv
<1>3. CASE UNCHANGED callbackVars
  BY <1>3 DEF callbackVars, CallbacksInv, PicturesInv, StampsInv, StampsRise, LoopInv
<1> QED BY <1>1, <1>2, <1>3, LoopbackKeeps DEF CallbacksNext

\* Stamps rise in whatever order handlers on any number of threads come to queue their
\* pictures, and a loopback that nobody holds was told to stop, also when its answer crossed
\* the timeout (clock.rs video, windows.rs offer, LoopbackAudio::start and drop).
THEOREM CallbacksAlwaysApart == CallbacksSpec => [](StampsRise /\ NoLoopbackLeft)
<1>1. CallbacksInit => CallbacksInv
  <2> SUFFICES ASSUME CallbacksInit PROVE CallbacksInv
    OBVIOUS
  <2>1. /\ screen = [now |-> 0, taken |-> 0] /\ pooled = <<>> /\ ring = <<>> /\ shown = <<>>
        /\ hands = [t \in Threads |-> Nothing] /\ lock = {} /\ zeroAt = Nothing /\ stamp = Nothing
        /\ stop = FALSE /\ audio = FALSE /\ (phase = "audio" \/ loop = "none")
    BY DEF CallbacksInit
  <2>2. PicturesInv
    <3>1. hands \in [Threads -> Times]
      BY <2>1 DEF Nothing, Times
    <3> QED BY <2>1, <3>1 DEF PicturesInv
  <2>3. StampsInv
    BY <2>1 DEF StampsInv, StampsRise, Nothing
  <2>4. LoopInv
    BY <2>1 DEF LoopInv
  <2> QED BY <2>2, <2>3, <2>4 DEF CallbacksInv
<1>2. CallbacksInv => StampsRise /\ NoLoopbackLeft
  BY DEF CallbacksInv, StampsInv, LoopInv, NoLoopbackLeft
<1> QED BY <1>1, <1>2, CallbacksStep, PTL DEF CallbacksSpec

-----------------------------------------------------------------------------
(* The calls on the audio thread. *)

CallIds == 0..MaxCalls
MicTracks == Tracks \cup {NoTrack}
Calls ==
  [id : CallIds, mic : MicTracks, muted : BOOLEAN, deafened : BOOLEAN, remotes : SUBSET Users,
   streams : SUBSET Users]

\* What may be in the channel: the app's commands, the end of a call, and those of a call.
CallSends ==
  [tag : {"send_on"}, id : CallIds, track : MicTracks]
  \cup [tag : {"muted", "deafened"}, id : CallIds, on : BOOLEAN]
  \cup [tag : {"listen", "forget"}, id : CallIds, user : Users]
  \cup [tag : {"forget_all"}, id : CallIds]
EndSends == [tag : {"end"}, id : CallIds]
AppSends == [tag : {"ptt"}, down : BOOLEAN] \cup [tag : {"open"}]
Sends == CallSends \cup EndSends \cup AppSends

\* The commands of call i, and those that name its track.
OfCall(c, i) == c.tag \notin {"open", "ptt"} /\ c.id = i
Names(c, i) == c.tag = "send_on" /\ c.id = i

Pulls == [track : MicTracks, let : BOOLEAN]

VoiceTypes ==
  /\ handles \subseteq 1..MaxCalls /\ issued \in CallIds /\ \A i \in handles : i <= issued
  /\ channel \in Seq(Sends)
  /\ call \in Calls
  /\ chain \in [clock : Nat, frame : Seq(Pulls), open : BOOLEAN, hangover : Int,
                transmitting : BOOLEAN, gate : BOOLEAN]
  /\ talk \in [mode : {"ptt", "voice"}, down : BOOLEAN]
  /\ out \in [Tracks -> [at : Int, pulls : Seq(Pulls)]]
  /\ given.used \subseteq MicTracks /\ given.on \in [1..MaxCalls -> MicTracks]
  /\ own \in [CallIds -> Calls]

\* A call that is not current yet has sent nothing, and none of them has a stream.
OwnCalls ==
  \A i \in CallIds : /\ own[i].id = i /\ own[i].streams = {}
                     /\ i > call.id => own[i] = NewCall(i)

Fresh(t) == out[t].at = -1

\* Nothing has been sent on track t yet, nor is it the one sent on.
Silent(t) == Fresh(t) /\ call.mic # t
\* Call i is on track t already, and says nothing else before place p of the channel.
StaysOn(i, t, p) ==
  own[i].mic = t /\ \A q \in 1..Len(channel) : q < p /\ Names(channel[q], i) => channel[q].track = t

\* A track named in the channel is new, or the one the call is on.
NamedInTurn ==
  \A p \in 1..Len(channel) : channel[p].tag = "send_on" /\ channel[p].track \in Tracks \ {NoTrack} =>
    Silent(channel[p].track) \/ StaysOn(channel[p].id, channel[p].track, p)
\* A call names each of its tracks until it names the next.
NamedTogether ==
  \A p, q \in 1..Len(channel) :
    /\ p < q /\ channel[p].tag = "send_on" /\ channel[q].tag = "send_on"
    /\ channel[p].track = channel[q].track /\ channel[p].track \in Tracks \ {NoTrack}
    => /\ channel[p].id = channel[q].id
       /\ \A r \in 1..Len(channel) : p < r /\ r < q /\ Names(channel[r], channel[p].id) =>
            channel[r].track = channel[p].track

\* So does the one it will name next, if it is on one.
GivenInTurn ==
  \A i \in handles : given.on[i] \in Tracks \ {NoTrack} =>
    Silent(given.on[i]) \/ StaysOn(i, given.on[i], Len(channel) + 1)
GivenTogether ==
  \A i \in 1..MaxCalls, p \in 1..Len(channel) :
    /\ channel[p].tag = "send_on" /\ channel[p].track = given.on[i] /\ given.on[i] \in Tracks \ {NoTrack}
    => /\ channel[p].id = i
       /\ \A r \in 1..Len(channel) : p < r /\ Names(channel[r], i) => channel[r].track = given.on[i]

\* Whatever has a track got it from the hub, and no track is given twice.
GivenOnce ==
  /\ \A i \in 1..MaxCalls : given.on[i] \in Tracks \ {NoTrack} => given.on[i] \in given.used
  /\ \A i, j \in 1..MaxCalls : given.on[i] = given.on[j] /\ given.on[i] \in Tracks \ {NoTrack} => i = j
  /\ \A p \in 1..Len(channel) :
       channel[p].tag = "send_on" /\ channel[p].track \in Tracks \ {NoTrack} => channel[p].track \in given.used
  /\ \A t \in Tracks : ~Silent(t) /\ t # NoTrack => t \in given.used

\* A handle sends nothing before it is there, nor once it is dropped.
EndsLast ==
  /\ \A i \in 1..MaxCalls : i > issued => given.on[i] = NoTrack
  /\ \A p \in 1..Len(channel) : channel[p].tag = "end" => channel[p].id <= issued
  /\ \A p \in 1..Len(channel) : channel[p].tag = "end" => channel[p].id \notin handles
  /\ \A p, q \in 1..Len(channel) :
       p < q /\ channel[p].tag = "end" => ~OfCall(channel[q], channel[p].id)

\* The frame begun is of the track the call is on, and the clock is past that track's packets.
FrameOfTrack ==
  /\ call.mic # NoTrack => /\ \A i \in 1..Len(chain.frame) : chain.frame[i].track = call.mic
                           /\ chain.clock > out[call.mic].at
  /\ chain.open => \E i \in 1..Len(chain.frame) : chain.frame[i].let
  /\ Len(chain.frame) < 2

TracksInTurn == NamedInTurn /\ NamedTogether /\ GivenInTurn /\ GivenTogether /\ GivenOnce

\* The inductive invariant.
VoiceInv ==
  /\ VoiceTypes /\ OwnCalls /\ OwnCommandsOnly /\ TracksInTurn /\ EndsLast /\ FrameOfTrack
  /\ NothingLeaks /\ StreamsListened /\ WholePulls

\* What an append does to the channel.
LEMMA ChannelGrows ==
  ASSUME channel \in Seq(Sends), NEW c \in Sends, channel' = Append(channel, c)
  PROVE  /\ channel' \in Seq(Sends) /\ Len(channel) \in Nat /\ Len(channel') = Len(channel) + 1
         /\ channel'[Len(channel) + 1] = c
         /\ \A p \in 1..Len(channel) : channel'[p] = channel[p]
         /\ \A p \in 1..Len(channel') : p \in 1..Len(channel) \/ p = Len(channel) + 1
OBVIOUS

\* And what taking the first command does.
LEMMA ChannelShrinks ==
  ASSUME channel \in Seq(Sends), channel # <<>>, channel' = Tail(channel)
  PROVE  /\ channel' \in Seq(Sends) /\ Len(channel) \in Nat /\ Len(channel) >= 1
         /\ Len(channel') = Len(channel) - 1
         /\ Head(channel) = channel[1] /\ Head(channel) \in Sends
         /\ \A p \in 1..Len(channel') : channel'[p] = channel[p + 1] /\ p + 1 \in 2..Len(channel)
OBVIOUS

\* Where no track comes to be used, nothing else changes, and the channel does not.
LEMMA SameTracks ==
  ASSUME TracksInTurn, UNCHANGED <<channel, given, own>>, \A i \in handles' \ handles : given.on[i] = NoTrack,
         \A t \in Tracks \ {NoTrack} : Silent(t)' <=> Silent(t)
  PROVE  TracksInTurn'
<1>1. \A i, t, p : StaysOn(i, t, p)' <=> StaysOn(i, t, p)
  BY DEF StaysOn
<1>2. NamedInTurn' /\ GivenInTurn'
  BY <1>1 DEF TracksInTurn, NamedInTurn, GivenInTurn
<1>3. NamedTogether' /\ GivenTogether'
  BY DEF TracksInTurn, NamedTogether, GivenTogether
<1>4. GivenOnce'
  BY DEF TracksInTurn, GivenOnce
<1> QED BY <1>2, <1>3, <1>4 DEF TracksInTurn

\* A command that names no track.
LEMMA OtherSent ==
  ASSUME VoiceTypes, TracksInTurn, NEW c \in Sends, channel' = Append(channel, c), c.tag # "send_on",
         UNCHANGED <<given, own, out, call>>, handles' \subseteq handles
  PROVE  TracksInTurn'
<1> DEFINE n == Len(channel)
<1>1. /\ n \in Nat /\ Len(channel') = n + 1 /\ channel'[n + 1] = c
      /\ \A p \in 1..n : channel'[p] = channel[p]
      /\ \A p \in 1..Len(channel') : p \in 1..n \/ p = n + 1
  BY ChannelGrows DEF VoiceTypes
<1> HIDE DEF n
<1>2. \A p \in 1..Len(channel') : channel'[p].tag = "send_on" => p \in 1..n /\ channel'[p] = channel[p]
  BY <1>1
<1>3. \A t : Silent(t)' <=> Silent(t)
  BY DEF Silent, Fresh
<1>4. \A i, t : \A p \in 1..(n + 1) : StaysOn(i, t, p) => StaysOn(i, t, p)'
  BY <1>2 DEF StaysOn, Names, n
<1>5. \A i, t : StaysOn(i, t, n + 1) => StaysOn(i, t, Len(channel) + 1)'
  BY <1>1, <1>2 DEF StaysOn, Names, n
<1>6. NamedInTurn'
  BY <1>1, <1>2, <1>3, <1>4 DEF TracksInTurn, NamedInTurn, n
<1>7. GivenInTurn'
  BY <1>1, <1>3, <1>5 DEF TracksInTurn, GivenInTurn, n
<1>8. NamedTogether'
  BY <1>1, <1>2 DEF TracksInTurn, NamedTogether, Names, n
<1>9. GivenTogether'
  BY <1>1, <1>2 DEF TracksInTurn, GivenTogether, Names, n
<1>10. GivenOnce'
  BY <1>1, <1>2, <1>3 DEF TracksInTurn, GivenOnce, n
<1> QED BY <1>6, <1>7, <1>8, <1>9, <1>10 DEF TracksInTurn

\* A call names the track it is on, or one the hub just gave it.
LEMMA TrackSent ==
  ASSUME VoiceTypes, TracksInTurn, NEW i \in handles, NEW t \in (Tracks \ given.used) \cup {NoTrack, given.on[i]},
         channel' = Append(channel, [tag |-> "send_on", id |-> i, track |-> t]),
         given' = [used |-> given.used \cup {t}, on |-> [given.on EXCEPT ![i] = t]],
         UNCHANGED <<handles, own, out, call>>
  PROVE  TracksInTurn' /\ given'.used \subseteq MicTracks /\ given'.on \in [1..MaxCalls -> MicTracks]
         /\ \A j \in 1..MaxCalls : j # i => given'.on[j] = given.on[j]
<1> DEFINE n == Len(channel)
           c == [tag |-> "send_on", id |-> i, track |-> t]
           Real == Tracks \ {NoTrack}
<1>1. /\ i \in 1..MaxCalls /\ i \in CallIds /\ given.on \in [1..MaxCalls -> MicTracks]
      /\ given.used \subseteq MicTracks
  BY VoiceAssumption DEF VoiceTypes, CallIds
<1>2. t \in MicTracks
  BY <1>1 DEF MicTracks
<1>3. c \in Sends /\ c.tag = "send_on" /\ c.id = i /\ c.track = t
  BY <1>1, <1>2 DEF Sends, CallSends
<1> HIDE DEF c
<1>4. /\ n \in Nat /\ Len(channel') = n + 1 /\ channel'[n + 1] = c
      /\ \A p \in 1..n : channel'[p] = channel[p]
      /\ \A p \in 1..Len(channel') : p \in 1..n \/ p = n + 1
  BY <1>3, ChannelGrows DEF VoiceTypes, c
<1>5. /\ given'.used = given.used \cup {t} /\ given'.on[i] = t
      /\ \A j \in 1..MaxCalls : j # i => given'.on[j] = given.on[j]
      /\ given'.on \in [1..MaxCalls -> MicTracks] /\ given'.used \subseteq MicTracks
  BY <1>1, <1>2
<1>6. \A x : Silent(x)' <=> Silent(x)
  BY DEF Silent, Fresh
<1> HIDE DEF n
<1>7. \A j, x : \A p \in 1..(n + 1) : StaysOn(j, x, p) => StaysOn(j, x, p)'
  BY <1>4 DEF StaysOn, Names, n
<1>8. \A j, x : StaysOn(j, x, n + 1) /\ (j = i => x = t) => StaysOn(j, x, Len(channel) + 1)'
  BY <1>3, <1>4 DEF StaysOn, Names, n
\* The track named is new, or the one before.
<1>9. ASSUME t \in Real
      PROVE  \/ t \notin given.used /\ Silent(t) /\ \A j \in 1..MaxCalls : given.on[j] # t
                /\ \A p \in 1..n : channel[p].tag = "send_on" => channel[p].track # t
             \/ t = given.on[i] /\ (Silent(t) \/ StaysOn(i, t, n + 1))
  <2>1. CASE t \notin given.used
    BY <1>9, <2>1 DEF TracksInTurn, GivenOnce, n
  <2>2. CASE t = given.on[i]
    BY <1>9, <2>2 DEF TracksInTurn, GivenInTurn, n
  <2> QED BY <1>9, <2>1, <2>2
<1>15. ASSUME t \in Real, NEW p \in 1..n, channel[p].tag = "send_on", channel[p].track = t
       PROVE  t = given.on[i]
  BY <1>15 DEF TracksInTurn, GivenOnce, n
<1>10. NamedInTurn'
  <2> SUFFICES ASSUME NEW p \in 1..Len(channel'), channel'[p].tag = "send_on", NEW x \in Real, NEW j,
                      channel'[p].track = x, channel'[p].id = j
               PROVE  Silent(x)' \/ StaysOn(j, x, p)'
    BY DEF NamedInTurn
  <2>1. CASE p \in 1..n
    <3>1. channel'[p] = channel[p] /\ p \in 1..(n + 1)
      BY <1>4, <2>1
    <3>2. Silent(x) \/ StaysOn(j, x, p)
      BY <2>1, <3>1 DEF TracksInTurn, NamedInTurn, n
    <3> QED BY <1>6, <1>7, <3>1, <3>2
  <2>2. CASE p = n + 1
    <3>1. t \in Real /\ p \in 1..(n + 1) /\ x = t /\ j = i
      BY <1>3, <1>4, <2>2
    <3>2. Silent(x) \/ StaysOn(j, x, p)
      BY <1>9, <2>2, <3>1
    <3> QED BY <1>6, <1>7, <3>1, <3>2
  <2> QED BY <1>4, <2>1, <2>2
<1>11. GivenInTurn'
  <2> SUFFICES ASSUME NEW j \in handles, NEW x \in Real, given'.on[j] = x
               PROVE  Silent(x)' \/ StaysOn(j, x, Len(channel) + 1)'
    BY DEF GivenInTurn
  <2>1. CASE j = i
    <3>1. x = t
      BY <1>5, <2>1
    <3>2. Silent(x) \/ StaysOn(j, x, n + 1)
      BY <1>9, <2>1, <3>1
    <3> QED BY <1>6, <1>8, <3>1, <3>2
  <2>2. CASE j # i
    <3>1. given.on[j] = x
      BY <1>5, <2>2 DEF VoiceTypes
    <3>2. Silent(x) \/ StaysOn(j, x, n + 1)
      BY <3>1 DEF TracksInTurn, GivenInTurn, n
    <3> QED BY <1>6, <1>8, <2>2, <3>2
  <2> QED BY <2>1, <2>2
<1>12. NamedTogether'
  <2> SUFFICES ASSUME NEW p \in 1..Len(channel'), NEW q \in 1..Len(channel'), p < q,
                      channel'[p].tag = "send_on", channel'[q].tag = "send_on",
                      channel'[p].track = channel'[q].track, channel'[p].track \in Real
               PROVE  /\ channel'[p].id = channel'[q].id
                      /\ \A r \in 1..Len(channel') : p < r /\ r < q /\ Names(channel'[r], channel'[p].id) =>
                           channel'[r].track = channel'[p].track
    BY DEF NamedTogether, Names
  <2>1. p \in 1..n /\ channel'[p] = channel[p]
    BY <1>4
  <2>2. CASE q \in 1..n
    <3>1. channel'[q] = channel[q] /\ \A r \in 1..Len(channel') : r < q => r \in 1..n /\ channel'[r] = channel[r]
      BY <1>4, <2>2
    <3> QED BY <2>1, <2>2, <3>1 DEF TracksInTurn, NamedTogether, n
  <2>3. CASE q = n + 1
    <3>1. channel'[q] = c /\ \A r \in 1..Len(channel') : r < q => r \in 1..n /\ channel'[r] = channel[r]
      BY <1>4, <2>3
    <3>2. t \in Real /\ channel[p].track = t /\ channel[p].tag = "send_on"
      BY <1>3, <2>1, <3>1
    <3>3. t = given.on[i]
      BY <1>15, <2>1, <3>2
    <3> QED BY <1>1, <1>3, <2>1, <3>1, <3>2, <3>3 DEF TracksInTurn, GivenTogether, n
  <2> QED BY <1>4, <2>2, <2>3
<1>13. GivenTogether'
  <2> SUFFICES ASSUME NEW j \in 1..MaxCalls, NEW p \in 1..Len(channel'), channel'[p].tag = "send_on",
                      channel'[p].track = given'.on[j], given'.on[j] \in Real
               PROVE  /\ channel'[p].id = j
                      /\ \A r \in 1..Len(channel') : p < r /\ Names(channel'[r], j) => channel'[r].track = given'.on[j]
    BY DEF GivenTogether, Names
  <2>1. CASE j = i
    <3>1. given'.on[j] = t /\ t \in Real
      BY <1>5, <2>1
    <3>2. CASE p = n + 1
      BY <1>3, <1>4, <2>1, <3>2
    <3>3. CASE p \in 1..n
      <4>1. channel'[p] = channel[p] /\ t = given.on[i]
        BY <1>4, <1>15, <3>1, <3>3
      <4>2. /\ channel[p].id = i
            /\ \A r \in 1..n : p < r /\ Names(channel[r], i) => channel[r].track = t
        BY <1>1, <3>1, <3>3, <4>1 DEF TracksInTurn, GivenTogether, n
      <4> QED BY <1>3, <1>4, <2>1, <3>1, <4>1, <4>2
    <3> QED BY <1>4, <3>2, <3>3
  <2>2. CASE j # i
    <3>1. given'.on[j] = given.on[j]
      BY <1>5, <2>2
    <3>2. t # given.on[j]
      BY <1>1, <1>9, <2>2, <3>1 DEF TracksInTurn, GivenOnce
    <3>3. p \in 1..n /\ channel'[p] = channel[p]
      BY <1>3, <1>4, <3>1, <3>2
    <3>4. /\ channel[p].id = j
          /\ \A r \in 1..n : p < r /\ Names(channel[r], j) => channel[r].track = given.on[j]
      BY <3>1, <3>3 DEF TracksInTurn, GivenTogether, n
    <3>5. ~Names(c, j)
      BY <1>3, <2>2 DEF Names
    <3> QED BY <1>4, <3>1, <3>3, <3>4, <3>5
  <2> QED BY <2>1, <2>2
<1>14. GivenOnce'
  <2>1. \A j \in 1..MaxCalls : given'.on[j] \in Real => given'.on[j] \in given'.used
    BY <1>5 DEF TracksInTurn, GivenOnce
  <2>2. \A j, k \in 1..MaxCalls : given'.on[j] = given'.on[k] /\ given'.on[j] \in Real => j = k
    BY <1>1, <1>5, <1>9 DEF TracksInTurn, GivenOnce
  <2>3. \A p \in 1..Len(channel') :
          channel'[p].tag = "send_on" /\ channel'[p].track \in Real => channel'[p].track \in given'.used
    BY <1>3, <1>4, <1>5 DEF TracksInTurn, GivenOnce, n
  <2>4. \A x \in Tracks : ~Silent(x)' /\ x # NoTrack => x \in given'.used
    BY <1>5, <1>6 DEF TracksInTurn, GivenOnce
  <2> QED BY <2>1, <2>2, <2>3, <2>4 DEF GivenOnce
<1> QED BY <1>5, <1>10, <1>11, <1>12, <1>13, <1>14 DEF TracksInTurn

\* Taking the first command leaves the others in their order.
LEMMA TakenTogether ==
  ASSUME VoiceTypes, NamedTogether, GivenTogether, channel # <<>>, channel' = Tail(channel), given' = given
  PROVE  NamedTogether' /\ GivenTogether'
<1> DEFINE n == Len(channel)
           Real == Tracks \ {NoTrack}
<1>1. /\ n \in Nat /\ n >= 1 /\ Len(channel') = n - 1
      /\ \A p \in 1..Len(channel') : channel'[p] = channel[p + 1] /\ p + 1 \in 2..n
  BY ChannelShrinks DEF VoiceTypes
<1> HIDE DEF n
<1>2. NamedTogether'
  <2> SUFFICES ASSUME NEW p \in 1..Len(channel'), NEW q \in 1..Len(channel'), p < q,
                      channel'[p].tag = "send_on", channel'[q].tag = "send_on",
                      channel'[p].track = channel'[q].track, channel'[p].track \in Real
               PROVE  /\ channel'[p].id = channel'[q].id
                      /\ \A r \in 1..Len(channel') : p < r /\ r < q /\ Names(channel'[r], channel'[p].id) =>
                           channel'[r].track = channel'[p].track
    BY DEF NamedTogether, Names
  <2>1. /\ channel'[p] = channel[p + 1] /\ p + 1 \in 1..n /\ channel'[q] = channel[q + 1] /\ q + 1 \in 1..n
        /\ p + 1 < q + 1
        /\ \A r \in 1..Len(channel') : channel'[r] = channel[r + 1] /\ r + 1 \in 1..n
              /\ (p < r => p + 1 < r + 1) /\ (r < q => r + 1 < q + 1)
    BY <1>1
  <2>2. /\ channel[p + 1].id = channel[q + 1].id
        /\ \A r \in 1..n : p + 1 < r /\ r < q + 1 /\ Names(channel[r], channel[p + 1].id) =>
             channel[r].track = channel[p + 1].track
    BY <2>1 DEF NamedTogether, n
  <2> QED BY <2>1, <2>2
<1>3. GivenTogether'
  <2> SUFFICES ASSUME NEW j \in 1..MaxCalls, NEW p \in 1..Len(channel'), channel'[p].tag = "send_on",
                      channel'[p].track = given.on[j], given.on[j] \in Real
               PROVE  /\ channel'[p].id = j
                      /\ \A r \in 1..Len(channel') : p < r /\ Names(channel'[r], j) => channel'[r].track = given.on[j]
    BY DEF GivenTogether, Names
  <2>1. /\ channel'[p] = channel[p + 1] /\ p + 1 \in 1..n
        /\ \A r \in 1..Len(channel') : channel'[r] = channel[r + 1] /\ r + 1 \in 1..n /\ (p < r => p + 1 < r + 1)
    BY <1>1
  <2> QED BY <2>1 DEF GivenTogether, n
<1> QED BY <1>2, <1>3

\* The thread takes a command: of call i it may put the call on the track it names, or end it.
LEMMA TrackTaken ==
  ASSUME VoiceTypes, TracksInTurn, EndsLast, channel # <<>>, channel' = Tail(channel),
         UNCHANGED <<handles, given, out>>, call'.mic \in {call.mic, NoTrack, Head(channel).track},
         call'.mic \in {call.mic, NoTrack} \/ Head(channel).tag = "send_on",
         \A j \in CallIds :
           \/ own'[j].mic = own[j].mic /\ ~Names(Head(channel), j)
           \/ Names(Head(channel), j) /\ own'[j].mic = Head(channel).track
           \/ Head(channel).tag = "end" /\ Head(channel).id = j
  PROVE  TracksInTurn'
<1> DEFINE n == Len(channel)
           c == Head(channel)
           Real == Tracks \ {NoTrack}
<1>1. /\ n \in Nat /\ n >= 1 /\ Len(channel') = n - 1 /\ c = channel[1] /\ c \in Sends
      /\ \A p \in 1..Len(channel') : channel'[p] = channel[p + 1] /\ p + 1 \in 2..n
  BY ChannelShrinks DEF VoiceTypes
<1> HIDE DEF n, c
<1>2. ASSUME NEW x \in Real, Silent(x), c.tag = "send_on" => c.track # x
      PROVE  Silent(x)'
  BY <1>2 DEF Silent, Fresh, c
<1>3. ASSUME NEW x \in Real, ~Silent(x)'
      PROVE  ~Silent(x) \/ (c.tag = "send_on" /\ c.track = x)
  BY <1>2, <1>3
\* A call that stays on its track does so.
<1>4. ASSUME NEW j \in CallIds, NEW x \in Real, NEW k \in 1..n, StaysOn(j, x, k + 1),
             ~(c.tag = "end" /\ c.id = j)
      PROVE  StaysOn(j, x, k)'
  <2>1. own'[j].mic = x
    <3>1. Names(c, j) => c.track = x
      BY <1>1, <1>4 DEF StaysOn, n
    <3> QED BY <1>4, <3>1 DEF StaysOn, c
  <2>2. ASSUME NEW q \in 1..Len(channel'), q < k, Names(channel'[q], j) PROVE channel'[q].track = x
    <3>1. q + 1 \in 1..n /\ q + 1 < k + 1 /\ channel'[q] = channel[q + 1]
      BY <1>1, <2>2
    <3> QED BY <1>4, <2>2, <3>1 DEF StaysOn, n
  <2> QED BY <2>1, <2>2 DEF StaysOn, Names
<1>5. NamedInTurn'
  <2> SUFFICES ASSUME NEW p \in 1..Len(channel'), channel'[p].tag = "send_on", NEW x \in Real, NEW j,
                      channel'[p].track = x, channel'[p].id = j
               PROVE  Silent(x)' \/ StaysOn(j, x, p)'
    BY DEF NamedInTurn
  <2>1. channel'[p] = channel[p + 1] /\ p + 1 \in 2..n /\ p + 1 \in 1..n /\ x \in Real
    BY <1>1
  <2>2. channel[p + 1] \in Sends /\ j \in CallIds
    BY <2>1 DEF VoiceTypes, n, Sends, CallSends, EndSends, AppSends
  <2>3. CASE c.tag = "send_on" /\ c.track = x
    <3>1. c.id = j /\ \A r \in 1..n : 1 < r /\ r < p + 1 /\ Names(channel[r], j) => channel[r].track = x
      BY <1>1, <2>1, <2>3 DEF TracksInTurn, NamedTogether, n
    <3>2. own'[j].mic = x
      BY <2>2, <2>3, <3>1 DEF Names, c
    <3>3. ASSUME NEW q \in 1..Len(channel'), q < p, Names(channel'[q], j) PROVE channel'[q].track = x
      BY <1>1, <3>1, <3>3
    <3>4. StaysOn(j, x, p)'
      BY <3>2, <3>3 DEF StaysOn, Names
    <3> QED BY <3>4
  <2>4. CASE ~(c.tag = "send_on" /\ c.track = x)
    <3>1. Silent(x) \/ StaysOn(j, x, p + 1)
      BY <2>1 DEF TracksInTurn, NamedInTurn, n
    <3>2. ~(c.tag = "end" /\ c.id = j)
      BY <1>1, <2>1 DEF EndsLast, OfCall, n
    <3>3. p \in 1..n
      BY <1>1
    <3>4. CASE StaysOn(j, x, p + 1)
      BY <1>4, <2>1, <2>2, <3>2, <3>3, <3>4
    <3>5. CASE Silent(x)
      BY <1>2, <2>1, <2>4, <3>5
    <3> QED BY <3>1, <3>4, <3>5
  <2> QED BY <2>3, <2>4
<1>6. GivenInTurn'
  <2> SUFFICES ASSUME NEW j \in handles, NEW x \in Real, given.on[j] = x
               PROVE  Silent(x)' \/ StaysOn(j, x, Len(channel) + 1)'
    BY DEF GivenInTurn
  <2>1. j \in 1..MaxCalls /\ j \in CallIds
    <3>1. j \in 1..MaxCalls /\ MaxCalls \in Nat
      BY VoiceAssumption DEF VoiceTypes
    <3> QED BY <3>1 DEF CallIds
  <2>2. CASE c.tag = "send_on" /\ c.track = x
    <3>1. 1 \in 1..n /\ channel[1] = c
      BY <1>1
    <3>2. c.id = j /\ \A r \in 1..n : 1 < r /\ Names(channel[r], j) => channel[r].track = x
      BY <2>1, <2>2, <3>1 DEF TracksInTurn, GivenTogether, n
    <3>3. own'[j].mic = x
      BY <2>1, <2>2, <3>2 DEF Names, c
    <3>4. ASSUME NEW q \in 1..Len(channel'), Names(channel'[q], j) PROVE channel'[q].track = x
      BY <1>1, <3>2, <3>4
    <3> QED BY <3>3, <3>4 DEF StaysOn, Names
  <2>3. CASE ~(c.tag = "send_on" /\ c.track = x)
    <3>1. Silent(x) \/ StaysOn(j, x, n + 1)
      BY DEF TracksInTurn, GivenInTurn, n
    <3>2. ~(c.tag = "end" /\ c.id = j)
      BY <1>1 DEF EndsLast, n
    <3>3. PICK k \in 1..n : k = n /\ Len(channel') + 1 = k
      BY <1>1
    <3>4. CASE StaysOn(j, x, n + 1)
      <4>1. StaysOn(j, x, k)'
        BY <1>4, <2>1, <3>2, <3>3, <3>4
      <4> QED BY <3>3, <4>1 DEF StaysOn
    <3>5. CASE Silent(x)
      BY <1>2, <2>1, <2>3, <3>5
    <3> QED BY <3>1, <3>4, <3>5
  <2> QED BY <2>2, <2>3
<1>7. NamedTogether' /\ GivenTogether'
  BY TakenTogether DEF TracksInTurn
<1>9. GivenOnce'
  <2>1. \A p \in 1..Len(channel') :
          channel'[p].tag = "send_on" /\ channel'[p].track \in Real => channel'[p].track \in given.used
    <3>1. \A p \in 1..Len(channel') : channel'[p] = channel[p + 1] /\ p + 1 \in 1..n
      BY <1>1
    <3> QED BY <3>1 DEF TracksInTurn, GivenOnce, n
  <2>2. ASSUME NEW x \in Tracks, ~Silent(x)', x # NoTrack PROVE x \in given.used
    <3>1. 1 \in 1..n /\ channel[1] = c /\ x \in Real
      BY <1>1, <2>2
    <3> QED BY <1>3, <2>2, <3>1 DEF TracksInTurn, GivenOnce, n
  <2> QED BY <2>1, <2>2 DEF TracksInTurn, GivenOnce
<1> QED BY <1>5, <1>6, <1>7, <1>9 DEF TracksInTurn

-----------------------------------------------------------------------------
(* What a call comes to. *)

NoStreams(c) == [c EXCEPT !.streams = {}]

\* Commands of calls, by their tags.
LEMMA CallSendTypes ==
  ASSUME NEW c \in Sends
  PROVE  /\ c.tag \in {"send_on", "muted", "deafened", "listen", "forget", "forget_all", "end", "ptt", "open"}
         /\ c.tag \notin {"open", "ptt"} => c.id \in CallIds
         /\ c.tag = "send_on" => c.track \in MicTracks
         /\ c.tag \in {"muted", "deafened"} => c.on \in BOOLEAN
         /\ c.tag \in {"listen", "forget"} => c.user \in Users
         /\ c.tag = "ptt" => c.down \in BOOLEAN
BY DEF Sends, CallSends, EndSends, AppSends

\* apply_call works on the call alone, and on its streams only with the users they are of.
LEMMA ApplyCallDoes ==
  ASSUME NEW c \in Calls, NEW cmd \in Sends, cmd.tag \notin {"open", "ptt", "end"}
  PROVE  /\ ApplyCall(c, cmd) \in Calls /\ ApplyCall(c, cmd).id = c.id
         /\ ApplyCall(c, cmd).mic = (IF cmd.tag = "send_on" THEN cmd.track ELSE c.mic)
         /\ c.streams \subseteq c.remotes => ApplyCall(c, cmd).streams \subseteq ApplyCall(c, cmd).remotes
         /\ c.streams = {} => ApplyCall(c, cmd).streams = {}
         /\ NoStreams(ApplyCall(c, cmd)) = ApplyCall(NoStreams(c), cmd)
<1>1. CASE cmd.tag = "send_on"
  <2>1. /\ ApplyCall(c, cmd) = [c EXCEPT !.mic = cmd.track] /\ cmd.track \in MicTracks
        /\ ApplyCall(NoStreams(c), cmd) = [NoStreams(c) EXCEPT !.mic = cmd.track]
    BY <1>1, CallSendTypes DEF ApplyCall
  <2> QED BY <1>1, <2>1 DEF Calls, NoStreams
<1>2. CASE cmd.tag = "muted"
  <2>1. /\ ApplyCall(c, cmd) = [c EXCEPT !.muted = cmd.on] /\ cmd.on \in BOOLEAN
        /\ ApplyCall(NoStreams(c), cmd) = [NoStreams(c) EXCEPT !.muted = cmd.on]
    BY <1>2, CallSendTypes DEF ApplyCall
  <2>2. NoStreams(c) \in Calls
    BY DEF Calls, NoStreams
  <2>3. /\ ApplyCall(c, cmd) \in Calls /\ ApplyCall(c, cmd).id = c.id /\ ApplyCall(c, cmd).mic = c.mic
        /\ ApplyCall(c, cmd).streams = c.streams /\ ApplyCall(c, cmd).remotes = c.remotes
    BY <2>1 DEF Calls
  <2>4. NoStreams(ApplyCall(c, cmd)) = ApplyCall(NoStreams(c), cmd)
    BY <2>1 DEF Calls, NoStreams
  <2> QED BY <1>2, <2>3, <2>4
<1>3. CASE cmd.tag = "deafened"
  <2>1. /\ ApplyCall(c, cmd) = [c EXCEPT !.deafened = cmd.on] /\ cmd.on \in BOOLEAN
        /\ ApplyCall(NoStreams(c), cmd) = [NoStreams(c) EXCEPT !.deafened = cmd.on]
    BY <1>3, CallSendTypes DEF ApplyCall
  <2>2. NoStreams(c) \in Calls
    BY DEF Calls, NoStreams
  <2>3. /\ ApplyCall(c, cmd) \in Calls /\ ApplyCall(c, cmd).id = c.id /\ ApplyCall(c, cmd).mic = c.mic
        /\ ApplyCall(c, cmd).streams = c.streams /\ ApplyCall(c, cmd).remotes = c.remotes
    BY <2>1 DEF Calls
  <2>4. NoStreams(ApplyCall(c, cmd)) = ApplyCall(NoStreams(c), cmd)
    BY <2>1 DEF Calls, NoStreams
  <2> QED BY <1>3, <2>3, <2>4
<1>4. CASE cmd.tag = "listen"
  <2>1. /\ ApplyCall(c, cmd) = [c EXCEPT !.remotes = c.remotes \cup {cmd.user}] /\ cmd.user \in Users
        /\ ApplyCall(NoStreams(c), cmd) = [NoStreams(c) EXCEPT !.remotes = NoStreams(c).remotes \cup {cmd.user}]
    BY <1>4, CallSendTypes DEF ApplyCall
  <2>2. PICK r \in SUBSET Users : r = c.remotes \cup {cmd.user}
    BY <2>1 DEF Calls
  <2>3. NoStreams(c) \in Calls /\ NoStreams(c).remotes = c.remotes
    BY DEF Calls, NoStreams
  <2>4. ApplyCall(c, cmd) = [c EXCEPT !.remotes = r] /\ ApplyCall(NoStreams(c), cmd) = [NoStreams(c) EXCEPT !.remotes = r]
    BY <2>1, <2>2, <2>3
  <2>5. ApplyCall(c, cmd) \in Calls /\ ApplyCall(c, cmd).id = c.id /\ ApplyCall(c, cmd).mic = c.mic
        /\ ApplyCall(c, cmd).streams = c.streams /\ ApplyCall(c, cmd).remotes = r
    BY <2>4 DEF Calls
  <2>6. NoStreams(ApplyCall(c, cmd)) = ApplyCall(NoStreams(c), cmd)
    BY <2>4 DEF Calls, NoStreams
  <2> QED BY <1>4, <2>2, <2>5, <2>6
<1>5. CASE cmd.tag = "forget"
  <2>1. /\ cmd.user \in Users
        /\ ApplyCall(c, cmd) = [c EXCEPT !.remotes = c.remotes \ {cmd.user}, !.streams = c.streams \ {cmd.user}]
        /\ ApplyCall(NoStreams(c), cmd) = [NoStreams(c) EXCEPT !.remotes = NoStreams(c).remotes \ {cmd.user},
                                                               !.streams = NoStreams(c).streams \ {cmd.user}]
    BY <1>5, CallSendTypes DEF ApplyCall, Forget
  <2>2. PICK r \in SUBSET Users, s \in SUBSET Users : r = c.remotes \ {cmd.user} /\ s = c.streams \ {cmd.user}
    BY <2>1 DEF Calls
  <2>3. NoStreams(c) \in Calls /\ NoStreams(c).remotes = c.remotes /\ NoStreams(c).streams = {}
    BY DEF Calls, NoStreams
  <2>4. {} \ {cmd.user} = {}
    OBVIOUS
  <2>5. /\ ApplyCall(c, cmd) = [c EXCEPT !.remotes = r, !.streams = s]
        /\ ApplyCall(NoStreams(c), cmd) = [NoStreams(c) EXCEPT !.remotes = r, !.streams = {}]
    BY <2>1, <2>2, <2>3, <2>4
  <2>6. ApplyCall(c, cmd) \in Calls /\ ApplyCall(c, cmd).id = c.id /\ ApplyCall(c, cmd).mic = c.mic
        /\ ApplyCall(c, cmd).streams = s /\ ApplyCall(c, cmd).remotes = r
    BY <2>5 DEF Calls
  <2>7. NoStreams(ApplyCall(c, cmd)) = ApplyCall(NoStreams(c), cmd)
    BY <2>5 DEF Calls, NoStreams
  <2> QED BY <1>5, <2>2, <2>6, <2>7
<1>6. CASE cmd.tag = "forget_all"
  <2>1. /\ ApplyCall(c, cmd) = [c EXCEPT !.remotes = {}, !.streams = {}]
        /\ ApplyCall(NoStreams(c), cmd) = [NoStreams(c) EXCEPT !.remotes = {}, !.streams = {}]
    BY <1>6 DEF ApplyCall
  <2> QED BY <1>6, <2>1 DEF Calls, NoStreams
<1> QED BY <1>1, <1>2, <1>3, <1>4, <1>5, <1>6, CallSendTypes

\* A call that starts has no track and no stream.
LEMMA NewCallDoes ==
  ASSUME NEW i \in CallIds
  PROVE  /\ NewCall(i) \in Calls /\ NewCall(i).id = i /\ NewCall(i).mic = NoTrack
         /\ NewCall(i).streams = {} /\ NoStreams(NewCall(i)) = NewCall(i)
<1>1. NewCall(i) \in Calls
  <2>1. NoTrack \in MicTracks /\ {} \in SUBSET Users
    BY DEF MicTracks
  <2> QED BY <2>1 DEF NewCall, Calls
<1>2. NewCall(i).id = i /\ NewCall(i).mic = NoTrack /\ NewCall(i).streams = {}
  BY DEF NewCall
<1>3. ASSUME NEW c \in Calls, c.streams = {} PROVE NoStreams(c) = c
  BY <1>3 DEF Calls, NoStreams
<1> QED BY <1>1, <1>2, <1>3

\* What is sent holds no pull of another track, and one that the gate let through.
LEMMA LeaksByPlace ==
  ASSUME NEW s \in Seq(Pulls)
  PROVE  /\ Len(s) \in Nat
         /\ \A pull \in ToSet(s) : \E i \in 1..Len(s) : pull = s[i]
         /\ \A i \in 1..Len(s) : s[i] \in ToSet(s)
<1>1. DOMAIN s = 1..Len(s) /\ Len(s) \in Nat
  OBVIOUS
<1> QED BY <1>1, Zenon DEF ToSet

-----------------------------------------------------------------------------
(* The steps. *)

\* The parts of the invariant that speak of the call, its frame and what is sent.
LEMMA SameCall ==
  ASSUME OwnCalls, OwnCommandsOnly, FrameOfTrack, NothingLeaks, StreamsListened, UNCHANGED <<call, own, chain, out>>
  PROVE  OwnCalls' /\ OwnCommandsOnly' /\ FrameOfTrack' /\ NothingLeaks' /\ StreamsListened'
BY DEF OwnCalls, OwnCommandsOnly, FrameOfTrack, NothingLeaks, StreamsListened

\* A command sent by one who still may.
LEMMA SentLast ==
  ASSUME VoiceTypes, EndsLast, NEW c \in Sends, channel' = Append(channel, c), issued' = issued,
         handles' \subseteq handles,
         c.tag \notin {"open", "ptt"} => c.id \in handles,
         c.tag = "end" => c.id \notin handles',
         \A i \in 1..MaxCalls : i > issued => given'.on[i] = NoTrack
  PROVE  EndsLast' /\ channel' \in Seq(Sends)
<1> DEFINE n == Len(channel)
<1>1. /\ n \in Nat /\ Len(channel') = n + 1 /\ channel'[n + 1] = c /\ channel' \in Seq(Sends)
      /\ \A p \in 1..n : channel'[p] = channel[p]
      /\ \A p \in 1..Len(channel') : p \in 1..n \/ p = n + 1
  BY ChannelGrows DEF VoiceTypes
<1> HIDE DEF n
<1>2. \A p \in 1..Len(channel') : channel'[p].tag = "end" => channel'[p].id <= issued
  BY <1>1 DEF EndsLast, VoiceTypes, n
<1>3. \A p \in 1..Len(channel') : channel'[p].tag = "end" => channel'[p].id \notin handles'
  BY <1>1 DEF EndsLast, n
<1>4. ASSUME NEW p \in 1..Len(channel'), NEW q \in 1..Len(channel'), p < q, channel'[p].tag = "end"
      PROVE  ~OfCall(channel'[q], channel'[p].id)
  <2>1. p \in 1..n /\ channel'[p] = channel[p]
    BY <1>1, <1>4
  <2>2. CASE q \in 1..n
    BY <1>1, <1>4, <2>1, <2>2 DEF EndsLast, n
  <2>3. CASE q = n + 1
    <3>1. channel[p].id \notin handles
      BY <1>4, <2>1 DEF EndsLast, n
    <3> QED BY <1>1, <2>1, <2>3, <3>1 DEF OfCall
  <2> QED BY <1>1, <2>2, <2>3
<1> QED BY <1>1, <1>2, <1>3, <1>4 DEF EndsLast, OfCall

\* Commands taken in turn.
LEMMA TakenLast ==
  ASSUME VoiceTypes, EndsLast, channel # <<>>, channel' = Tail(channel), UNCHANGED <<issued, handles, given>>
  PROVE  EndsLast' /\ channel' \in Seq(Sends)
<1> DEFINE n == Len(channel)
<1>1. /\ n \in Nat /\ n >= 1 /\ Len(channel') = n - 1 /\ channel' \in Seq(Sends)
      /\ \A p \in 1..Len(channel') : channel'[p] = channel[p + 1] /\ p + 1 \in 1..n
  BY ChannelShrinks DEF VoiceTypes
<1> HIDE DEF n
<1>2. ASSUME NEW p \in 1..Len(channel'), NEW q \in 1..Len(channel'), p < q, channel'[p].tag = "end"
      PROVE  ~OfCall(channel'[q], channel'[p].id)
  <2>1. p + 1 < q + 1 /\ p + 1 \in 1..n /\ q + 1 \in 1..n /\ channel'[p] = channel[p + 1] /\ channel'[q] = channel[q + 1]
    BY <1>1, <1>2
  <2> QED BY <1>2, <2>1 DEF EndsLast, n
<1>3. \A p \in 1..Len(channel') : channel'[p].tag = "end" => channel'[p].id <= issued /\ channel'[p].id \notin handles
  BY <1>1 DEF EndsLast, n
<1> QED BY <1>1, <1>2, <1>3 DEF EndsLast, OfCall

\* A handle opens, and has no track yet.
LEMMA CallOpensKeeps ==
  ASSUME VoiceInv, CallOpens
  PROVE  VoiceInv'
<1> USE DEF VoiceInv
<1>1. /\ issued' = issued + 1 /\ handles' = handles \cup {issued + 1} /\ issued < MaxCalls
      /\ UNCHANGED <<channel, call, chain, talk, io, out, given, own, sentCommands, pulls>>
  BY DEF CallOpens
<1>2. /\ issued + 1 \in 1..MaxCalls /\ issued + 1 \in CallIds /\ issued \in Nat /\ MaxCalls \in Nat
      /\ \A i \in handles : i \in Nat
  BY <1>1, VoiceAssumption DEF VoiceTypes, CallIds
<1>3. VoiceTypes'
  <2>1. handles' \subseteq 1..MaxCalls /\ issued' \in CallIds /\ \A i \in handles' : i <= issued'
    <3>1. handles \subseteq 1..MaxCalls /\ \A i \in handles : i <= issued
      BY DEF VoiceTypes
    <3> QED BY <1>1, <1>2, <3>1
  <2> QED BY <1>1, <2>1 DEF VoiceTypes
<1>4. given.on[issued + 1] = NoTrack
  BY <1>2 DEF EndsLast
<1>5. TracksInTurn'
  <2>1. \A t \in Tracks \ {NoTrack} : Silent(t)' <=> Silent(t)
    BY <1>1 DEF Silent, Fresh
  <2> QED BY <1>1, <1>4, <2>1, SameTracks
<1>6. EndsLast'
  <2>1. \A p \in 1..Len(channel) : channel[p].tag = "end" => channel[p].id \in CallIds
    <3>1. \A p \in 1..Len(channel) : channel[p] \in Sends
      BY DEF VoiceTypes
    <3> QED BY <3>1, CallSendTypes
  <2>2. \A p \in 1..Len(channel) : channel[p].tag = "end" => channel[p].id <= issued' /\ channel[p].id \notin handles'
    <3> SUFFICES ASSUME NEW p \in 1..Len(channel), channel[p].tag = "end", NEW i \in CallIds, i = channel[p].id
                 PROVE  i <= issued' /\ i \notin handles'
      BY <2>1
    <3>1. i <= issued /\ i \notin handles
      BY DEF EndsLast
    <3>2. i \in Nat
      BY <1>2 DEF CallIds
    <3> QED BY <1>1, <1>2, <3>1, <3>2
  <2>3. \A i \in 1..MaxCalls : i > issued' => given'.on[i] = NoTrack
    BY <1>1, <1>2 DEF EndsLast
  <2> QED BY <1>1, <2>2, <2>3 DEF EndsLast, OfCall
<1>7. WholePulls'
  BY <1>1 DEF WholePulls
<1> QED BY <1>1, <1>3, <1>5, <1>6, <1>7, SameCall

\* A handle is dropped: its end is the last it sends.
LEMMA CallDropsKeeps ==
  ASSUME VoiceInv, CallDrops
  PROVE  VoiceInv'
<1> USE DEF VoiceInv
<1>1. PICK id \in handles : handles' = handles \ {id} /\ channel' = Append(channel, [tag |-> "end", id |-> id])
  BY DEF CallDrops, Send
<1>2. UNCHANGED <<issued, call, chain, talk, io, out, given, own, sentCommands, pulls>>
  BY DEF CallDrops
<1>3. PICK c \in Sends : c = [tag |-> "end", id |-> id] /\ c.tag = "end" /\ c.id = id
  <2>1. id \in CallIds
    BY VoiceAssumption DEF VoiceTypes, CallIds
  <2>2. [tag |-> "end", id |-> id] \in EndSends
    BY <2>1 DEF EndSends
  <2> QED BY <2>2 DEF Sends
<1>4. EndsLast' /\ channel' \in Seq(Sends)
  <2>1. \A i \in 1..MaxCalls : i > issued => given'.on[i] = NoTrack
    BY <1>2 DEF EndsLast
  <2> QED BY <1>1, <1>2, <1>3, <2>1, SentLast
<1>5. VoiceTypes'
  BY <1>1, <1>2, <1>4 DEF VoiceTypes
<1>6. TracksInTurn'
  BY <1>1, <1>2, <1>3, OtherSent
<1>7. WholePulls'
  BY <1>2 DEF WholePulls
<1> QED BY <1>2, <1>4, <1>5, <1>6, <1>7, SameCall

\* A call sends a command.
LEMMA CallCommandKeeps ==
  ASSUME VoiceInv, CallCommand
  PROVE  VoiceInv'
<1> USE DEF VoiceInv
<1>0. PICK id \in handles : \E c \in CallCommands(id) :
        /\ channel' = Append(channel, c)
        /\ given' = IF c.tag # "send_on" THEN given
                    ELSE [used |-> given.used \cup {c.track}, on |-> [given.on EXCEPT ![id] = c.track]]
  BY DEF CallCommand, Send
<1>1. PICK c \in CallCommands(id) :
        /\ channel' = Append(channel, c)
        /\ given' = IF c.tag # "send_on" THEN given
                    ELSE [used |-> given.used \cup {c.track}, on |-> [given.on EXCEPT ![id] = c.track]]
  BY <1>0
<1>2. UNCHANGED <<handles, issued, call, chain, talk, io, out, own, pulls>>
  BY DEF CallCommand
<1>3. /\ id \in 1..MaxCalls /\ id \in CallIds /\ given.on \in [1..MaxCalls -> MicTracks] /\ id <= issued
      /\ issued \in Nat /\ MaxCalls \in Nat
  <2>1. /\ handles \subseteq 1..MaxCalls /\ given.on \in [1..MaxCalls -> MicTracks] /\ id <= issued
        /\ issued \in 0..MaxCalls /\ MaxCalls \in Nat
    BY VoiceAssumption DEF VoiceTypes, CallIds
  <2> QED BY <2>1 DEF CallIds
<1>4. (Tracks \ given.used) \cup {NoTrack, given.on[id]} \subseteq MicTracks
  BY <1>3 DEF MicTracks
<1>5. c \in Sends /\ c.id = id /\ c.tag \notin {"open", "ptt", "end"}
  BY <1>3, <1>4 DEF CallCommands, Sends, CallSends
<1>6. /\ TracksInTurn' /\ given'.used \subseteq MicTracks /\ given'.on \in [1..MaxCalls -> MicTracks]
      /\ \A j \in 1..MaxCalls : j # id => given'.on[j] = given.on[j]
  <2>1. CASE c.tag = "send_on"
    <3>1. PICK t \in (Tracks \ given.used) \cup {NoTrack, given.on[id]} :
             c = [tag |-> "send_on", id |-> id, track |-> t] /\ c.track = t
      BY <2>1 DEF CallCommands
    <3> QED BY <1>1, <1>2, <2>1, <3>1, TrackSent
  <2>2. CASE c.tag # "send_on"
    <3>1. TracksInTurn' /\ given' = given
      BY <1>1, <1>2, <1>5, <2>2, OtherSent
    <3> QED BY <3>1 DEF VoiceTypes
  <2> QED BY <2>1, <2>2
<1>7. EndsLast' /\ channel' \in Seq(Sends)
  <2>1. \A i \in 1..MaxCalls : i > issued => given'.on[i] = NoTrack
    BY <1>3, <1>6 DEF EndsLast
  <2> QED BY <1>1, <1>2, <1>5, <2>1, SentLast
<1>8. VoiceTypes'
  BY <1>2, <1>6, <1>7 DEF VoiceTypes
<1>9. WholePulls'
  BY <1>2 DEF WholePulls
<1> QED BY <1>2, <1>6, <1>7, <1>8, <1>9, SameCall

\* The app sends one.
LEMMA AppCommandKeeps ==
  ASSUME VoiceInv, AppCommand
  PROVE  VoiceInv'
<1> USE DEF VoiceInv
<1>1. PICK c \in AppSends : channel' = Append(channel, c)
  BY DEF AppCommand, AppSends, Send
<1>2. UNCHANGED <<handles, issued, call, chain, talk, io, out, given, own, sentCommands, pulls>>
  BY DEF AppCommand
<1>3. c \in Sends /\ c.tag \in {"open", "ptt"}
  BY DEF Sends, AppSends
<1>4. EndsLast' /\ channel' \in Seq(Sends)
  <2>1. \A i \in 1..MaxCalls : i > issued => given'.on[i] = NoTrack
    BY <1>2 DEF EndsLast
  <2> QED BY <1>1, <1>2, <1>3, <2>1, SentLast
<1>5. VoiceTypes'
  BY <1>2, <1>4 DEF VoiceTypes
<1>6. TracksInTurn'
  BY <1>1, <1>2, <1>3, OtherSent
<1>7. WholePulls'
  BY <1>2 DEF WholePulls
<1> QED BY <1>2, <1>4, <1>5, <1>6, <1>7, SameCall

\* A stream starts, of one who is listened to.
LEMMA ReceiveVoiceKeeps ==
  ASSUME VoiceInv, ReceiveVoice
  PROVE  VoiceInv'
<1> USE DEF VoiceInv
<1>1. PICK user \in call.remotes \ call.streams : call' = [call EXCEPT !.streams = @ \cup {user}]
  BY DEF ReceiveVoice
<1>2. UNCHANGED <<handles, issued, channel, chain, talk, io, out, given, own, sentCommands, pulls>>
  BY DEF ReceiveVoice
<1>3. PICK s \in SUBSET Users : s = call.streams \cup {user} /\ s \subseteq call.remotes
  <2>1. call.streams \in SUBSET Users /\ call.remotes \in SUBSET Users /\ call.streams \subseteq call.remotes
    BY DEF VoiceTypes, Calls, StreamsListened
  <2> QED BY <2>1
<1>4. call' = [call EXCEPT !.streams = s]
  BY <1>1, <1>3
<1>5. /\ call' \in Calls /\ call'.id = call.id /\ call'.mic = call.mic /\ call'.remotes = call.remotes
      /\ call'.streams = s
  BY <1>4 DEF VoiceTypes, Calls
<1>6. NoStreams(call') = NoStreams(call)
  BY <1>4 DEF VoiceTypes, Calls, NoStreams
<1>7. OwnCalls' /\ OwnCommandsOnly' /\ StreamsListened'
  BY <1>2, <1>3, <1>5, <1>6 DEF OwnCalls, OwnCommandsOnly, StreamsListened, NoStreams
<1>8. FrameOfTrack' /\ NothingLeaks' /\ WholePulls'
  BY <1>2, <1>5 DEF FrameOfTrack, NothingLeaks, WholePulls
<1>9. TracksInTurn'
  <2>1. \A t \in Tracks \ {NoTrack} : Silent(t)' <=> Silent(t)
    BY <1>2, <1>5 DEF Silent, Fresh
  <2> QED BY <1>2, <2>1, SameTracks
<1>10. VoiceTypes' /\ EndsLast'
  BY <1>2, <1>5 DEF VoiceTypes, EndsLast
<1> QED BY <1>7, <1>8, <1>9, <1>10

\* The rates the devices are opened with are whole frames each.
LEMMA OpenedWhole ==
  ASSUME NEW x \in Opened
  PROVE  \A i \in DOMAIN x : x[i] % 100 = 0
<1>1. ASSUME NEW d \in Config, NEW s \in Config, NEW c \in Configs(d, {s}) PROVE c.rate % 100 = 0
  <2>1. CASE c = d /\ d.rate % 100 = 0
    BY <2>1
  <2>2. CASE c.rate = OpenRate(d)
    BY <2>2, VoiceAssumption DEF OpenRate
  <2> QED BY <1>1, <2>1, <2>2 DEF Configs
<1> DEFINE usable == {r \in Rates : \E d, s \in Config : \E c \in Configs(d, {s}) : c.handled /\ c.rate = r}
<1>2. \A r \in usable : r % 100 = 0
  BY <1>1
<1>3. x \in {<<>>} \cup (usable \X usable)
  BY DEF Opened
<1> HIDE DEF usable
<1> QED BY <1>2, <1>3

\* The thread opens devices, or notes that the talk key is down or up.
LEMMA ApplyAppKeeps ==
  ASSUME VoiceInv, Apply, Head(channel).tag \in {"open", "ptt"}
  PROVE  VoiceInv'
<1> USE DEF VoiceInv
<1>1. channel # <<>> /\ channel' = Tail(channel) /\ UNCHANGED <<handles, issued, out, given, sentCommands, pulls>>
  BY DEF Apply
<1>2. /\ Head(channel).tag = "open" => io' \in Opened
           /\ chain' = [chain EXCEPT !.transmitting = FALSE, !.gate = FALSE] /\ UNCHANGED talk
      /\ Head(channel).tag = "ptt" => UNCHANGED <<chain, io>> /\ talk' = [talk EXCEPT !.down = Head(channel).down]
      /\ UNCHANGED <<call, own>>
  BY DEF Apply
<1>3. Head(channel) \in Sends
  BY <1>1, ChannelShrinks DEF VoiceTypes
<1>4. /\ chain' \in [clock : Nat, frame : Seq(Pulls), open : BOOLEAN, hangover : Int,
                      transmitting : BOOLEAN, gate : BOOLEAN]
      /\ chain'.clock = chain.clock /\ chain'.frame = chain.frame /\ chain'.open = chain.open
  <2> DEFINE F == Seq(Pulls)
  <2>1. chain \in [clock : Nat, frame : F, open : BOOLEAN, hangover : Int, transmitting : BOOLEAN, gate : BOOLEAN]
    BY DEF VoiceTypes
  <2> HIDE DEF F
  <2>2. /\ chain' \in [clock : Nat, frame : F, open : BOOLEAN, hangover : Int, transmitting : BOOLEAN, gate : BOOLEAN]
        /\ chain'.clock = chain.clock /\ chain'.frame = chain.frame /\ chain'.open = chain.open
    BY <1>2, <2>1
  <2> QED BY <2>2 DEF F
<1>5. talk' \in [mode : {"ptt", "voice"}, down : BOOLEAN]
  <2>1. Head(channel).tag = "ptt" => Head(channel).down \in BOOLEAN
    BY <1>3, CallSendTypes
  <2>2. talk \in [mode : {"ptt", "voice"}, down : BOOLEAN]
    BY DEF VoiceTypes
  <2> QED BY <1>2, <2>1, <2>2
<1>6. EndsLast' /\ channel' \in Seq(Sends)
  BY <1>1, TakenLast
<1>7. VoiceTypes'
  BY <1>1, <1>2, <1>4, <1>5, <1>6 DEF VoiceTypes
<1>8. TracksInTurn'
  <2>1. \A j \in CallIds : own'[j].mic = own[j].mic /\ ~Names(Head(channel), j)
    BY <1>2 DEF Names
  <2>2. call'.mic = call.mic
    BY <1>2
  <2> QED BY <1>1, <2>1, <2>2, TrackTaken
<1>9. OwnCalls' /\ OwnCommandsOnly' /\ NothingLeaks' /\ StreamsListened'
  BY <1>1, <1>2 DEF OwnCalls, OwnCommandsOnly, NothingLeaks, StreamsListened
<1>10. FrameOfTrack'
  BY <1>1, <1>2, <1>4 DEF FrameOfTrack
<1>11. WholePulls'
  BY <1>2, OpenedWhole DEF WholePulls
<1> QED BY <1>6, <1>7, <1>8, <1>9, <1>10, <1>11

\* A call ends, and with it the one on the thread if it is not newer.
LEMMA ApplyEndKeeps ==
  ASSUME VoiceInv, Apply, Head(channel).tag = "end"
  PROVE  VoiceInv'
<1> USE DEF VoiceInv
<1>1. channel # <<>> /\ channel' = Tail(channel) /\ UNCHANGED <<handles, issued, out, given, sentCommands, pulls>>
  BY DEF Apply
<1>2. PICK i \in CallIds : i = Head(channel).id
  <2>1. Head(channel) \in Sends
    BY <1>1, ChannelShrinks DEF VoiceTypes
  <2> QED BY <2>1, CallSendTypes
<1>3. /\ call' = IF i >= call.id THEN NewCall(i) ELSE call
      /\ own' = [own EXCEPT ![i] = NewCall(i)]
      /\ UNCHANGED <<chain, talk, io>>
  BY <1>2 DEF Apply, Ends
<1>4. own \in [CallIds -> Calls] /\ call \in Calls /\ call.id \in CallIds /\ i \in Nat
      /\ \A j \in CallIds : j \in Nat
  <2>1. own \in [CallIds -> Calls] /\ call \in Calls
    BY DEF VoiceTypes
  <2>2. call.id \in CallIds
    BY <2>1 DEF Calls
  <2>3. \A j \in CallIds : j \in Nat
    BY VoiceAssumption DEF CallIds
  <2> QED BY <2>1, <2>2, <2>3
<1>5. /\ own' \in [CallIds -> Calls] /\ own'[i] = NewCall(i)
      /\ \A j \in CallIds : j # i => own'[j] = own[j]
  <2>1. NewCall(i) \in Calls
    BY NewCallDoes
  <2> QED BY <1>3, <1>4, <2>1
<1>6. EndsLast' /\ channel' \in Seq(Sends)
  BY <1>1, TakenLast
<1>7. call' \in Calls /\ call'.id >= call.id /\ call'.id >= i /\ call'.id \in CallIds
  <2>1. CASE i >= call.id
    BY <1>3, <1>4, <2>1, NewCallDoes
  <2>2. CASE ~(i >= call.id)
    <3>1. call' = call
      BY <1>3, <2>2
    <3>2. call.id \in Nat
      BY <1>4
    <3>3. call.id >= i /\ call.id >= call.id
      BY <1>4, <2>2, <3>2
    <3> QED BY <1>4, <3>1, <3>3
  <2> QED BY <2>1, <2>2
<1>8. VoiceTypes'
  BY <1>1, <1>3, <1>5, <1>6, <1>7 DEF VoiceTypes
<1>9. call'.mic \in {call.mic, NoTrack} /\ (call'.mic = call.mic \/ call'.mic = NoTrack)
  BY <1>3, NewCallDoes
<1>10. TracksInTurn'
  <2>1. ASSUME NEW j \in CallIds
        PROVE \/ own'[j].mic = own[j].mic /\ ~Names(Head(channel), j)
              \/ Head(channel).tag = "end" /\ Head(channel).id = j
    BY <1>2, <1>5 DEF Names
  <2> QED BY <1>1, <1>9, <2>1, TrackTaken
<1>11. OwnCalls'
  <2>1. ASSUME NEW j \in CallIds
        PROVE  own'[j].id = j /\ own'[j].streams = {} /\ (j > call'.id => own'[j] = NewCall(j))
    <3>1. CASE j = i
      BY <1>5, <3>1, NewCallDoes
    <3>2. CASE j # i
      <4>1. own'[j] = own[j] /\ (j > call'.id => j > call.id)
        <5>1. j \in Nat /\ call.id \in Nat /\ call'.id \in Nat
          BY <1>4, <1>7
        <5> QED BY <1>5, <1>7, <3>2, <5>1
      <4> QED BY <4>1 DEF OwnCalls
    <3> QED BY <3>1, <3>2
  <2> QED BY <2>1 DEF OwnCalls
<1>12. OwnCommandsOnly'
  <2>1. CASE i >= call.id
    <3>1. call' = NewCall(i) /\ NoStreams(NewCall(i)) = NewCall(i) /\ NewCall(i).id = i
      BY <1>3, <2>1, NewCallDoes
    <3>2. NoStreams(call') = own'[call'.id]
      BY <1>5, <3>1
    <3> QED BY <3>2 DEF OwnCommandsOnly, NoStreams
  <2>2. CASE ~(i >= call.id)
    <3>1. call' = call /\ own'[call.id] = own[call.id]
      BY <1>3, <1>4, <1>5, <2>2
    <3> QED BY <3>1 DEF OwnCommandsOnly
  <2> QED BY <2>1, <2>2
<1>13. NothingLeaks' /\ WholePulls'
  BY <1>1, <1>3 DEF NothingLeaks, WholePulls
<1>14. StreamsListened'
  BY <1>3, NewCallDoes DEF StreamsListened
<1>15. FrameOfTrack'
  <2>1. CASE call'.mic = NoTrack
    BY <1>3, <2>1 DEF FrameOfTrack
  <2>2. CASE call'.mic = call.mic
    BY <1>1, <1>3, <2>2 DEF FrameOfTrack
  <2> QED BY <1>9, <2>1, <2>2
<1> QED BY <1>6, <1>8, <1>10, <1>11, <1>12, <1>13, <1>14, <1>15

\* The thread applies a command of a call: an older call's says nothing, a newer one's starts it.
LEMMA ApplyCallKeeps ==
  ASSUME VoiceInv, Apply, Head(channel).tag \notin {"open", "ptt", "end"}
  PROVE  VoiceInv'
<1> USE DEF VoiceInv
<1>1. channel # <<>> /\ channel' = Tail(channel) /\ UNCHANGED <<handles, issued, out, given, sentCommands, pulls>>
  BY DEF Apply
<1>2. PICK cmd \in Sends : cmd = Head(channel) /\ cmd = channel[1] /\ Len(channel) \in Nat /\ Len(channel) >= 1
  BY <1>1, ChannelShrinks DEF VoiceTypes
<1>3. PICK i \in CallIds : i = cmd.id
  BY <1>2, CallSendTypes
<1>4. PICK T : T = TakenOver(i)
  OBVIOUS
<1>5. /\ call' = IF i < call.id THEN call ELSE ApplyCall(T, cmd)
      /\ chain' = IF i >= call.id /\ cmd.tag = "send_on" /\ T.mic # cmd.track THEN ResetClock(chain) ELSE chain
      /\ own' = [own EXCEPT ![i] = ApplyCall(own[i], cmd)]
      /\ UNCHANGED <<talk, io>>
  BY <1>2, <1>3, <1>4 DEF Apply, MicChanged
<1>6. own \in [CallIds -> Calls] /\ call \in Calls /\ call.id \in CallIds /\ call.id \in Nat /\ i \in Nat
      /\ own[i] \in Calls /\ \A j \in CallIds : j \in Nat
  <2>1. own \in [CallIds -> Calls] /\ call \in Calls
    BY DEF VoiceTypes
  <2>2. call.id \in CallIds
    BY <2>1 DEF Calls
  <2>3. \A j \in CallIds : j \in Nat
    BY VoiceAssumption DEF CallIds
  <2> QED BY <2>1, <2>2, <2>3
\* The call it is applied to.
<1>7. ASSUME ~(i < call.id)
      PROVE  /\ T \in Calls /\ T.id = i /\ NoStreams(T) = own[i] /\ T.streams \subseteq T.remotes
             /\ T.mic = own[i].mic /\ (T = call \/ T.mic = NoTrack)
  <2>1. CASE i = call.id
    <3>1. T = call /\ NoStreams(T) = own[i]
      BY <1>4, <1>6, <2>1 DEF TakenOver, OwnCommandsOnly, NoStreams
    <3>2. NoStreams(T).mic = T.mic
      BY <1>6, <3>1 DEF NoStreams, Calls
    <3> QED BY <1>6, <2>1, <3>1, <3>2 DEF StreamsListened
  <2>2. CASE i # call.id
    <3>1. i > call.id
      BY <1>6, <1>7, <2>2
    <3>2. T = NewCall(i) /\ own[i] = NewCall(i)
      BY <1>4, <3>1 DEF TakenOver, OwnCalls
    <3> QED BY <3>2, NewCallDoes
  <2> QED BY <2>1, <2>2
<1> DEFINE after == ApplyCall(own[i], cmd)
<1>8. /\ after \in Calls /\ after.id = i /\ after.streams = {}
      /\ after.mic = (IF cmd.tag = "send_on" THEN cmd.track ELSE own[i].mic)
  BY <1>2, <1>6, ApplyCallDoes DEF OwnCalls
<1>9. /\ own' \in [CallIds -> Calls] /\ own'[i] = after /\ \A j \in CallIds : j # i => own'[j] = own[j]
  BY <1>5, <1>6, <1>8
<1> HIDE DEF after
<1>10. ASSUME ~(i < call.id)
       PROVE  /\ call' \in Calls /\ call'.id = i /\ call'.streams \subseteq call'.remotes
              /\ call'.mic = (IF cmd.tag = "send_on" THEN cmd.track ELSE T.mic)
              /\ NoStreams(call') = own'[i]
  <2>1. call' = ApplyCall(T, cmd) /\ T \in Calls /\ T.id = i /\ NoStreams(T) = own[i] /\ T.streams \subseteq T.remotes
    BY <1>5, <1>7, <1>10
  <2>2. NoStreams(call') = after
    BY <1>2, <2>1, ApplyCallDoes DEF after
  <2> QED BY <1>2, <1>9, <2>1, <2>2, ApplyCallDoes
<1>11. ASSUME i < call.id PROVE call' = call /\ chain' = chain /\ own'[call.id] = own[call.id]
  BY <1>5, <1>6, <1>9, <1>11
<1>12. call' \in Calls /\ call'.id >= call.id /\ call'.id >= i /\ call'.id \in Nat
  <2>1. CASE i < call.id
    BY <1>6, <1>11, <2>1
  <2>2. CASE ~(i < call.id)
    BY <1>6, <1>10, <2>2
  <2> QED BY <2>1, <2>2
<1>13. EndsLast' /\ channel' \in Seq(Sends)
  BY <1>1, TakenLast
<1>14. /\ chain' \in [clock : Nat, frame : Seq(Pulls), open : BOOLEAN, hangover : Int,
                       transmitting : BOOLEAN, gate : BOOLEAN]
       /\ \/ chain' = chain
          \/ /\ i >= call.id /\ cmd.tag = "send_on" /\ T.mic # cmd.track
             /\ chain'.clock = 0 /\ chain'.frame = <<>> /\ chain'.open = FALSE
  <2> DEFINE F == Seq(Pulls)
  <2>1. chain \in [clock : Nat, frame : F, open : BOOLEAN, hangover : Int, transmitting : BOOLEAN, gate : BOOLEAN]
        /\ <<>> \in F
    BY DEF VoiceTypes
  <2> HIDE DEF F
  <2>2. chain' \in [clock : Nat, frame : F, open : BOOLEAN, hangover : Int, transmitting : BOOLEAN, gate : BOOLEAN]
        /\ \/ chain' = chain
           \/ /\ i >= call.id /\ cmd.tag = "send_on" /\ T.mic # cmd.track
              /\ chain'.clock = 0 /\ chain'.frame = <<>> /\ chain'.open = FALSE
    BY <1>5, <2>1 DEF ResetClock
  <2> QED BY <2>2 DEF F
<1>15. VoiceTypes'
  BY <1>1, <1>5, <1>9, <1>12, <1>13, <1>14 DEF VoiceTypes
<1>16. call'.mic \in {call.mic, NoTrack, cmd.track} /\ (call'.mic \in {call.mic, NoTrack} \/ cmd.tag = "send_on")
  <2>1. CASE i < call.id
    BY <1>11, <2>1
  <2>2. CASE ~(i < call.id)
    BY <1>7, <1>10, <2>2
  <2> QED BY <2>1, <2>2
<1>17. TracksInTurn'
  <2>1. ASSUME NEW j \in CallIds
        PROVE  \/ own'[j].mic = own[j].mic /\ ~Names(cmd, j)
               \/ Names(cmd, j) /\ own'[j].mic = cmd.track
    <3>1. CASE j # i
      BY <1>3, <1>9, <3>1 DEF Names
    <3>2. CASE j = i
      BY <1>3, <1>8, <1>9, <3>2 DEF Names
    <3> QED BY <3>1, <3>2
  <2> QED BY <1>1, <1>2, <1>16, <2>1, TrackTaken
<1>18. OwnCalls'
  <2>1. ASSUME NEW j \in CallIds
        PROVE  own'[j].id = j /\ own'[j].streams = {} /\ (j > call'.id => own'[j] = NewCall(j))
    <3>1. CASE j = i
      BY <1>6, <1>8, <1>9, <1>12, <3>1
    <3>2. CASE j # i
      <4>1. own'[j] = own[j] /\ (j > call'.id => j > call.id)
        <5>1. j \in Nat /\ call.id \in Nat /\ call'.id \in Nat
          BY <1>6, <1>12
        <5> QED BY <1>9, <1>12, <3>2, <5>1
      <4> QED BY <4>1 DEF OwnCalls
    <3> QED BY <3>1, <3>2
  <2> QED BY <2>1 DEF OwnCalls
<1>19. OwnCommandsOnly' /\ StreamsListened'
  <2>1. CASE i < call.id
    BY <1>11, <2>1 DEF OwnCommandsOnly, StreamsListened
  <2>2. CASE ~(i < call.id)
    BY <1>10, <2>2 DEF OwnCommandsOnly, StreamsListened, NoStreams
  <2> QED BY <2>1, <2>2
<1>20. NothingLeaks' /\ WholePulls'
  BY <1>1, <1>5 DEF NothingLeaks, WholePulls
<1>21. FrameOfTrack'
  <2> DEFINE resets == i >= call.id /\ cmd.tag = "send_on" /\ T.mic # cmd.track
  <2>1. CASE ~resets
    <3>1. chain' = chain
      BY <1>5, <2>1
    <3>2. call'.mic = call.mic \/ call'.mic = NoTrack
      <4>1. CASE i < call.id
        BY <1>11, <4>1
      <4>2. CASE ~(i < call.id)
        <5>1. i >= call.id
          BY <1>6, <4>2
        <5>2. call'.mic = T.mic
          BY <1>10, <2>1, <4>2, <5>1
        <5> QED BY <1>7, <4>2, <5>2
      <4> QED BY <4>1, <4>2
    <3>3. CASE call'.mic = NoTrack
      BY <3>1, <3>3 DEF FrameOfTrack
    <3>4. CASE call'.mic = call.mic
      BY <1>1, <3>1, <3>4 DEF FrameOfTrack
    <3> QED BY <3>2, <3>3, <3>4
  <2>2. CASE resets
    <3>1. ~(i < call.id)
      BY <1>6, <2>2
    <3>2. chain'.clock = 0 /\ chain'.frame = <<>> /\ chain'.open = FALSE
      <4>1. chain' = ResetClock(chain)
        BY <1>5, <2>2
      <4>2. chain \in [clock : Nat, frame : Seq(Pulls), open : BOOLEAN, hangover : Int,
                       transmitting : BOOLEAN, gate : BOOLEAN]
        BY DEF VoiceTypes
      <4> QED BY <4>1, <4>2 DEF ResetClock
    <3>3. call'.mic = cmd.track /\ T.mic # cmd.track /\ T.mic = own[i].mic
      BY <1>7, <1>10, <2>2, <3>1
    <3>4. ASSUME cmd.track # NoTrack PROVE 0 > out'[cmd.track].at
      <4>1. cmd.track \in Tracks \ {NoTrack}
        BY <1>2, <2>2, <3>4, CallSendTypes DEF MicTracks
      <4>2. 1 \in 1..Len(channel)
        BY <1>2
      <4>3. Silent(cmd.track) \/ StaysOn(i, cmd.track, 1)
        BY <1>2, <1>3, <2>2, <4>1, <4>2 DEF TracksInTurn, NamedInTurn
      <4>4. ~StaysOn(i, cmd.track, 1)
        BY <3>3 DEF StaysOn
      <4> QED BY <1>1, <4>3, <4>4 DEF Silent, Fresh
    <3>5. Len(chain'.frame) = 0
      BY <3>2
    <3> QED BY <3>2, <3>3, <3>4, <3>5 DEF FrameOfTrack
  <2> QED BY <2>1, <2>2
<1> QED BY <1>13, <1>15, <1>17, <1>18, <1>19, <1>20, <1>21

\* The frame with one pull more.
LEMMA FrameGrows ==
  ASSUME NEW f \in Seq(Pulls), NEW x \in Pulls, Len(f) < 2
  PROVE  /\ Append(f, x) \in Seq(Pulls) /\ Len(Append(f, x)) = Len(f) + 1 /\ Len(f) \in {0, 1}
         /\ Append(f, x)[Len(f) + 1] = x /\ \A i \in 1..Len(f) : Append(f, x)[i] = f[i]
         /\ Len(f) + 1 \in 1..Len(Append(f, x))
<1>1. Len(f) \in Nat
  OBVIOUS
<1>2. /\ Append(f, x) \in Seq(Pulls) /\ Len(Append(f, x)) = Len(f) + 1
      /\ Append(f, x)[Len(f) + 1] = x /\ \A i \in 1..Len(f) : Append(f, x)[i] = f[i]
  OBVIOUS
<1>3. Len(f) \in {0, 1}
  <2>1. \A k \in Nat : k < 2 => k \in {0, 1}
    OBVIOUS
  <2> QED BY <1>1, <2>1, Zenon
<1> QED BY <1>1, <1>2, <1>3

\* A pull is captured; what it makes whole is sent, stamped past all that was sent on the track.
LEMMA CaptureKeeps ==
  ASSUME VoiceInv, Capture
  PROVE  /\ VoiceInv'
         /\ \A t \in Tracks : out'[t] # out[t] => out'[t].at > out[t].at
<1> USE DEF VoiceInv
<1>1. UNCHANGED <<handles, issued, channel, call, talk, io, given, own, sentCommands>>
  BY DEF Capture
<1> DEFINE F == Seq(Pulls)
           Chains == [clock : Nat, frame : F, open : BOOLEAN, hangover : Int, transmitting : BOOLEAN, gate : BOOLEAN]
<1>2. chain \in Chains /\ chain.frame \in Seq(Pulls) /\ chain.clock \in Nat /\ chain.open \in BOOLEAN
      /\ chain.hangover \in Int
  BY DEF VoiceTypes
<1>3. call.muted \in BOOLEAN /\ call.mic \in MicTracks /\ talk.down \in BOOLEAN
  BY DEF VoiceTypes, Calls
<1>4. PICK loud \in BOOLEAN :
        LET transmit == ~call.muted /\ call.mic # NoTrack
            open == chain.open \/ (GateOpen(loud) /\ transmit)
            pull == [track |-> call.mic, let |-> GateOpen(loud) /\ transmit]
            frame == Append(chain.frame, pull)
            whole == Len(frame) = 2
        IN /\ chain' = [chain EXCEPT
                !.hangover = IF talk.mode = "ptt" THEN @ ELSE Hangover(loud),
                !.gate = GateOpen(loud),
                !.frame = IF whole THEN <<>> ELSE frame,
                !.open = IF whole THEN FALSE ELSE open,
                !.clock = IF whole THEN @ + 1 ELSE @,
                !.transmitting = IF whole THEN open ELSE @]
           /\ out' = IF whole /\ open /\ call.mic # NoTrack
                     THEN [out EXCEPT ![call.mic] = [at |-> chain.clock, pulls |-> frame]]
                     ELSE out
  <2>1. (IF talk.mode = "ptt" THEN {FALSE} ELSE BOOLEAN) \subseteq BOOLEAN
    OBVIOUS
  <2> QED BY <2>1, ZenonT(60) DEF Capture
<1>5. PICK g \in BOOLEAN, h \in Int : g = GateOpen(loud) /\ h = IF talk.mode = "ptt" THEN chain.hangover ELSE Hangover(loud)
  <2>1. GateOpen(loud) \in BOOLEAN
    <3>1. CASE talk.mode = "ptt"
      BY <1>3, <3>1 DEF GateOpen
    <3>2. CASE talk.mode # "ptt"
      BY <3>2 DEF GateOpen
    <3> QED BY <3>1, <3>2
  <2>2. Hangover(loud) \in Int
    BY <1>2, VoiceAssumption DEF Hangover
  <2> QED BY <1>2, <2>1, <2>2
<1>6. PICK l \in BOOLEAN, open \in BOOLEAN, pull \in Pulls :
         /\ l = (g /\ ~call.muted /\ call.mic # NoTrack) /\ open = (chain.open \/ l)
         /\ pull = [track |-> call.mic, let |-> l]
  BY <1>2, <1>3, Zenon DEF Pulls
<1>7. PICK frame \in Seq(Pulls) : frame = Append(chain.frame, pull)
  <2>1. Append(chain.frame, pull) \in Seq(Pulls)
    BY <1>2, FrameGrows DEF FrameOfTrack
  <2> QED BY <2>1
<1> DEFINE n == Len(chain.frame)
<1>8. /\ Len(frame) = n + 1 /\ n \in {0, 1} /\ frame[n + 1] = pull /\ n + 1 \in 1..Len(frame)
      /\ \A i \in 1..n : frame[i] = chain.frame[i]
  BY <1>2, <1>7, FrameGrows DEF FrameOfTrack
<1>9. /\ chain' = [chain EXCEPT !.hangover = h, !.gate = g,
             !.frame = IF Len(frame) = 2 THEN <<>> ELSE frame,
             !.open = IF Len(frame) = 2 THEN FALSE ELSE open,
             !.clock = IF Len(frame) = 2 THEN chain.clock + 1 ELSE chain.clock,
             !.transmitting = IF Len(frame) = 2 THEN open ELSE chain.transmitting]
      /\ out' = IF Len(frame) = 2 /\ open /\ call.mic # NoTrack
                THEN [out EXCEPT ![call.mic] = [at |-> chain.clock, pulls |-> frame]] ELSE out
  <2>1. (g /\ ~call.muted /\ call.mic # NoTrack) = (GateOpen(loud) /\ (~call.muted /\ call.mic # NoTrack))
    BY <1>5
  <2>2. [track |-> call.mic, let |-> GateOpen(loud) /\ (~call.muted /\ call.mic # NoTrack)] = pull
    BY <1>6, <2>1
  <2>3. (chain.open \/ (GateOpen(loud) /\ (~call.muted /\ call.mic # NoTrack))) = open
    BY <1>6, <2>1
  <2> QED BY <1>4, <1>5, <1>7, <2>2, <2>3
<1>22. (Len(frame) = 2 <=> n = 1) /\ (Len(frame) # 2 <=> n = 0)
  <2> HIDE DEF n
  <2> QED BY <1>8
<1>23. chain.clock + 1 \in Nat /\ chain.transmitting \in BOOLEAN
  BY <1>2
<1>24. PICK f2 \in F : f2 = IF Len(frame) = 2 THEN <<>> ELSE frame
  <2>1. <<>> \in F /\ frame \in F
    OBVIOUS
  <2> HIDE DEF F
  <2> QED BY <2>1, Zenon
<1>25. PICK o2 \in BOOLEAN, t2 \in BOOLEAN :
         o2 = (IF Len(frame) = 2 THEN FALSE ELSE open) /\ t2 = IF Len(frame) = 2 THEN open ELSE chain.transmitting
  BY <1>23
<1>26. PICK c2 \in Nat : c2 = IF Len(frame) = 2 THEN chain.clock + 1 ELSE chain.clock
  BY <1>2, <1>23
<1>10. /\ chain' = [chain EXCEPT !.hangover = h, !.gate = g, !.frame = f2, !.open = o2, !.clock = c2, !.transmitting = t2]
       /\ \/ n = 1 /\ f2 = <<>> /\ o2 = FALSE /\ c2 = chain.clock + 1
          \/ n = 0 /\ f2 = frame /\ o2 = open /\ c2 = chain.clock /\ out' = out
  <2>1. chain' = [chain EXCEPT !.hangover = h, !.gate = g, !.frame = f2, !.open = o2, !.clock = c2, !.transmitting = t2]
    BY <1>9, <1>24, <1>25, <1>26
  <2>2. Len(frame) # 2 => out' = out
    BY <1>9
  <2> HIDE DEF n
  <2> QED BY <1>22, <1>24, <1>25, <1>26, <2>1, <2>2
<1> HIDE DEF F
<1>11. chain' \in Chains /\ chain'.frame = f2 /\ chain'.open = o2 /\ chain'.clock = c2
  BY <1>2, <1>10
<1> HIDE DEF n, Chains
\* What is in the frame is of the track.
<1>12. ASSUME call.mic # NoTrack PROVE \A i \in 1..Len(frame) : frame[i].track = call.mic
  <2>1. \A i \in 1..n : chain.frame[i].track = call.mic
    BY <1>12 DEF FrameOfTrack, n
  <2>2. \A i \in 1..Len(frame) : i \in 1..n \/ i = n + 1
    BY <1>8
  <2> QED BY <1>6, <1>8, <2>1, <2>2
<1>13. ASSUME open = TRUE PROVE \E i \in 1..Len(frame) : frame[i].let = TRUE
  <2>1. CASE l = TRUE
    <3>1. frame[n + 1].let = TRUE
      BY <1>6, <1>8, <2>1
    <3> QED BY <1>8, <3>1
  <2>2. CASE chain.open = TRUE
    <3>1. PICK i \in 1..n : chain.frame[i].let
      BY <2>2 DEF FrameOfTrack, n
    <3>2. i \in 1..Len(frame) /\ frame[i] = chain.frame[i] /\ chain.frame[i] \in Pulls
      BY <1>2, <1>8, <3>1 DEF n
    <3> QED BY <3>1, <3>2 DEF Pulls
  <2> QED BY <1>2, <1>6, <1>13, <2>1, <2>2
\* What goes out.
<1>14. /\ out \in [Tracks -> [at : Int, pulls : Seq(Pulls)]] /\ out' \in [Tracks -> [at : Int, pulls : Seq(Pulls)]]
       /\ \A t \in Tracks :
            \/ out'[t] = out[t]
            \/ /\ t = call.mic /\ call.mic # NoTrack /\ n = 1 /\ open = TRUE
               /\ out'[t].at = chain.clock /\ out'[t].pulls = frame
  <2> DEFINE S == Seq(Pulls)
             P == [at : Int, pulls : S]
  <2>1. out \in [Tracks -> P] /\ frame \in S
    BY DEF VoiceTypes
  <2>2. CASE Len(frame) = 2 /\ open /\ call.mic # NoTrack
    <3>1. PICK p \in P : p = [at |-> chain.clock, pulls |-> frame] /\ p.at = chain.clock /\ p.pulls = frame
      <4>1. chain.clock \in Int
        BY <1>2
      <4> HIDE DEF S
      <4>2. [at |-> chain.clock, pulls |-> frame] \in P
        BY <2>1, <4>1
      <4> HIDE DEF P
      <4> QED BY <4>2
    <3>2. out' = [out EXCEPT ![call.mic] = p] /\ call.mic \in Tracks /\ n = 1
      <4>1. out' = [out EXCEPT ![call.mic] = [at |-> chain.clock, pulls |-> frame]]
        BY <1>9, <2>2
      <4>2. n = 1
        BY <1>22, <2>2
      <4>3. call.mic \in Tracks
        BY <1>3, <2>2 DEF MicTracks
      <4> QED BY <3>1, <4>1, <4>2, <4>3
    <3> HIDE DEF P
    <3>3. out' \in [Tracks -> P] /\ out'[call.mic] = p /\ \A t \in Tracks : t # call.mic => out'[t] = out[t]
      BY <2>1, <3>2
    <3>4. \A t \in Tracks :
            \/ out'[t] = out[t]
            \/ /\ t = call.mic /\ call.mic # NoTrack /\ n = 1 /\ open = TRUE
               /\ out'[t].at = chain.clock /\ out'[t].pulls = frame
      BY <2>2, <3>1, <3>2, <3>3
    <3> QED BY <2>1, <3>3, <3>4 DEF P
  <2>3. CASE ~(Len(frame) = 2 /\ open /\ call.mic # NoTrack)
    BY <1>9, <2>1, <2>3
  <2> QED BY <2>2, <2>3
<1>15. VoiceTypes'
  <2>1. chain' \in [clock : Nat, frame : Seq(Pulls), open : BOOLEAN, hangover : Int,
                    transmitting : BOOLEAN, gate : BOOLEAN]
    BY <1>11 DEF Chains, F
  <2> QED BY <1>1, <1>14, <2>1 DEF VoiceTypes
<1>16. OwnCalls' /\ OwnCommandsOnly' /\ StreamsListened' /\ EndsLast' /\ WholePulls'
  BY <1>1 DEF OwnCalls, OwnCommandsOnly, StreamsListened, EndsLast, WholePulls
<1>17. call.mic # NoTrack => call.mic \in Tracks /\ chain.clock > out[call.mic].at /\ out[call.mic].at \in Int
  BY <1>3, <1>14 DEF FrameOfTrack, MicTracks
<1>18. \A t \in Tracks : out'[t] # out[t] => out'[t].at > out[t].at
  BY <1>14, <1>17
<1>19. TracksInTurn'
  <2>1. \A t \in Tracks \ {NoTrack} : Silent(t)' <=> Silent(t)
    BY <1>1, <1>14 DEF Silent, Fresh
  <2> QED BY <1>1, <2>1, SameTracks
<1>20. NothingLeaks'
  <2> SUFFICES ASSUME NEW t \in Tracks
               PROVE  /\ \A pl \in ToSet(out'[t].pulls) : pl.track = t
                      /\ ToSet(out'[t].pulls) = {} \/ \E pl \in ToSet(out'[t].pulls) : pl.let
    BY DEF NothingLeaks
  <2>1. CASE out'[t] = out[t]
    BY <2>1 DEF NothingLeaks
  <2>2. CASE t = call.mic /\ call.mic # NoTrack /\ n = 1 /\ open = TRUE /\ out'[t].pulls = frame
    <3>1. \A pl \in ToSet(frame) : pl.track = t
      BY <1>12, <2>2, LeaksByPlace
    <3>2. \E pl \in ToSet(frame) : pl.let
      BY <1>13, <2>2, LeaksByPlace
    <3> QED BY <2>2, <3>1, <3>2
  <2> QED BY <1>14, <2>1, <2>2
<1>21. FrameOfTrack'
  <2>1. CASE n = 1
    <3>1. f2 = <<>> /\ Len(f2) = 0 /\ o2 = FALSE /\ c2 = chain.clock + 1
      BY <1>10, <2>1
    <3>2. call.mic # NoTrack => c2 > out'[call.mic].at
      <4> SUFFICES ASSUME call.mic # NoTrack PROVE c2 > out'[call.mic].at
        OBVIOUS
      <4>1. chain.clock \in Nat
        BY <1>2
      <4>2. out'[call.mic].at = chain.clock \/ out'[call.mic].at = out[call.mic].at
        BY <1>14, <1>17
      <4> QED BY <1>17, <3>1, <4>1, <4>2
    <3> QED BY <1>1, <1>11, <3>1, <3>2 DEF FrameOfTrack
  <2>2. CASE n = 0
    <3>1. f2 = frame /\ Len(frame) = 1 /\ o2 = open /\ c2 = chain.clock /\ out' = out
      BY <1>8, <1>10, <2>2
    <3>2. call.mic # NoTrack => c2 > out'[call.mic].at
      BY <1>17, <3>1
    <3>3. chain'.open => \E i \in 1..Len(frame) : frame[i].let
      BY <1>11, <1>13, <3>1
    <3> QED BY <1>1, <1>11, <1>12, <3>1, <3>2, <3>3 DEF FrameOfTrack
  <2> QED BY <1>8, <2>1, <2>2
<1> QED BY <1>15, <1>16, <1>18, <1>19, <1>20, <1>21

\* Only a capture sends.
LEMMA VoiceKeeps ==
  ASSUME VoiceInv, VoiceNext
  PROVE  /\ VoiceInv'
         /\ \A t \in Tracks : out'[t] # out[t] => out'[t].at > out[t].at
<1>1. CASE Capture
  BY <1>1, CaptureKeeps
<1>2. CASE CallOpens
  BY <1>2, CallOpensKeeps DEF CallOpens
<1>3. CASE CallDrops
  BY <1>3, CallDropsKeeps DEF CallDrops
<1>4. CASE CallCommand
  BY <1>4, CallCommandKeeps DEF CallCommand
<1>5. CASE AppCommand
  BY <1>5, AppCommandKeeps DEF AppCommand
<1>6. CASE ReceiveVoice
  BY <1>6, ReceiveVoiceKeeps DEF ReceiveVoice
<1>7. CASE Apply
  <2>1. out' = out
    BY <1>7 DEF Apply
  <2>2. CASE Head(channel).tag \in {"open", "ptt"}
    BY <1>7, <2>1, <2>2, ApplyAppKeeps
  <2>3. CASE Head(channel).tag = "end"
    BY <1>7, <2>1, <2>3, ApplyEndKeeps
  <2>4. CASE Head(channel).tag \notin {"open", "ptt", "end"}
    BY <1>7, <2>1, <2>4, ApplyCallKeeps
  <2> QED BY <2>2, <2>3, <2>4
<1> QED BY <1>1, <1>2, <1>3, <1>4, <1>5, <1>6, <1>7 DEF VoiceNext

\* Before the first call.
LEMMA VoiceInvInit == VoiceInit => VoiceInv
<1> SUFFICES ASSUME VoiceInit PROVE VoiceInv
  OBVIOUS
<1>1. 0 \in CallIds /\ MaxCalls \in Nat
  BY VoiceAssumption DEF CallIds
<1>2. channel = <<>> /\ Len(channel) = 0 /\ channel \in Seq(Sends)
  BY DEF VoiceInit
<1>3. call = NewCall(0) /\ call \in Calls /\ call.mic = NoTrack /\ call.id = 0 /\ call.streams = {}
  BY <1>1, NewCallDoes DEF VoiceInit
<1>4. own = [i \in CallIds |-> NewCall(i)]
  BY DEF VoiceInit, CallIds
<1>5. own \in [CallIds -> Calls] /\ \A i \in CallIds : own[i] = NewCall(i)
  <2>1. \A i \in CallIds : NewCall(i) \in Calls
    BY NewCallDoes
  <2> QED BY <1>4, <2>1
<1>6. /\ chain \in [clock : Nat, frame : Seq(Pulls), open : BOOLEAN, hangover : Int,
                     transmitting : BOOLEAN, gate : BOOLEAN]
      /\ chain.frame = <<>> /\ Len(chain.frame) = 0 /\ chain.open = FALSE
  BY DEF VoiceInit, NewChain
<1>7. out \in [Tracks -> [at : Int, pulls : Seq(Pulls)]] /\ \A t \in Tracks : out[t].at = -1 /\ out[t].pulls = <<>>
  BY DEF VoiceInit
<1>8. given.used = {} /\ given.on \in [1..MaxCalls -> MicTracks] /\ \A i \in 1..MaxCalls : given.on[i] = NoTrack
  BY DEF VoiceInit, MicTracks
<1>9. VoiceTypes
  <2>1. talk \in [mode : {"ptt", "voice"}, down : BOOLEAN] /\ handles = {} /\ issued = 0
    BY DEF VoiceInit
  <2> QED BY <1>1, <1>2, <1>3, <1>5, <1>6, <1>7, <1>8, <2>1 DEF VoiceTypes
<1>10. OwnCalls
  BY <1>5, NewCallDoes DEF OwnCalls
<1>11. OwnCommandsOnly
  <2>1. NoStreams(NewCall(0)) = NewCall(0)
    BY <1>1, NewCallDoes
  <2> QED BY <1>1, <1>3, <1>5, <2>1 DEF OwnCommandsOnly, NoStreams
<1>12. TracksInTurn
  <2>1. handles = {}
    BY DEF VoiceInit
  <2> QED BY <1>2, <1>3, <1>7, <1>8, <2>1
          DEF TracksInTurn, NamedInTurn, NamedTogether, GivenInTurn, GivenTogether, GivenOnce, Silent, Fresh
<1>13. EndsLast
  BY <1>2, <1>8 DEF EndsLast
<1>14. FrameOfTrack
  BY <1>3, <1>6 DEF FrameOfTrack
<1>15. NothingLeaks
  <2>1. \A t \in Tracks : ToSet(out[t].pulls) = {}
    BY <1>7 DEF ToSet
  <2> QED BY <2>1 DEF NothingLeaks
<1>16. StreamsListened /\ WholePulls
  <2>1. io = <<>>
    BY DEF VoiceInit
  <2> QED BY <1>3, <2>1 DEF StreamsListened, WholePulls
<1> QED BY <1>9, <1>10, <1>11, <1>12, <1>13, <1>14, <1>15, <1>16 DEF VoiceInv

\* voice.rs, audio.rs, devices.rs: for any number of calls, tracks and users, and whatever order
\* the handles' commands come in, a call is what its own commands made it, a packet holds nothing
\* said on another track, stamps never go back, only those listened to are in the mix, and both
\* devices run at whole pulls.
THEOREM CallsAlwaysApart == VoiceSpec => CallsApart
<1> DEFINE Forward == \A t \in Tracks : out'[t] # out[t] => out'[t].at > out[t].at
           Apart == OwnCommandsOnly /\ NothingLeaks /\ StreamsListened /\ WholePulls
<1>1. VoiceInit => VoiceInv
  BY VoiceInvInit
<1>2. VoiceInv /\ [VoiceNext]_voiceVars => VoiceInv'
  <2> SUFFICES ASSUME VoiceInv, [VoiceNext]_voiceVars PROVE VoiceInv'
    OBVIOUS
  <2>1. CASE VoiceNext
    BY <2>1, VoiceKeeps
  <2>2. CASE UNCHANGED voiceVars
    <3>1. UNCHANGED <<handles, issued, channel, call, chain, talk, io, out, given, own>>
      BY <2>2 DEF voiceVars
    <3>2. VoiceTypes'
      BY <3>1 DEF VoiceInv, VoiceTypes
    <3>3. TracksInTurn'
      BY <3>1 DEF VoiceInv, TracksInTurn, NamedInTurn, NamedTogether, GivenInTurn, GivenTogether, GivenOnce,
                  StaysOn, Silent, Fresh
    <3>4. EndsLast' /\ WholePulls'
      BY <3>1 DEF VoiceInv, EndsLast, WholePulls
    <3> QED BY <3>1, <3>2, <3>3, <3>4, SameCall DEF VoiceInv
  <2> QED BY <2>1, <2>2
<1>3. VoiceInv /\ [VoiceNext]_voiceVars => [Forward]_voiceVars
  BY VoiceKeeps
<1>4. VoiceInv => Apart
  BY DEF VoiceInv
<1> QED BY <1>1, <1>2, <1>3, <1>4, PTL DEF VoiceSpec, CallsApart, StampsForward

=============================================================================
