------------------------------- MODULE Egress -------------------------------
(***************************************************************************)
(* How media reaches one receiver (throcc-server: Sfu::ingress of sfu.rs,  *)
(* egress.rs): an inbox that ingress offers to without waiting, the losses *)
(* at a full inbox, the receiver's queues, and the egress task that drains *)
(* the one into the other, keeps the video budget and sends.               *)
(*                                                                         *)
(* One video track sends NumSeqs fragments, numbered from 0, in access     *)
(* units known by their first seq.  The way in may reorder fragments, and  *)
(* resend the start of a unit.  Packets of an audio track are alike, so    *)
(* its queue is their number.  A unit's age is whether VIDEO_BUDGET has    *)
(* passed since it arrived (late) and UNIT_IDLE since its last fragment    *)
(* (idle).                                                                 *)
(***************************************************************************)
EXTENDS Integers, Sequences, FiniteSets, FiniteSetsExt, SequencesExt, Functions

CONSTANTS
  NumSeqs,                     \* bound: fragments of video
  AudioTracks,
  Loads,                       \* what senders may send
  Inbox,                       \* INBOX
  MaxReceived,                 \* MAX_UNIT_FRAGMENTS
  MaxAudio,                    \* MAX_QUEUED_AUDIO
  MaxVideo,                    \* MAX_QUEUED_VIDEO_BYTES, in packets
  History                      \* HISTORY

ASSUME EgressConstants ==
  {NumSeqs, Inbox, MaxReceived, MaxAudio, MaxVideo, History} \subseteq Nat \ {0}

VARIABLES
  coming,      \* what the senders have yet to send: [video |-> seqs, resends |-> how many starts,
               \* audio |-> numbers], where units start (starts) and the audio there was (total)
  offered,     \* the channel
  lost,        \* InboxDrops: [list |-> packets, over |-> how many more of each track]
  batch,       \* the losses the task has taken
  step,        \* where the task is in its round
  audio,       \* AudioQueues: [queue |-> lengths, turns, len]
  units,       \* Queues.started and waiting, by id
  sending, strays, copies, nextId, videoLen,
  history,     \* first seq -> fate
  active,      \* the track was active since forget_quiet_tracks
  counted,     \* how often each unit counts as dropped in the running report
  beyond,      \* the drops in it that stand for no unit: those of overflow
  told,        \* (history) packets of each audio track counted as forwarded or dropped
  sentOut,     \* (history) fragments sent
  thrown,      \* (history) fragments thrown away by the queues
  excused,     \* (history) units that whole delivery is not promised for
  early        \* (history) units whose start was overtaken by another of their fragments, or forgotten

queueVars == <<units, sending, strays, copies, nextId, videoLen, history, active, counted,
               beyond>>
egressVars == <<coming, early, offered, lost, batch, step, audio, queueVars, told, sentOut, thrown,
                excused>>

EgressSeqs == 0..(NumSeqs - 1)
UnitIds == coming.starts
UnitAt(seq) == Max({u \in UnitIds : u <= seq})
FirstFragment(seq) == seq \in UnitIds
LastFragment(seq) == seq + 1 \in UnitIds \cup {NumSeqs}

Video(seq) == [kind |-> "video", seq |-> seq, track |-> "video"]
Audio(a) == [kind |-> "audio", seq |-> 0, track |-> a]

NoLosses == [list |-> <<>>, over |-> [t \in AudioTracks \cup {"video"} |-> 0]]

EgressInit ==
  /\ coming \in Loads
  /\ offered = <<>> /\ lost = NoLosses /\ batch = NoLosses /\ step = "top"
  /\ audio = [queue |-> [a \in AudioTracks |-> 0], turns |-> <<>>, len |-> 0]
  /\ units = <<>> /\ sending = {} /\ strays = <<>> /\ copies = [u \in UnitIds |-> {}]
  /\ nextId = 0 /\ videoLen = 0 /\ history = <<>> /\ active = FALSE
  /\ counted = [u \in UnitIds |-> 0] /\ beyond = 0 /\ told = [a \in AudioTracks |-> 0]
  /\ sentOut = {} /\ thrown = {} /\ excused = {} /\ early = {}

-----------------------------------------------------------------------------
(* The queues, as a record the operations below transform. *)

Q == [units |-> units, sending |-> sending, strays |-> strays, copies |-> copies, nextId |-> nextId,
      videoLen |-> videoLen, history |-> history, active |-> active, counted |-> counted,
      beyond |-> beyond, told |-> told, audio |-> audio, thrown |-> thrown, excused |-> excused, early |-> early]

SetQueues(q) ==
  /\ units' = q.units /\ sending' = q.sending /\ strays' = q.strays /\ copies' = q.copies
  /\ nextId' = q.nextId /\ videoLen' = q.videoLen /\ history' = q.history /\ active' = q.active
  /\ counted' = q.counted /\ beyond' = q.beyond /\ told' = q.told /\ audio' = q.audio /\ thrown' = q.thrown
  /\ excused' = q.excused /\ early' = q.early

Excuse(q, us) == [q EXCEPT !.excused = @ \cup us]
CountDrop(q, u) == [q EXCEPT !.counted[u] = @ + 1]
CountAudio(q, t) == [q EXCEPT !.told[t] = @ + 1]

Waiting(q) == {id \in DOMAIN q.units : ~q.units[id].started}
Started(q) == {id \in DOMAIN q.units : q.units[id].started}

\* remember: the last History starts are kept.
Remember(q, seq, fate) ==
  LET h == (seq :> fate) @@ q.history
      kept == IF Cardinality(DOMAIN h) > History THEN DOMAIN h \ {Min(DOMAIN h)} ELSE DOMAIN h IN
  [q EXCEPT !.history = Restrict(h, kept),
            !.excused = @ \cup {UnitAt(s) : s \in DOMAIN h \ kept},
            !.early = @ \cup {UnitAt(s) : s \in DOMAIN h \ kept}]

\* The unit whose start is the closest at or below seq.
Found(q, seq) == {s \in DOMAIN q.history : s <= seq}

Queued(id) == [fate |-> "queued", id |-> id]
Sent == [fate |-> "sent"]
Dropped == [fate |-> "dropped"]

\* VideoUnit::new and queue_unit.
QueueUnit(q, seq, stray, copy) ==
  [q EXCEPT !.units = (q.nextId :> [seq |-> seq, packets |-> <<seq>>, received |-> 1, started |-> FALSE,
                                    complete |-> stray \/ LastFragment(seq), stray |-> stray, copy |-> copy,
                                    late |-> FALSE, idle |-> FALSE]) @@ @,
            !.strays = IF stray THEN Append(@, q.nextId) ELSE @,
            !.videoLen = @ + 1, !.nextId = @ + 1]

\* Bug variant of Finish: the unit stays among the copies.
FinishKeepsCopy(q, id, fate) ==
  LET unit == q.units[id] IN
  [q EXCEPT !.units = Restrict(@, DOMAIN @ \ {id}),
            !.videoLen = @ - Len(unit.packets),
            !.sending = @ \ {id},
            !.history = IF unit.seq \in DOMAIN @ /\ @[unit.seq] = Queued(id)
                        THEN [@ EXCEPT ![unit.seq] = fate] ELSE @]
Finish(q, id, fate) ==
  LET unit == q.units[id] IN
  [q EXCEPT !.units = Restrict(@, DOMAIN @ \ {id}),
            !.videoLen = @ - Len(unit.packets),
            !.sending = @ \ {id},
            !.copies = IF unit.stray THEN @ ELSE [@ EXCEPT ![unit.seq] = @ \ {id}],
            !.history = IF unit.seq \in DOMAIN @ /\ @[unit.seq] = Queued(id)
                        THEN [@ EXCEPT ![unit.seq] = fate] ELSE @]

\* The other copies of a unit that are queued; a stray has none.
Twins(q, unit) == IF unit.stray THEN {} ELSE q.copies[unit.seq]

\* drop_unit: counted unless another copy is still queued.
DropUnit(q, id) ==
  LET unit == q.units[id]
      done == [Finish(q, id, Dropped) EXCEPT !.thrown = @ \cup Range(unit.packets)]
      twins == Twins(done, unit) IN
  IF twins # {} /\ Min(twins) \in DOMAIN done.units THEN [done EXCEPT !.units[Min(twins)].copy = FALSE]
  ELSE IF unit.stray \/ unit.copy THEN done ELSE CountDrop(done, unit.seq)

\* Some drop is in the running report, so that taking one back takes one.
SomeCounted(q) == q.beyond > 0 \/ \E w \in UnitIds : q.counted[w] > 0

\* push_video, a start.  One that counted as dropped is given another chance.
PushFirst(q, seq) ==
  LET before == IF seq \in DOMAIN q.history THEN q.history[seq].fate ELSE "none"
      uncounted == IF before = "dropped" /\ SomeCounted(q) THEN [q EXCEPT !.counted[seq] = @ - 1] ELSE q IN
  [QueueUnit(Remember(uncounted, seq, Queued(q.nextId)), seq, FALSE, before \in {"queued", "sent"})
     EXCEPT !.copies[seq] = @ \cup {q.nextId}]

\* A fragment that finds its unit: past the unit's limit the whole unit goes, also one of which
\* something has been sent.
PushInto(q, id, seq) ==
  IF q.units[id].received >= MaxReceived
  THEN [DropUnit(Excuse(q, IF q.units[id].started THEN {UnitAt(q.units[id].seq)} ELSE {}), id)
          EXCEPT !.thrown = @ \cup {seq}]
  ELSE [q EXCEPT !.units[id].packets = Append(@, seq),
                 !.units[id].received = @ + 1,
                 !.units[id].idle = FALSE,
                 !.units[id].complete = @ \/ LastFragment(seq),
                 !.sending = IF q.units[id].started THEN @ \cup {id} ELSE @,
                 !.videoLen = @ + 1]

\* push_video, another fragment.
PushRest(q, seq) ==
  LET here == Found(q, seq)
      thrownAway == [q EXCEPT !.thrown = @ \cup {seq}] IN
  IF here = {} THEN Excuse(thrownAway, {UnitAt(seq)})
  ELSE LET start == Max(here)
           fate == q.history[start]
           misplaced == IF UnitAt(start) = UnitAt(seq) THEN {} ELSE {UnitAt(start), UnitAt(seq)}
           r == Excuse(q, misplaced) IN
       CASE fate.fate = "queued" /\ fate.id \in DOMAIN q.units -> PushInto(r, fate.id, seq)
         [] fate.fate = "queued" /\ fate.id \notin DOMAIN q.units -> r
         [] fate.fate = "sent" -> Excuse(QueueUnit(r, seq, TRUE, FALSE), {UnitAt(seq)})
         [] fate.fate = "dropped" -> [r EXCEPT !.thrown = @ \cup {seq}]

\* evict_from_longest.
EvictLongest(a, longest) ==
  [a EXCEPT !.queue[longest] = @ - 1, !.len = @ - 1,
            !.turns = IF a.queue[longest] = 1 THEN SelectSeq(@, LAMBDA t : t # longest) ELSE @]

\* Bug variant of PushAudio: every packet gets its track a turn.
PushAudioTurn(a, t) ==
  [a EXCEPT !.turns = Append(@, t), !.queue[t] = @ + 1, !.len = @ + 1]
\* AudioQueues::push.
PushAudio(a, t) ==
  [a EXCEPT !.turns = IF a.queue[t] = 0 THEN Append(@, t) ELSE @,
            !.queue[t] = @ + 1, !.len = @ + 1]

\* Bug variant of Victims: whoever finds the queues full loses a packet.
VictimsAny(a) == {t \in AudioTracks : a.queue[t] > 0}
\* Which track is evicted from: one of the longest.
Victims(a) == {t \in AudioTracks : \A s \in AudioTracks : a.queue[s] <= a.queue[t]}

\* Queues::push: what the queues may be after a packet.
Pushed(q, p) ==
  CASE p.kind = "video" ->
         {IF FirstFragment(p.seq) THEN PushFirst([q EXCEPT !.active = TRUE], p.seq)
          ELSE PushRest([q EXCEPT !.active = TRUE], p.seq)}
    [] p.kind = "audio" /\ q.audio.len >= MaxAudio ->
         {[CountAudio(q, v) EXCEPT !.audio = PushAudio(EvictLongest(q.audio, v), p.track)] :
            v \in Victims(q.audio)}
    [] p.kind = "audio" /\ q.audio.len < MaxAudio ->
         {[q EXCEPT !.audio = PushAudio(q.audio, p.track)]}

-----------------------------------------------------------------------------
(* Losses and the budget. *)

\* lose, a fragment that never reached the queues: the rest of its unit goes with it.
LoseFirst(q, seq) ==
  IF seq \in DOMAIN q.history THEN q
  ELSE CountDrop(Remember(q, seq, Dropped), UnitAt(seq))

\* Bug variant of LoseRest: the loss of a unit that was sent counts each time.
LoseRestAgain(q, seq) ==
  IF Found(q, seq) = {} THEN CountDrop(Remember(q, seq, Dropped), UnitAt(seq))
  ELSE LET start == Max(Found(q, seq))
           fate == q.history[start] IN
       CASE fate.fate = "queued" -> IF fate.id \in DOMAIN q.units THEN DropUnit(q, fate.id) ELSE q
         [] fate.fate \in {"sent", "dropped"} -> CountDrop(q, UnitAt(start))
LoseRest(q, seq) ==
  IF Found(q, seq) = {} THEN CountDrop(Remember(q, seq, Dropped), UnitAt(seq))
  ELSE LET start == Max(Found(q, seq))
           fate == q.history[start] IN
       CASE fate.fate = "queued" -> IF fate.id \in DOMAIN q.units THEN DropUnit(q, fate.id) ELSE q
         [] fate.fate = "sent" -> CountDrop(Remember(q, start, Dropped), UnitAt(start))
         [] fate.fate = "dropped" -> q

Lose(q, p) ==
  IF p.kind = "audio" THEN CountAudio(q, p.track)
  ELSE LET known == Excuse([q EXCEPT !.active = TRUE],
                           {UnitAt(p.seq)} \cup {UnitAt(s) : s \in Found(q, p.seq)}) IN
       IF FirstFragment(p.seq) THEN LoseFirst(known, p.seq) ELSE LoseRest(known, p.seq)

LoseAll(q, ps) == FoldLeft(Lose, q, ps)

\* What overflowed is only counted: nothing is known of it but its track.
CountOverflow(q, over) ==
  [q EXCEPT !.beyond = @ + over["video"], !.told = [a \in AudioTracks |-> @[a] + over[a]]]

\* give_up_idle_units.
GaveUp(q) ==
  LET idle == {id \in Started(q) : q.units[id].idle /\ q.units[id].packets = <<>>} IN
  FoldLeft(LAMBDA r, id : Excuse(Finish(r, id, Sent), {UnitAt(q.units[id].seq)}), q, SetToSeq(idle))

\* over_budget: the wait of the oldest unit not yet sending.
OverBudget(q) == Waiting(q) # {} /\ q.units[Min(Waiting(q))].late

\* Bug variant of UnstartedVictim: the oldest unit goes.
UnstartedVictimAny(q) == IF DOMAIN q.units = {} THEN {} ELSE {Min(DOMAIN q.units)}
\* unstarted_victim: a waiting stray before the oldest waiting unit.
UnstartedVictim(q) ==
  LET stray == SelectSeq(q.strays, LAMBDA id : id \in Waiting(q)) IN
  IF stray # <<>> THEN {Head(stray)}
  ELSE IF Waiting(q) # {} THEN {Min(Waiting(q))} ELSE {}

\* enforce_budget, its two loops: each turn drops a unit, so there are at most as many turns as units.
WithinBudget(q) ==
  FoldLeft(LAMBDA r, i : IF OverBudget(r) /\ UnstartedVictim(r) # {}
                         THEN DropUnit(r, Min(UnstartedVictim(r))) ELSE r,
           q, SetToSeq(DOMAIN q.units))
WithinCap(q) ==
  FoldLeft(LAMBDA r, i :
             LET victims == IF UnstartedVictim(r) # {} THEN UnstartedVictim(r) ELSE Started(r) IN
             IF r.videoLen > MaxVideo /\ victims # {}
             THEN Excuse(DropUnit(r, Min(victims)), {UnitAt(r.units[Min(victims)].seq)}) ELSE r,
           q, SetToSeq(DOMAIN q.units))
EnforceBudget(q) == WithinCap(WithinBudget(GaveUp(q)))

-----------------------------------------------------------------------------
(* The ingress loop of a sender. *)

\* InboxDrops::record: as many losses as the inbox holds are kept, further ones counted.
RecordLoss(drops, p) ==
  IF Len(drops.list) < Inbox THEN [drops EXCEPT !.list = Append(@, p)]
  ELSE [drops EXCEPT !.over[p.track] = @ + 1]

\* EgressHandle::offer: a full inbox loses the packet.
Offer(p) ==
  IF Len(offered) < Inbox THEN offered' = Append(offered, p) /\ UNCHANGED lost
  ELSE lost' = RecordLoss(lost, p) /\ UNCHANGED offered

\* (history) A start is not known of when another fragment of its unit comes before it, or it
\* overflows.
Unplaced(seq) ==
  \/ UnitAt(seq) \in coming.video \ {seq}
  \/ FirstFragment(seq) /\ Len(offered) >= Inbox /\ Len(lost.list) >= Inbox

SendVideo(seq) ==
  /\ seq \in coming.video
  /\ coming' = [coming EXCEPT !.video = @ \ {seq}]
  /\ early' = IF Unplaced(seq) THEN early \cup {UnitAt(seq)} ELSE early
  /\ Offer(Video(seq))
  /\ UNCHANGED <<batch, step, audio, queueVars, told, sentOut, thrown, excused>>

ResendFirst(seq) ==
  /\ FirstFragment(seq) /\ seq \notin coming.video /\ coming.resends > 0
  /\ coming' = [coming EXCEPT !.resends = @ - 1]
  /\ Offer(Video(seq))
  /\ excused' = excused \cup {UnitAt(seq)}
  /\ UNCHANGED <<early, batch, step, audio, queueVars, told, sentOut, thrown>>

SendAudio(a) ==
  /\ coming.audio[a] > 0
  /\ coming' = [coming EXCEPT !.audio[a] = @ - 1]
  /\ Offer(Audio(a))
  /\ UNCHANGED <<early, batch, step, audio, queueVars, told, sentOut, thrown, excused>>

-----------------------------------------------------------------------------
(* The egress task, a round in four steps. *)

StartsUnit(p) == p.kind = "video" /\ FirstFragment(p.seq)

\* The losses are taken, and lost starts placed before the drain.
TakeLost ==
  /\ step = "top"
  /\ step' = "drain"
  /\ batch' = [lost EXCEPT !.list = SelectSeq(@, LAMBDA p : ~StartsUnit(p))]
  /\ lost' = NoLosses
  /\ SetQueues(LoseAll(Q, SelectSeq(lost.list, StartsUnit)))
  /\ UNCHANGED <<coming, offered, sentOut>>

Drain ==
  /\ step = "drain" /\ offered # <<>>
  /\ offered' = Tail(offered)
  /\ \E q \in Pushed(Q, Head(offered)) : SetQueues(q)
  /\ UNCHANGED <<coming, lost, batch, step, sentOut>>

\* The inbox is empty: the other losses, those that were only counted, and the budget.
Settle ==
  /\ step = "drain" /\ offered = <<>>
  /\ step' \in {"report", "pop"}
  /\ batch' = NoLosses
  /\ SetQueues(EnforceBudget(CountOverflow(LoseAll(Q, batch.list), batch.over)))
  /\ UNCHANGED <<coming, offered, lost, sentOut>>

\* AudioQueues::pop: one packet per track in turn.
PopAudio ==
  /\ step = "pop" /\ audio.turns # <<>>
  /\ LET t == Head(audio.turns) IN
     /\ audio' = [audio EXCEPT !.queue[t] = @ - 1, !.len = @ - 1,
                               !.turns = IF audio.queue[t] > 1 THEN Append(Tail(@), t) ELSE Tail(@)]
     /\ told' = [told EXCEPT ![t] = @ + 1]
  /\ step' = "top"
  /\ UNCHANGED <<coming, early, offered, lost, batch, queueVars, sentOut, thrown, excused>>

\* The unit pop serves: the oldest that holds packets.
NextUnit == IF sending # {} THEN Min(sending) ELSE Min(Waiting(Q))

\* Queues::pop, video.
PopVideo ==
  /\ step = "pop" /\ audio.turns = <<>>
  /\ sending # {} \/ Waiting(Q) # {}
  /\ LET id == NextUnit
         rest == Tail(units[id].packets)
         q == [Q EXCEPT !.strays = IF units[id].started THEN @ ELSE SelectSeq(@, LAMBDA s : s > id),
                        !.units[id].started = TRUE, !.units[id].packets = rest,
                        !.videoLen = @ - 1,
                        !.sending = IF rest # <<>> THEN @ \cup {id} ELSE @ \ {id}] IN
     /\ sentOut' = sentOut \cup {Head(units[id].packets)}
     /\ SetQueues(IF rest = <<>> /\ units[id].complete THEN Finish(q, id, Sent) ELSE q)
  /\ step' = "top"
  /\ UNCHANGED <<coming, offered, lost, batch>>

\* Nothing to send: the next packet is waited for, or the next report.
ReceiveDatagram ==
  /\ step = "pop" /\ audio.turns = <<>> /\ sending = {} /\ Waiting(Q) = {}
  /\ step' = "top"
  /\ \/ /\ offered # <<>>
        /\ offered' = Tail(offered)
        /\ \E q \in Pushed(Q, Head(offered)) : SetQueues(q)
     \/ UNCHANGED <<offered, audio, queueVars, told, thrown, excused, early>>
  /\ UNCHANGED <<coming, lost, batch, sentOut>>

\* forget_quiet_tracks.
Unforgotten == IF active \/ DOMAIN units # {} THEN history ELSE <<>>

TakeStats == counted' = [u \in UnitIds |-> 0] /\ beyond' = 0

\* What the task does every LINK_STATS_INTERVAL.  With no room on the control channel the counts
\* go into the next report.
Report ==
  /\ step = "report"
  /\ step' = "pop"
  /\ active' = FALSE
  /\ history' = Unforgotten
  /\ TakeStats \/ UNCHANGED <<counted, beyond>>
  /\ excused' = IF history' = history THEN excused ELSE excused \cup UnitIds
  /\ early' = IF history' = history THEN early ELSE early \cup UnitIds
  /\ UNCHANGED <<coming, offered, lost, batch, audio, units, sending, strays, copies, nextId, videoLen,
                 told, sentOut, thrown>>

\* VIDEO_BUDGET passes, and UNIT_IDLE.
Later(idle) ==
  /\ units' = [id \in DOMAIN units |-> [units[id] EXCEPT !.late = TRUE, !.idle = @ \/ idle]]
  /\ UNCHANGED <<coming, early, offered, lost, batch, step, audio, sending, strays, copies, nextId, videoLen,
                 history, active, counted, beyond, told, sentOut, thrown, excused>>

TaskStep == TakeLost \/ Drain \/ Settle \/ Report \/ PopAudio \/ PopVideo \/ ReceiveDatagram

EgressNext ==
  \/ \E seq \in EgressSeqs : SendVideo(seq) \/ ResendFirst(seq)
  \/ \E a \in AudioTracks : SendAudio(a)
  \/ TaskStep
  \/ \E idle \in BOOLEAN : Later(idle)

-----------------------------------------------------------------------------
(* Properties. *)

\* The queues' indexes agree with the units they index: a unit missing from sending would stay
\* for good, one left in copies would swallow a later drop, a wrong total would drop sound units.
BooksAgree ==
  /\ sending = {id \in Started(Q) : units[id].packets # <<>>}
  /\ \A u \in UnitIds : copies[u] = {id \in DOMAIN units : ~units[id].stray /\ units[id].seq = u}
  /\ {id \in Waiting(Q) : units[id].stray} \subseteq Range(strays)
  /\ videoLen = MapThenSumSet(LAMBDA id : Len(units[id].packets), DOMAIN units)
  /\ \A a, b \in DOMAIN units : units[a].started /\ ~units[b].started => a < b
  /\ \A id \in Waiting(Q) : units[id].packets # <<>>

\* The turns are those of the tracks with packets, each once: otherwise a track is never heard
\* again, or video goes out while audio waits.
TurnsAgree ==
  /\ Range(audio.turns) = {a \in AudioTracks : audio.queue[a] > 0}
  /\ Len(audio.turns) = Cardinality(Range(audio.turns))
  /\ audio.len = MapThenSumSet(LAMBDA a : audio.queue[a], AudioTracks)

\* "a track that floods only ever loses its own packets": a track that keeps to its share of the
\* queues loses none of them to the others.
FloodLosesOwn ==
  [][\A a \in AudioTracks :
       /\ audio'.queue[a] < audio.queue[a] /\ step # "pop"
       => audio.queue[a] * Cardinality(AudioTracks) >= MaxAudio]_egressVars

\* Every packet of an audio track is on its way, queued, or counted once as forwarded or as
\* dropped, whichever of the full inbox, the full list of losses and the full queues it met.
AudioAccounted ==
  LET Of(ps, a) == Len(SelectSeq(ps, LAMBDA p : p.track = a)) IN
  \A a \in AudioTracks :
    coming.total[a] = coming.audio[a] + Of(offered, a) + Of(lost.list, a) + lost.over[a]
                      + Of(batch.list, a) + batch.over[a] + audio.queue[a] + told[a]

\* "video goes in whole access units": of a unit whose fragments arrived, none resent or
\* overtaken by a later start, either nothing is sent or nothing is thrown away, unless it
\* turned out to exceed the limit of a unit, or the queues theirs, once it was being sent.
WholeUnits ==
  \A u \in UnitIds \ excused :
    ~ \E s \in sentOut, t \in thrown : UnitAt(s) = u /\ UnitAt(t) = u

\* "the unit counts as dropped once", in each report, unless its start was overtaken, was
\* never known of or has been forgotten.  Losses past the list are counted apart, one unit
\* per packet (beyond).
DroppedOnce == \A u \in UnitIds \ early : counted[u] <= 1

\* The queues of a receiver do what they promise at every limit (egress.rs).
QueuesKept == [](BooksAgree /\ TurnsAgree /\ AudioAccounted /\ WholeUnits /\ DroppedOnce) /\ FloodLosesOwn

=============================================================================
