------------------------------- MODULE Track -------------------------------
(***************************************************************************)
(* How one client's track reaches one of its listeners: send_loop and      *)
(* Sealer number and seal the fragments of whole units, the network loses, *)
(* repeats and reorders datagrams, receive_loop sorts them into the        *)
(* track's inbox, and Track decrypts, reassembles and reorders them        *)
(* (client-core media/engine.rs, fragment.rs, reorder.rs).                 *)
(*                                                                         *)
(* A track's task works through one datagram or one tick at a time and     *)
(* owns everything but the sinks and the keys, which it locks: its state   *)
(* is the record t and each &mut self method an operator on that record.   *)
(* Time is counted in steps: a wait is a number of them.                   *)
(***************************************************************************)
EXTENDS Integers, FiniteSets, FiniteSetsExt, SequencesExt

CONSTANTS
    Shows,        \* what is sent: [kind, units, repeats], units a sequence of
                  \* [size, keyframe, epoch], repeats a bound on datagrams the
                  \* server forwards twice
    MaxFragments, \* the track's limit on a unit, in fragments
    MaxBuffered,  \* fragments the reassembler buffers
    MaxWaiting,   \* units the reorder stage holds behind a gap
    MaxPending,   \* datagrams kept for a key
    InboxSize, OutSize,   \* the track's inbox and its consumer's channel
    Window,       \* WINDOW_BITS
    Stragglers,   \* AUDIO_STRAGGLER_SEQS
    KeyWait, ReorderWait, \* PENDING_KEY_WAIT and REORDER_WINDOW, in steps
    MaxTime       \* bound: steps of time

None == -1

VARIABLES
    show,         \* what is sent in this behaviour
    sealed,       \* units numbered and put on the wire so far
    air,          \* copies of each datagram still on their way
    keys,         \* epochs whose sender key the listener holds
    generation,   \* KeyManager::generation
    inbox,        \* datagrams (by seq) the track has not looked at
    t,            \* the track's task
    time,         \* steps of time left in this behaviour
    repeats       \* datagrams that may still come twice

trackVars == <<show, sealed, air, keys, generation, inbox, t, time, repeats>>

-----------------------------------------------------------------------------
(* What is sent.                                                           *)

Units == 1 .. Len(show.units)

\* The seq of each unit's first fragment: seq never resets within a track.
FirstSeq(u) == FoldLeft(LAMBDA n, x : n + x.size, 0, SubSeq(show.units, 1, u - 1))

LastSeq(u) == FirstSeq(u) + show.units[u].size - 1

UnitOf(s) == CHOOSE u \in Units : s \in FirstSeq(u) .. LastSeq(u)

Seqs == 0 .. LastSeq(Len(show.units))

\* fragment: FIRST on a unit's first fragment, LAST on its last.
IsFirst(s) == s = FirstSeq(UnitOf(s))

IsLast(s) == s = LastSeq(UnitOf(s))

-----------------------------------------------------------------------------
(* ReplayWindow.                                                           *)

Peek(w, s) ==
    CASE s > w.highest -> "New"
      [] w.highest - s >= Window -> "TooOld"
      [] s \in w.seen -> "Duplicate"
      [] OTHER -> "New"

\* Mutant: a new highest seq moves the window without being marked.
RecordUnmarked(w, s) ==
    LET top == Max({w.highest, s})
        marked == IF s > w.highest THEN w.seen ELSE w.seen \cup {s}
    IN [highest |-> top, seen |-> {x \in marked : top - x < Window}]

Record(w, s) ==
    LET top == Max({w.highest, s}) IN
    [highest |-> top, seen |-> {x \in w.seen \cup {s} : top - x < Window}]

-----------------------------------------------------------------------------
(* Reassembler: the buffered seqs and three indexes on them.               *)

EmptyReassembler == [fragments |-> {}, firsts |-> {}, lasts |-> {}, spans |-> {}]

SpanOf(r, s) == {x \in r.spans : x[1] <= s /\ s <= x[2]}

JoinSpans(r, s) ==
    LET before == SpanOf(r, s - 1)
        after == {x \in r.spans : x[1] = s + 1}
        lo == IF before = {} THEN s ELSE (CHOOSE x \in before : TRUE)[1]
        hi == IF after = {} THEN s ELSE (CHOOSE x \in after : TRUE)[2]
    IN (r.spans \ (before \cup after)) \cup {<<lo, hi>>}

Insert(r, s) ==
    [fragments |-> r.fragments \cup {s},
     firsts |-> IF IsFirst(s) THEN r.firsts \cup {s} ELSE r.firsts \ {s},
     lasts |-> IF IsLast(s) THEN r.lasts \cup {s} ELSE r.lasts \ {s},
     spans |-> IF s \in r.fragments THEN r.spans ELSE JoinSpans(r, s)]

\* Takes first..last, which lie in one span, out of the spans and the flag
\* sets.
Unlink(r, first, last) ==
    LET held == SpanOf(r, first)
        cut(x) == {<<lo, hi>> \in {<<x[1], first - 1>>, <<last + 1, x[2]>>} : lo <= hi}
    IN [r EXCEPT !.spans = (@ \ held) \cup UNION {cut(x) : x \in held},
                 !.firsts = @ \ (first .. last),
                 !.lasts = @ \ (first .. last)]

\* The oldest run goes, and with it what the indexes knew of it: drop_run and
\* take_unit.
DropRun(r, first, last) ==
    [Unlink(r, first, last) EXCEPT !.fragments = @ \ (first .. last)]

\* A run behind its last LAST that is too long to be the start of a unit.
DropUnfinishable(r, lo, hi) ==
    LET ended == {x \in r.lasts : lo <= x /\ x <= hi}
        afterLast == IF ended = {} THEN lo ELSE Max(ended) + 1
    IN IF hi - afterLast >= MaxFragments - 1
       THEN DropRun(r, afterLast, hi - (MaxFragments - 1))
       ELSE r

\* A full buffer gives up its oldest fragment for another.
MakeRoom(r, s) ==
    IF Cardinality(r.fragments) >= MaxBuffered /\ s \notin r.fragments /\ r.fragments # {}
    THEN DropRun(r, Min(r.fragments), Min(r.fragments))
    ELSE r

Without(r, first, last) == [r |-> DropRun(r, first, last), unit |-> <<>>]

\* The unit that ends with last, or the run no unit can come of.
TakeUnit(r, last, lo, firsts) ==
    CASE firsts # {} /\ last - Max(firsts) < MaxFragments ->
            [Without(r, Max(firsts), last) EXCEPT !.unit = <<Max(firsts), last>>]
      [] firsts # {} /\ last - Max(firsts) >= MaxFragments -> Without(r, Max(firsts), last)
      [] firsts = {} /\ last - lo >= MaxFragments - 1 -> Without(r, lo, last)
      [] OTHER -> [r |-> r, unit |-> <<>>]

\* What fragment s, which is buffered, completes in its span.
Complete(r, s, span, lasts) ==
    IF lasts = {} THEN [r |-> DropUnfinishable(r, span[1], span[2]), unit |-> <<>>]
    ELSE TakeUnit(r, Min(lasts), span[1], {x \in r.firsts : span[1] <= x /\ x <= s})

InSpan(r, s, span) == Complete(r, s, span, {x \in r.lasts : s <= x /\ x <= span[2]})

Inserted(r, s) == InSpan(r, s, CHOOSE x \in SpanOf(r, s) : TRUE)

\* Reassembler::push: what it holds afterwards, and the unit it completes.
Push(r, s) == Inserted(Insert(MakeRoom(r, s), s), s)

\* Mutant: the span that reaches over the cut is kept whole.
ForgetBeforeSpans(r, s) ==
    [fragments |-> {x \in r.fragments : x >= s},
     firsts |-> {x \in r.firsts : x >= s},
     lasts |-> {x \in r.lasts : x >= s},
     spans |-> {x \in r.spans : x[2] >= s}]

\* Fragments that can no longer complete in order.
ForgetBefore(r, s) ==
    [fragments |-> {x \in r.fragments : x >= s},
     firsts |-> {x \in r.firsts : x >= s},
     lasts |-> {x \in r.lasts : x >= s},
     spans |-> {x \in r.spans : x[1] >= s}
               \cup {<<s, x[2]>> : x \in {y \in SpanOf(r, s) : y[1] < s}}]

-----------------------------------------------------------------------------
(* Reorder: its outputs are Unit, Abandoned and Late.                      *)

EmptyReorder == [next |-> None, waiting |-> {}, gap |-> None]

\* Emits what is in order, and abandons a gap whose wait has run out. A gap
\* noticed now waits from now.
Poll(o) ==
    LET step(p, u) ==
            LET next == IF p.o.next = None THEN u[1] ELSE p.o.next
                gap == IF p.o.gap = None THEN 0 ELSE p.o.gap
            IN IF p.stopped THEN p
               ELSE IF u[1] > next /\ gap < ReorderWait
               THEN [p EXCEPT !.stopped = TRUE, !.o.gap = gap]
               ELSE [stopped |-> FALSE,
                     o |-> [next |-> u[2] + 1, waiting |-> p.o.waiting \ {u}, gap |-> None],
                     outputs |-> p.outputs \o (IF u[1] > next THEN <<[is |-> "Abandoned"]>> ELSE <<>>)
                                           \o <<[is |-> "Unit", unit |-> u]>>]
    IN FoldLeft(step, [o |-> o, outputs |-> <<>>, stopped |-> FALSE],
                SetToSortSeq(o.waiting, LAMBDA a, b : a[1] < b[1]))

Arrive(o, u) ==
    LET oldest == {x \in o.waiting : \A y \in o.waiting : x[1] <= y[1]}
        kept == IF Cardinality(o.waiting) >= MaxWaiting THEN o.waiting \ oldest ELSE o.waiting
        next == IF o.next = None THEN u[1] ELSE o.next
    IN IF o.next # None /\ u[2] < o.next
       THEN [o |-> o, outputs |-> <<[is |-> "Late"]>>]
       ELSE Poll([o EXCEPT !.next = next, !.waiting = kept \cup {u}])

-----------------------------------------------------------------------------
(* The track's task.                                                       *)

\* The track's log: the numbers of the units passed on, and Refresh where it
\* asked the sender for recovery.
Refresh == 0

\* Mutant: a unit the full channel drops is only counted.
DeliverQuietly(k, u) ==
    IF k.out < OutSize
    THEN [k EXCEPT !.out = @ + 1, !.overflowed = FALSE, !.log = Append(@, UnitOf(u[1]))]
    ELSE [k EXCEPT !.overflowed = TRUE]

\* Passes a unit on; the first one a full channel drops asks for a refresh.
Deliver(k, u) ==
    IF k.out < OutSize
    THEN [k EXCEPT !.out = @ + 1, !.overflowed = FALSE, !.log = Append(@, UnitOf(u[1]))]
    ELSE [k EXCEPT !.overflowed = TRUE,
                   !.log = IF show.kind = "video" /\ ~k.overflowed THEN Append(@, Refresh) ELSE @]

Emit(k, outputs) ==
    LET one(a, x) ==
            CASE x.is = "Abandoned" -> [a EXCEPT !.log = Append(@, Refresh)]
              [] x.is = "Late" -> a
              [] x.is = "Unit" -> Deliver([a EXCEPT !.r = ForgetBefore(@, x.unit[1])], x.unit)
    IN FoldLeft(one, k, outputs)

\* Mutant: the tick is left to whatever is pending already.
HoldQuietly(k, d) ==
    IF Len(k.pending) < MaxPending THEN [k EXCEPT !.pending = Append(@, d)] ELSE k

\* Keeps a datagram no key opens yet, for a while.
Hold(k, d) ==
    IF Len(k.pending) < MaxPending
    THEN [k EXCEPT !.pending = Append(@, d), !.tick = IF @ = None THEN 1 ELSE @]
    ELSE k

\* The unit a push completed goes on: audio at once, video through the reorder stage.
PassOn(k, unit) ==
    IF show.kind = "audio"
    THEN Deliver([k EXCEPT !.r = ForgetBefore(@, Max({0, unit[1] - Stragglers}))], unit)
    ELSE LET arrived == Arrive(k.o, unit) IN Emit([k EXCEPT !.o = arrived.o], arrived.outputs)

AfterPush(k, push) ==
    IF push.unit = <<>> THEN [k EXCEPT !.r = push.r]
    ELSE PassOn([k EXCEPT !.r = push.r], push.unit)

\* Decrypts, records and reassembles datagram d = [seq, age].
Handle(k, d) ==
    IF show.units[UnitOf(d.seq)].epoch \notin keys THEN Hold(k, d)
    ELSE IF Peek(k.window, d.seq) # "New" THEN k
    ELSE AfterPush([k EXCEPT !.window = Record(@, d.seq)], Push(k.r, d.seq))

\* Tries the pending datagrams again, oldest first, if keys changed.
RetryPending(k) ==
    IF k.pending = <<>> \/ generation = k.tried THEN k
    ELSE FoldLeft(Handle, [k EXCEPT !.tried = generation, !.pending = <<>>], k.pending)

-----------------------------------------------------------------------------

TrackInit ==
    /\ show \in Shows
    /\ sealed = 0
    /\ air = [s \in Seqs |-> 0]
    /\ keys = {show.units[1].epoch}
    /\ generation = 1
    /\ inbox = <<>>
    /\ t = [window |-> [highest |-> None, seen |-> {}], pending |-> <<>>, tick |-> None,
            tried |-> 0, r |-> EmptyReassembler, o |-> EmptyReorder,
            out |-> 0, overflowed |-> FALSE, log |-> <<>>]
    /\ time = MaxTime
    /\ repeats = show.repeats

Copies(u) == IF show.units[u].keyframe THEN 1 .. 2 ELSE {1}

\* send_loop: seals the next unit; a keyframe goes out a second time unless
\* that would delay a newer frame.
SendUnit ==
    /\ sealed < Len(show.units)
    /\ sealed' = sealed + 1
    /\ \E n \in Copies(sealed') :
        air' = [s \in Seqs |-> IF UnitOf(s) = sealed' THEN n ELSE air[s]]
    /\ UNCHANGED <<show, keys, generation, inbox, t, time, repeats>>

\* The server forwards a datagram once more; one that stays in the air is lost.
Repeat(s) ==
    /\ repeats > 0 /\ UnitOf(s) <= sealed /\ air[s] < 2
    /\ repeats' = repeats - 1
    /\ air' = [air EXCEPT ![s] = @ + 1]
    /\ UNCHANGED <<show, sealed, keys, generation, inbox, t, time>>

\* receive_loop: a datagram arrives, in any order; one the window knows, or
\* that finds the inbox full, goes no further.
Datagram(s) ==
    /\ air[s] > 0
    /\ air' = [air EXCEPT ![s] = @ - 1]
    /\ inbox' = IF Peek(t.window, s) = "New" /\ Len(inbox) < InboxSize THEN Append(inbox, s) ELSE inbox
    /\ UNCHANGED <<show, sealed, keys, generation, t, time, repeats>>

Receive ==
    /\ inbox # <<>>
    /\ inbox' = Tail(inbox)
    /\ t' = Handle(RetryPending(t), [seq |-> Head(inbox), age |-> 0])
    /\ UNCHANGED <<show, sealed, air, keys, generation, time, repeats>>

\* SenderKeyPublished reaches the key manager, on the control task.
KeyArrives(e) ==
    /\ e \notin keys
    /\ keys' = keys \cup {e}
    /\ generation' = generation + 1
    /\ UNCHANGED <<show, sealed, air, inbox, t, time, repeats>>

Due == t.tick = 0 \/ (t.o.gap # None /\ t.o.gap >= ReorderWait)

\* Expires pending datagrams, retries the rest and polls the reorder stage.
Tick ==
    /\ Due
    /\ LET kept == SelectSeq(t.pending, LAMBDA d : d.age < KeyWait)
           retried == RetryPending([t EXCEPT !.pending = kept])
           polled == Poll(retried.o)
           ticking == [retried EXCEPT !.o = polled.o, !.tick = IF retried.pending = <<>> THEN None ELSE 1]
       IN t' = Emit(ticking, polled.outputs)
    /\ UNCHANGED <<show, sealed, air, keys, generation, inbox, time, repeats>>

\* Time passes, but not past a wake-up the task has not served.
Wait ==
    /\ time > 0 /\ ~Due
    /\ time' = time - 1
    /\ t' = [t EXCEPT !.tick = IF @ = None THEN None ELSE @ - 1,
                      !.o.gap = IF @ = None THEN None ELSE @ + 1,
                      !.pending = [i \in DOMAIN @ |-> [@[i] EXCEPT !.age = @ + 1]]]
    /\ UNCHANGED <<show, sealed, air, keys, generation, inbox, repeats>>

\* The consumer takes a unit.
Consume ==
    /\ t.out > 0
    /\ t' = [t EXCEPT !.out = @ - 1]
    /\ UNCHANGED <<show, sealed, air, keys, generation, inbox, time, repeats>>

TrackNext ==
    \/ SendUnit
    \/ \E s \in Seqs : Repeat(s) \/ Datagram(s)
    \/ Receive
    \/ \E e \in {show.units[u].epoch : u \in Units} : KeyArrives(e)
    \/ Tick
    \/ Wait
    \/ Consume

TrackSpec == TrackInit /\ [][TrackNext]_trackVars

-----------------------------------------------------------------------------
(* Properties.                                                             *)

\* The reassembler's three indexes say of the buffered fragments exactly what
\* a rescan of them would: firsts and lasts by flag, spans as the maximal runs
\* of consecutive seqs (the point of fragment.rs's O(log n) push).
IndexesAgree ==
    LET held == t.r.fragments
        runs == {<<a, b>> \in held \X held :
                    /\ a <= b /\ a .. b \subseteq held
                    /\ a - 1 \notin held /\ b + 1 \notin held}
    IN /\ t.r.firsts = {s \in held : IsFirst(s)}
       /\ t.r.lasts = {s \in held : IsLast(s)}
       /\ t.r.spans = runs

UnitsIn(log) == SelectSeq(log, LAMBDA x : x # Refresh)

\* The consumer gets whole units, none twice however often its datagrams came
\* (replay window, keyframe copies, retries after a key), and video units in
\* the order they were sent.
EachOnce ==
    LET got == UnitsIn(t.log) IN
    /\ \A i, j \in DOMAIN got : i < j =>
          IF show.kind = "video" THEN got[i] < got[j] ELSE got[i] # got[j]
    /\ \A i \in DOMAIN got : show.units[got[i]].size <= MaxFragments

\* A video unit skipped before one that is delivered has been reported: a
\* refresh was asked for since the unit before it, whether the network lost
\* it, a key came too late, it was too long, or a buffer or channel was full.
SkipsAsked ==
    show.kind = "video" =>
        \A j \in DOMAIN t.log : \A i \in 1 .. j - 1 :
            /\ t.log[i] # Refresh /\ t.log[j] # Refresh /\ t.log[i] + 1 < t.log[j]
            /\ \A m \in i + 1 .. j - 1 : t.log[m] = Refresh
            => i + 1 < j

\* The task never sleeps on something it holds: units behind a gap have a
\* deadline, datagrams waiting for a key a tick, and a datagram a held key
\* opens is due a retry.
NothingStuck ==
    /\ t.o.waiting # {} => t.o.gap # None
    /\ t.pending # <<>> => t.tick # None
    /\ \A i \in DOMAIN t.pending :
          show.units[UnitOf(t.pending[i].seq)].epoch \in keys => t.tried # generation

\* A listener gets what was sent, whole, once and in order, or knows what is missing, whatever
\* the network and the keys do (engine.rs Track, fragment.rs, reorder.rs).
UnitsDelivered == IndexesAgree /\ EachOnce /\ SkipsAsked /\ NothingStuck

=============================================================================
