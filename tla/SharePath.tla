----------------------------- MODULE SharePath -----------------------------
(***************************************************************************)
(* A share's pictures and the way back: the share thread encodes frames    *)
(* and queues them, send_loop drops the stale ones, the link loses some,   *)
(* and a viewer whose decoder misses a reference frame asks for recovery,  *)
(* which travels over the control link and the hub to the share thread's   *)
(* pacer and the encoder (client-core media/share.rs, media/engine.rs,     *)
(* media/video/encode.rs, media/video/decode.rs, session.rs).              *)
(*                                                                         *)
(* The link and the track's task are taken at their promise, which module  *)
(* Track checks: units come whole and in order, and one that is missing    *)
(* makes the listener ask for a refresh when a later one comes. The        *)
(* encoder is not NVENC's intra refresh: a refresh is an IDR.              *)
(*                                                                         *)
(* A unit is [key, cut, gap]: a keyframe needs no earlier unit; cut says   *)
(* that the unit before it, which any other unit needs, was dropped; gap   *)
(* that one with a seq was, which the listener can see.                    *)
(***************************************************************************)
EXTENDS Integers, Sequences, SequencesExt

CONSTANTS
    QueueSize,   \* SEND_QUEUE
    LinkSize,    \* bound: units on the link and in the track at once
    MaxFaults    \* bound: units lost, stale drops and encoder errors

Kinds == {"Refresh", "Idr"}

VARIABLES
    recover,     \* recoveries sent to the share thread (its channel)
    wanted,      \* RecoveryPacer::wanted
    spaced,      \* the last recovery is less than RECOVERY_SPACING ago
    idrNext,     \* Encoder::idr_next
    queue,       \* the engine's video queue: units and whether they are stale
    cutNext,     \* the newest unit did not make it into the queue
    link,        \* units sealed and on their way
    lostLast,    \* what the newest unit on the link will be missing
    recovery,    \* the engine tells the session that it dropped a unit
    requests,    \* RequestKeyframe on its way to the hub, or kept there
    sound,       \* the viewer's decoder has every reference it needs
    asked,       \* receive: ask_idr was called since a unit last decoded
    faults,      \* faults left
    wasted       \* an IDR was taken for a frame the encoder then refused

pathVars == <<recover, wanted, spaced, idrNext, queue, cutNext, link, lostLast,
              recovery, requests, sound, asked, faults, wasted>>

senderVars == <<recover, wanted, spaced, idrNext, queue, cutNext, recovery, wasted>>
viewerVars == <<requests, sound, asked>>
linkVars == <<link, lostLast>>

\* The viewer starts to watch: the hub asks for an IDR on its behalf.
PathInit ==
    /\ recover = {} /\ wanted = "None" /\ spaced = FALSE /\ idrNext = TRUE
    /\ queue = <<>> /\ cutNext = FALSE
    /\ link = <<>> /\ lostLast = "None"
    /\ recovery = FALSE
    /\ requests = {"Idr"} /\ sound = FALSE /\ asked = FALSE
    /\ faults = MaxFaults /\ wasted = FALSE

-----------------------------------------------------------------------------
(* The share thread.                                                       *)

Strongest(kinds) == IF "Idr" \in kinds THEN "Idr" ELSE IF kinds = {} THEN "None" ELSE "Refresh"

\* Mutant: what waits for the spacing to end is replaced by what comes.
AskAnew(kind, kinds) == Strongest(kinds)

\* RecoveryPacer::ask, for all that is in the channel.
Ask(kind, kinds) == Strongest(kinds \cup ({kind} \ {"None"}))

\* RecoveryPacer::due.
DueRecovery == IF spaced THEN "None" ELSE Ask(wanted, recover)

\* MediaEngine::send: a full queue drops the unit and counts it.
QueuedUnit(key) ==
    IF Len(queue) < QueueSize
    THEN /\ queue' = Append(queue, [key |-> key, cut |-> cutNext, stale |-> FALSE])
         /\ cutNext' = FALSE
    ELSE cutNext' = TRUE /\ UNCHANGED queue

\* One turn of Sending::run: recoveries, then the next frame if there is one.
\* The encoder makes a keyframe when one is asked for, and by itself once per
\* GOP. The frame limiter keeps frames far enough apart that a full queue
\* begins with a stale unit.
Turn ==
    LET due == DueRecovery
        forced == idrNext \/ due # "None"
    IN /\ recover' = {}
       /\ wanted' = IF due # "None" THEN "None" ELSE Ask(wanted, recover)
       /\ spaced' = (spaced \/ due # "None")
       /\ \/ idrNext' = forced /\ UNCHANGED <<queue, cutNext, wasted, faults>>
          \/ /\ Len(queue) = QueueSize => queue[1].stale
             /\ idrNext' = FALSE
             /\ \E key \in BOOLEAN :
                 (forced => key) /\ wasted' = (wasted /\ ~key) /\ QueuedUnit(key)
             /\ UNCHANGED faults
          \/ /\ faults > 0 /\ faults' = faults - 1
             /\ idrNext' = FALSE /\ wasted' = (wasted \/ forced)
             /\ UNCHANGED <<queue, cutNext>>
       /\ UNCHANGED <<recovery>>
       /\ UNCHANGED linkVars /\ UNCHANGED viewerVars

SpacingEnds ==
    /\ spaced /\ spaced' = FALSE
    /\ UNCHANGED <<recover, wanted, idrNext, queue, cutNext, recovery, faults, wasted>>
    /\ UNCHANGED linkVars /\ UNCHANGED viewerVars

-----------------------------------------------------------------------------
(* send_loop and the link.                                                 *)

\* The oldest unit waits past SEND_BUDGET.
GoesStale ==
    /\ faults > 0 /\ faults' = faults - 1
    /\ queue # <<>> /\ ~queue[1].stale
    /\ queue' = [queue EXCEPT ![1].stale = TRUE]
    /\ UNCHANGED <<recover, wanted, spaced, idrNext, cutNext, recovery, wasted>>
    /\ UNCHANGED linkVars /\ UNCHANGED viewerVars

\* What follows a dropped unit lacks its reference.
CutAfter(units) == IF units = <<>> THEN units ELSE [units EXCEPT ![1].cut = TRUE]

\* Mutant: a stale unit goes without a word to the encoder.
DropStaleQuietly ==
    /\ queue # <<>> /\ queue[1].stale
    /\ queue' = CutAfter(Tail(queue))
    /\ cutNext' = (cutNext \/ Len(queue) = 1)
    /\ UNCHANGED <<recover, wanted, spaced, idrNext, recovery, faults, wasted>>
    /\ UNCHANGED linkVars /\ UNCHANGED viewerVars

\* A stale unit is dropped before it gets a seq, and the encoder told.
DropStale ==
    /\ queue # <<>> /\ queue[1].stale
    /\ queue' = CutAfter(Tail(queue))
    /\ cutNext' = (cutNext \/ Len(queue) = 1)
    /\ recovery' = TRUE
    /\ UNCHANGED <<recover, wanted, spaced, idrNext, faults, wasted>>
    /\ UNCHANGED linkVars /\ UNCHANGED viewerVars

Seal ==
    /\ queue # <<>> /\ ~queue[1].stale /\ Len(link) < LinkSize
    /\ queue' = Tail(queue)
    /\ link' = Append(link, [key |-> queue[1].key, cut |-> queue[1].cut \/ lostLast # "None",
                             gap |-> lostLast # "None"])
    /\ lostLast' = "None"
    /\ UNCHANGED <<recover, wanted, spaced, idrNext, cutNext, recovery, faults, wasted>>
    /\ UNCHANGED viewerVars

\* The session passes a dropped unit on as an IDR (session.rs:532).
RecoverDropped ==
    /\ recovery /\ recovery' = FALSE
    /\ recover' = recover \cup {"Idr"}
    /\ UNCHANGED <<wanted, spaced, idrNext, queue, cutNext, faults, wasted>>
    /\ UNCHANGED linkVars /\ UNCHANGED viewerVars

LoseUnit ==
    /\ faults > 0 /\ faults' = faults - 1
    /\ link # <<>>
    /\ link' = IF Len(link) = 1 THEN <<>> ELSE [Tail(link) EXCEPT ![1].cut = TRUE, ![1].gap = TRUE]
    /\ lostLast' = IF Len(link) = 1 THEN "Lost" ELSE lostLast
    /\ UNCHANGED senderVars /\ UNCHANGED viewerVars

-----------------------------------------------------------------------------
(* The viewer and the way back.                                            *)

\* What the decoder makes of a unit: with its references it decodes; without
\* them it fails, or shows what it can and reports nothing.
Outcomes(unit) == IF unit.key \/ (sound /\ ~unit.cut) THEN {"decodes"} ELSE {"fails", "shows"}

\* ask_idr is called once, and again only after a unit has decoded.
AskIdr == IF asked THEN {} ELSE {"Idr"}

Receive ==
    /\ link # <<>>
    /\ link' = Tail(link)
    /\ \E outcome \in Outcomes(link[1]) :
        /\ sound' = (outcome = "decodes")
        /\ asked' = (outcome = "fails")
        /\ requests' = requests \cup (IF link[1].gap THEN {"Refresh"} ELSE {})
                                \cup (IF outcome = "fails" THEN AskIdr ELSE {})
    /\ UNCHANGED <<lostLast, faults>> /\ UNCHANGED senderVars

\* The hub passes on the strongest request it has (module Hub has its pacing).
Forward ==
    /\ requests # {}
    /\ recover' = recover \cup {Strongest(requests)}
    /\ requests' = {}
    /\ UNCHANGED <<sound, asked, wanted, spaced, idrNext, queue, cutNext, recovery, faults, wasted>>
    /\ UNCHANGED linkVars

PathNext ==
    \/ Turn \/ SpacingEnds \/ GoesStale \/ DropStale \/ Seal
    \/ RecoverDropped \/ LoseUnit \/ Receive \/ Forward

\* The share thread turns and its capture delivers, the send loop, the
\* session, the hub and the viewer's threads run, and time passes.
EncodesFrame == Turn /\ queue' # queue
PathFairness ==
    /\ WF_pathVars(EncodesFrame) /\ WF_pathVars(SpacingEnds) /\ WF_pathVars(DropStale)
    /\ WF_pathVars(Seal) /\ WF_pathVars(RecoverDropped) /\ WF_pathVars(Receive) /\ WF_pathVars(Forward)

PathSpec == PathInit /\ [][PathNext]_pathVars /\ PathFairness

-----------------------------------------------------------------------------
(* Properties.                                                             *)

\* A viewer whose picture is broken does not wait for the next GOP: the
\* keyframe that repairs it, or a request that leads to one, is on its way.
\* The one gap is an IDR taken for a frame that the encoder then refuses
\* (Encoder::submit takes idr_next first).
RepairOnItsWay ==
    ~sound =>
        \/ requests # {} \/ recovery \/ recover # {} \/ wanted # "None" \/ idrNext
        \/ \E i \in DOMAIN queue : queue[i].key \/ queue[i].stale
        \/ \E i \in DOMAIN link : link[i].key \/ link[i].gap
        \/ lostLast = "Lost"
        \/ wasted

\* A broken picture is repaired once the faults are over.
PictureRepaired == (~sound /\ ~wasted) ~> (sound \/ wasted)
=============================================================================
