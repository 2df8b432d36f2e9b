------------------------------- MODULE MCMedia -------------------------------
(***************************************************************************)
(* Instances of the media path for TLC: one track from sender to listener, *)
(* the audio thread, and the egress of the server to one receiver. They    *)
(* share no state here, so a behaviour runs one of them and leaves the     *)
(* others as they began.                                                   *)
(***************************************************************************)
EXTENDS Track, Voice, Egress

CONSTANTS a1, a2

VARIABLE part    \* the machine that runs

U(n, k, e) == [size |-> n, keyframe |-> k, epoch |-> e]
TheShows ==
    {[kind |-> "video", repeats |-> 0,
      units |-> <<U(2, TRUE, 1), U(1, FALSE, 1), U(2, FALSE, 2)>>],
     [kind |-> "video", repeats |-> 0,
      units |-> <<U(1, FALSE, 1), U(3, FALSE, 1), U(1, FALSE, 1), U(1, FALSE, 1)>>],
     [kind |-> "audio", repeats |-> 1,
      units |-> <<U(2, FALSE, 1), U(1, FALSE, 1), U(1, FALSE, 2)>>]}

\* A video track alone, of units of two fragments with a start resent, or with a unit that
\* exceeds the limit; and audio alone, one track flooding the other.
VideoLoad(starts, resends) ==
    [video |-> EgressSeqs, starts |-> starts, resends |-> resends,
     audio |-> [a \in AudioTracks |-> 0], total |-> [a \in AudioTracks |-> 0]]
AudioLoad(total) == [video |-> {}, starts |-> {0}, resends |-> 0, audio |-> total, total |-> total]
TheLoads ==
    {VideoLoad({0, 2}, 1), VideoLoad({0, 3}, 0),
     AudioLoad([a \in AudioTracks |-> IF a = a1 THEN 5 ELSE 2])}

vars == <<part, trackVars, voiceVars, egressVars>>

Init ==
    /\ part \in {"track", "voice", "egress"}
    /\ TrackInit /\ VoiceInit /\ EgressInit
    /\ part # "track" => show = CHOOSE s \in Shows : TRUE
    /\ part # "voice" => talk.mode = "ptt"
    /\ part # "egress" => coming = CHOOSE l \in Loads : TRUE

Next ==
    /\ UNCHANGED part
    /\ \/ part = "track" /\ TrackNext /\ UNCHANGED <<voiceVars, egressVars>>
       \/ part = "voice" /\ VoiceNext /\ UNCHANGED <<trackVars, egressVars>>
       \/ part = "egress" /\ EgressNext /\ UNCHANGED <<trackVars, voiceVars>>

Spec == Init /\ [][Next]_vars
=============================================================================
