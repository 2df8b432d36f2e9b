------------------------------ MODULE MCShare ------------------------------
(***************************************************************************)
(* A share on its way, for TLC: the repair of its picture from the sharer  *)
(* to a viewer, and how the viewer hears it and holds pictures back. The   *)
(* two share no state, so a behaviour runs one of them.                    *)
(***************************************************************************)
EXTENDS SharePath, Playout

VARIABLE part    \* the machine that runs

vars == <<part, pathVars, playoutVars>>

Init == part \in {"path", "playout"} /\ PathInit /\ PlayoutInit

Next ==
    /\ UNCHANGED part
    /\ \/ part = "path" /\ PathNext /\ UNCHANGED playoutVars
       \/ part = "playout" /\ PlayoutNext /\ UNCHANGED pathVars

\* The fairness of SharePath and Playout, each where its machine runs.
OnPath(A) == part = "path" /\ A
OnPlayout(A) == part = "playout" /\ A

Spec ==
    /\ Init /\ [][Next]_vars
    /\ WF_pathVars(OnPath(EncodesFrame)) /\ WF_pathVars(OnPath(SpacingEnds))
    /\ WF_pathVars(OnPath(DropStale)) /\ WF_pathVars(OnPath(Seal))
    /\ WF_pathVars(OnPath(RecoverDropped)) /\ WF_pathVars(OnPath(Receive))
    /\ WF_pathVars(OnPath(Forward))
    /\ WF_playoutVars(OnPlayout(MixShares)) /\ WF_playoutVars(OnPlayout(LookAgain))

\* SharePath's promise, where that machine runs: the repair of a broken picture is
\* always on its way, and the picture is repaired once the faults are over
\* (RecoveryPacer, recover_share, receive).
PathRepairs ==
    /\ [](part = "path" => RepairOnItsWay)
    /\ (part = "path" /\ ~sound /\ ~wasted) ~> (sound \/ wasted)
=============================================================================
