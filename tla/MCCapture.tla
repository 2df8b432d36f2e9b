------------------------------ MODULE MCCapture ------------------------------
(***************************************************************************)
(* Instances of a share's captures for TLC: the PipeWire capture with the  *)
(* share thread, the captures that are called back, the clocks that stamp  *)
(* what is captured, and the sound of the desktop. They share no state, so *)
(* a behaviour runs one.                                                   *)
(***************************************************************************)
EXTENDS Screencast, Callbacks, ShareClock, DesktopAudio

VARIABLE part    \* the machine that runs

TheSlips == {-7, -2, 0, 1, 6}

vars == <<part, screenVars, callbackVars, clockVars, registryVars>>

Init ==
    /\ part \in {"screen", "callbacks", "clock", "desktop"}
    /\ ScreencastInit /\ CallbacksInit /\ ClockInit /\ DesktopAudioInit
    /\ part # "screen" => takesGpu = FALSE /\ offers = {}
    /\ part # "callbacks" => platform = "macos"
    /\ part # "clock" => zero = 0

Next ==
    /\ UNCHANGED part
    /\ \/ /\ part = "screen" /\ ScreencastNext
          /\ UNCHANGED <<callbackVars, clockVars, registryVars>>
       \/ /\ part = "callbacks" /\ CallbacksNext
          /\ UNCHANGED <<screenVars, clockVars, registryVars>>
       \/ /\ part = "clock" /\ ClockEither
          /\ UNCHANGED <<screenVars, callbackVars, registryVars>>
       \/ /\ part = "desktop" /\ DesktopAudioNext
          /\ UNCHANGED <<screenVars, callbackVars, clockVars>>

Spec == Init /\ [][Next]_vars

\* ScreencastFair, where its machine runs.
OnScreen(A) == part = "screen" /\ A

FairSpec ==
    /\ Spec
    /\ \A b \in Bufs:
         /\ WF_screenVars(OnScreen(FillBuffer(b))) /\ SF_screenVars(OnScreen(Uses(b)))
         /\ WF_screenVars(OnScreen(Discards(b)))
    /\ WF_screenVars(OnScreen(PickFormat)) /\ WF_screenVars(OnScreen(OnControl))
    /\ WF_screenVars(OnScreen(NextDmabuf)) /\ WF_screenVars(OnScreen(NextFrame))
    /\ SF_screenVars(OnScreen(RefusePicture)) /\ SF_screenVars(OnScreen(EncodePicture))

\* The liveness of the PipeWire capture, where it is the one that runs (share.rs send_dmabuf,
\* linux.rs renegotiate, refuse).
PicturesKeepGoing == part = "screen" => PicturesGoOn
=============================================================================
