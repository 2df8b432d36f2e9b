------------------------------- MODULE MCKept -------------------------------
(***************************************************************************)
(* What is counted, kept and given back, for TLC: the slots the server     *)
(* gives to connections, its limiters of arrivals, enrollments, guesses    *)
(* and audio, the data directory it starts from, the profile pictures a    *)
(* window keeps, and the requests of a control stream.  They share no      *)
(* state, so a behaviour runs one of them.                                 *)
(***************************************************************************)
EXTENDS Admission, Limits, DataDir, Avatars, Link

CONSTANTS c1, c2, c3, home, office, net, r1, r2, r3, voice, screen, h1, h2, session, sender

VARIABLE part    \* the machine that runs

OneNetwork == [s \in {home, office} |-> net]

\* Two connections from one address, and one from another on the same network.
TwoAddresses == [c \in Sockets |-> IF c = c3 THEN office ELSE home]
SmallCaps ==
    [unauthenticated |-> [source |-> 2, network |-> 3, total |-> 3],
     handshakes |-> [source |-> 1, network |-> 2, total |-> 2],
     connections |-> [source |-> 1, network |-> 2, total |-> 2]]

SmallBursts == [source |-> 2, network |-> 3]
SmallWindows == [source |-> 1, network |-> 2, region |-> 2]
RunHosts == [r \in Runners |-> IF r = r3 THEN office ELSE home]
SmallTrack == [packets |-> 2, bytes |-> 3]
SmallIngress == [packets |-> 4, bytes |-> 7]

limitsVars == <<arrivalVars, runVars, guessVars, ingressVars>>
vars == <<part, admissionVars, limitsVars, dataDirVars, avatarsVars, linkVars>>

Init ==
    /\ part \in {"admission", "arrivals", "runs", "guesses", "ingress", "dataDir", "avatars", "link"}
    /\ AdmissionInit /\ ArrivalsInit /\ RunsInit /\ GuessesInit /\ IngressInit
    /\ DataDirInit /\ AvatarsInit /\ LinkInit
    /\ part # "dataDir" => dir = NotThere /\ dbFile = NoDatabase
    /\ part # "avatars" => onScreen = {} /\ disk = {}

\* A step of one machine, where it is the one that runs.
OfAdmission(A) ==
    part = "admission" /\ A /\ UNCHANGED <<part, limitsVars, dataDirVars, avatarsVars, linkVars>>
OfLimits(A) == A /\ UNCHANGED <<part, admissionVars, dataDirVars, avatarsVars, linkVars>>
OfDataDir(A) ==
    part = "dataDir" /\ A /\ UNCHANGED <<part, admissionVars, limitsVars, avatarsVars, linkVars>>
OfAvatars(A) ==
    part = "avatars" /\ A /\ UNCHANGED <<part, admissionVars, limitsVars, dataDirVars, linkVars>>
OfLink(A) ==
    part = "link" /\ A /\ UNCHANGED <<part, admissionVars, limitsVars, dataDirVars, avatarsVars>>

LimitsNext ==
    \/ part = "arrivals" /\ ArrivalsNext /\ UNCHANGED <<runVars, guessVars, ingressVars>>
    \/ part = "runs" /\ RunsNext /\ UNCHANGED <<arrivalVars, guessVars, ingressVars>>
    \/ part = "guesses" /\ GuessesNext /\ UNCHANGED <<arrivalVars, runVars, ingressVars>>
    \/ part = "ingress" /\ IngressNext /\ UNCHANGED <<arrivalVars, runVars, guessVars>>

Next ==
    \/ OfAdmission(AdmissionNext) \/ OfLimits(LimitsNext) \/ OfDataDir(DataDirNext)
    \/ OfAvatars(AvatarsNext) \/ OfLink(LinkNext)

\* AdmissionFairness, AvatarsFairness and LinkFairness.  As one machine runs in a behaviour, a
\* conjunct may speak for several of them.
Spec ==
    /\ Init /\ [][Next]_vars
    /\ WF_vars(OfAvatars(TakeAsk) \/ OfAdmission(GiveUp(c1)) \/ OfLink(Queues(session)))
    /\ WF_vars(OfAvatars(FetchSteps) \/ OfAdmission(GiveUp(c2)) \/ OfLink(Queues(sender)))
    /\ WF_vars(OfAvatars(Reconnected \/ GivesUp) \/ OfAdmission(GiveUp(c3))
               \/ OfLink(TimesOut(session) \/ RequestOver(session)))
    /\ WF_vars(OfAvatars(Draw(h1)) \/ OfAdmission(Drop(c1))
               \/ OfLink(TimesOut(sender) \/ RequestOver(sender)))
    /\ WF_vars(OfAvatars(Draw(h2)) \/ OfAdmission(Drop(c2)) \/ OfLink(Writes \/ WriteFails))
    /\ WF_vars(OfAdmission(Drop(c3))
               \/ OfLink(ReadsReply \/ ReadsEvent \/ (ReadFails /\ ~ReaderHeldUp)))
    /\ WF_vars(OfAdmission(Notify(c1)) \/ OfLink(Pumps))
    /\ WF_vars(OfAdmission(Notify(c2)) \/ OfLink(SessionTakes))
    /\ WF_vars(OfAdmission(Notify(c3)) \/ OfLink(\E picture \in BOOLEAN : Serves(picture)))
    /\ WF_vars(OfLink(ServerWrites))
=============================================================================
