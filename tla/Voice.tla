------------------------------- MODULE Voice -------------------------------
(***************************************************************************)
(* The app-wide audio thread (client-core media/voice.rs, with the capture *)
(* chain of audio.rs and the device choice of devices.rs). Each server     *)
(* session has a CallAudio handle; all handles and the app share one       *)
(* command channel, and the thread applies a command at a time between     *)
(* rounds of receiving, playing and capturing. Two pulls of the mic make   *)
(* one frame, which is sent when the gate was open in either.              *)
(***************************************************************************)
EXTENDS Integers, Sequences, FiniteSets, SequencesExt

CONSTANTS
    Tracks,        \* mic tracks the hub places a session on, one a placement
    Users,         \* others in the room
    HangoverPulls,
    Rates,         \* sample rates of device configs
    SampleRate,    \* SAMPLE_RATE
    MacOS,         \* whether the platform's open_rate is the default's
    MaxCalls, MaxQueued, MaxCommands, MaxPulls   \* bounds

ASSUME VoiceAssumption ==
    /\ HangoverPulls \in Nat \ {0} /\ SampleRate \in Rates /\ SampleRate % 100 = 0
    /\ MacOS \in BOOLEAN /\ MaxCalls \in Nat

NoTrack == "none"

VARIABLES
    handles,     \* live CallAudio handles, by id
    issued,      \* AudioEngine::calls
    channel,     \* the command channel
    call,        \* Worker::call
    chain,       \* Worker::chain
    talk,        \* [transmit, push_to_talk]
    io,          \* the open devices' rates, or <<>>
    out,         \* the last packet sent on each track: [at, pulls]
    given,       \* tracks the hub gave so far, and the one each call is on
    own,         \* what each call's own commands, taken alone, come to
    sentCommands, \* how many commands calls have sent
    pulls        \* pulls captured

voiceVars == <<handles, issued, channel, call, chain, talk, io, out, given, own, sentCommands, pulls>>

NewCall(id) ==
    [id |-> id, mic |-> NoTrack, muted |-> TRUE, deafened |-> FALSE,
     remotes |-> {}, streams |-> {}]

NewChain ==
    [clock |-> 0, frame |-> <<>>, open |-> FALSE, hangover |-> 0,
     transmitting |-> FALSE, gate |-> FALSE]

VoiceInit ==
    /\ handles = {} /\ issued = 0
    /\ channel = <<>>
    /\ call = NewCall(0)
    /\ chain = NewChain
    /\ talk \in [mode : {"ptt", "voice"}, down : {FALSE}]
    /\ io = <<>>
    /\ out = [t \in Tracks |-> [at |-> -1, pulls |-> <<>>]]
    /\ given = [used |-> {}, on |-> [id \in 1 .. MaxCalls |-> NoTrack]]
    /\ own = [id \in 0 .. MaxCalls |-> NewCall(id)]
    /\ sentCommands = 0
    /\ pulls = 0

-----------------------------------------------------------------------------
(* AudioEngine and CallAudio: whatever thread holds a handle sends.        *)

Send(command) ==
    /\ Len(channel) < MaxQueued
    /\ channel' = Append(channel, command)

CallOpens ==
    /\ issued < MaxCalls
    /\ issued' = issued + 1
    /\ handles' = handles \cup {issued + 1}
    /\ UNCHANGED <<channel, call, chain, talk, io, out, given, own, sentCommands, pulls>>

\* CallAudio::drop.
CallDrops ==
    /\ \E id \in handles :
        /\ handles' = handles \ {id}
        /\ Send([tag |-> "end", id |-> id])
    /\ UNCHANGED <<issued, call, chain, talk, io, out, given, own, sentCommands, pulls>>

CallCommands(id) ==
    [tag : {"send_on"}, id : {id}, track : (Tracks \ given.used) \cup {NoTrack, given.on[id]}]
    \cup [tag : {"muted"}, id : {id}, on : BOOLEAN]
    \cup [tag : {"deafened"}, id : {id}, on : {TRUE}]
    \cup [tag : {"listen", "forget"}, id : {id}, user : Users]
    \cup [tag : {"forget_all"}, id : {id}]

CallCommand ==
    /\ sentCommands < MaxCommands
    /\ sentCommands' = sentCommands + 1
    /\ \E id \in handles : \E c \in CallCommands(id) :
        /\ Send(c)
        /\ given' = IF c.tag # "send_on" THEN given
                    ELSE [used |-> given.used \cup {c.track}, on |-> [given.on EXCEPT ![id] = c.track]]
    /\ UNCHANGED <<handles, issued, call, chain, talk, io, out, own, pulls>>

\* AudioEngine::push_to_talk, and open_devices.
AppCommand ==
    /\ \E c \in [tag : {"ptt"}, down : BOOLEAN] \cup [tag : {"open"}] :
        /\ \A i \in DOMAIN channel : channel[i].tag # c.tag
        /\ c.tag = "open" => io = <<>>
        /\ c.tag = "ptt" => talk.mode = "ptt" /\ talk.down # c.down
        /\ Send(c)
    /\ UNCHANGED <<handles, issued, call, chain, talk, io, out, given, own, sentCommands, pulls>>

-----------------------------------------------------------------------------
(* devices.rs: the configs to open a device with, best first. A config is  *)
(* its rate and whether its sample format is one the callbacks take.       *)

Config == [rate : Rates, handled : BOOLEAN]

OpenRate(default) ==
    IF MacOS /\ default.rate % 100 = 0 THEN default.rate ELSE SampleRate

\* Mutant: the default config is always worth trying.
ConfigsAny(default, supported) ==
    {c \in supported : c.rate = OpenRate(default) /\ c.handled} \cup {default}

Configs(default, supported) ==
    {c \in supported : c.rate = OpenRate(default) /\ c.handled}
    \cup (IF default.rate % 100 = 0 THEN {default} ELSE {})

\* What opening the two devices may give: both open or neither does.
Opened ==
    LET usable == {r \in Rates : \E d, s \in Config : \E c \in Configs(d, {s}) : c.handled /\ c.rate = r}
    IN {<<>>} \cup (usable \X usable)

-----------------------------------------------------------------------------
(* Worker::apply and apply_call.                                           *)

\* CaptureChain::reset_clock.
\* Mutant: the frame begun on the old track goes on.
ResetClockOnly(ch) == [ch EXCEPT !.clock = 0]

ResetClock(ch) == [ch EXCEPT !.clock = 0, !.frame = <<>>, !.open = FALSE]

\* Mutant: naming a track again restarts its clock too.
MicChangedAlways(c, track) == TRUE

MicChanged(c, track) == track # c.mic

\* Mutant: a user forgotten keeps their stream in the mix.
ForgottenUser(c, user) == [c EXCEPT !.remotes = @ \ {user}]

Forget(c, user) == [c EXCEPT !.remotes = @ \ {user}, !.streams = @ \ {user}]

ApplyCall(c, cmd) ==
    CASE cmd.tag = "send_on" -> [c EXCEPT !.mic = cmd.track]
      [] cmd.tag = "muted" -> [c EXCEPT !.muted = cmd.on]
      [] cmd.tag = "deafened" -> [c EXCEPT !.deafened = cmd.on]
      [] cmd.tag = "listen" -> [c EXCEPT !.remotes = @ \cup {cmd.user}]
      [] cmd.tag = "forget" -> Forget(c, cmd.user)
      [] cmd.tag = "forget_all" -> [c EXCEPT !.remotes = {}, !.streams = {}]

\* Mutant: the end of any call ends the one in progress.
EndsAny(id) == TRUE

Ends(id) == id >= call.id

\* A newer call starts from nothing.
TakenOver(id) == IF id > call.id THEN NewCall(id) ELSE call

Apply ==
    /\ channel # <<>>
    /\ channel' = Tail(channel)
    /\ LET cmd == Head(channel) IN
        \/ /\ cmd.tag = "open"
           /\ io' \in Opened
           /\ chain' = [chain EXCEPT !.transmitting = FALSE, !.gate = FALSE]
           /\ UNCHANGED <<call, talk, own>>
        \/ /\ cmd.tag = "ptt"
           /\ talk' = [talk EXCEPT !.down = cmd.down]
           /\ UNCHANGED <<call, chain, io, own>>
        \/ /\ cmd.tag = "end"
           /\ call' = IF Ends(cmd.id) THEN NewCall(cmd.id) ELSE call
           /\ own' = [own EXCEPT ![cmd.id] = NewCall(cmd.id)]
           /\ UNCHANGED <<chain, talk, io>>
        \/ /\ cmd.tag \notin {"open", "ptt", "end"}
           /\ call' = IF cmd.id < call.id THEN call ELSE ApplyCall(TakenOver(cmd.id), cmd)
           /\ chain' = IF /\ cmd.id >= call.id /\ cmd.tag = "send_on"
                          /\ MicChanged(TakenOver(cmd.id), cmd.track)
                       THEN ResetClock(chain) ELSE chain
           /\ own' = [own EXCEPT ![cmd.id] = ApplyCall(@, cmd)]
           /\ UNCHANGED <<talk, io>>
    /\ UNCHANGED <<handles, issued, out, given, sentCommands, pulls>>

-----------------------------------------------------------------------------
(* Worker::receive and capture.                                            *)

\* A unit of someone listened to starts their stream in the mixer.
ReceiveVoice ==
    /\ \E user \in call.remotes \ call.streams :
        call' = [call EXCEPT !.streams = @ \cup {user}]
    /\ UNCHANGED <<handles, issued, channel, chain, talk, io, out, given, own, sentCommands, pulls>>

\* The transmit gate: push to talk, or voice activation with its hangover.
Hangover(loud) ==
    IF loud THEN HangoverPulls ELSE IF chain.hangover = 0 THEN 0 ELSE chain.hangover - 1

GateOpen(loud) == IF talk.mode = "ptt" THEN talk.down ELSE Hangover(loud) > 0

\* CaptureChain::capture for a pull of the mic, and what is sent of it.
Capture ==
    /\ io # <<>> /\ pulls < MaxPulls
    /\ pulls' = pulls + 1
    /\ \E loud \in (IF talk.mode = "ptt" THEN {FALSE} ELSE BOOLEAN) :
        LET transmit == ~call.muted /\ call.mic # NoTrack
            open == chain.open \/ (GateOpen(loud) /\ transmit)
            pull == [track |-> call.mic, let |-> GateOpen(loud) /\ transmit]
            frame == Append(chain.frame, pull)
            whole == Len(frame) = 2
        IN /\ chain' = [chain EXCEPT
                !.hangover = IF talk.mode = "ptt" THEN @ ELSE Hangover(loud),
                !.gate = GateOpen(loud),
                !.frame = IF whole THEN <<>> ELSE frame,
                !.open = IF whole THEN FALSE ELSE open,
                !.clock = IF whole THEN @ + 1 ELSE @,
                !.transmitting = IF whole THEN open ELSE @]
           /\ out' = IF whole /\ open /\ call.mic # NoTrack
                     THEN [out EXCEPT ![call.mic] = [at |-> chain.clock, pulls |-> frame]]
                     ELSE out
    /\ UNCHANGED <<handles, issued, channel, call, talk, io, given, own, sentCommands>>

VoiceNext ==
    \/ CallOpens \/ CallDrops \/ CallCommand \/ AppCommand
    \/ Apply
    \/ ReceiveVoice
    \/ Capture

VoiceSpec == VoiceInit /\ [][VoiceNext]_voiceVars

-----------------------------------------------------------------------------
(* Properties.                                                             *)

\* What the current call has come to is what its own commands say, whatever
\* commands and ends of other calls came between them in the channel.
OwnCommandsOnly ==
    [call EXCEPT !.streams = {}] = own[call.id]

\* A packet holds what the mic took while its own call sent on its own track:
\* nothing said in one call or room goes out in the next.
NothingLeaks ==
    \A t \in Tracks : LET taken == ToSet(out[t].pulls) IN
        /\ \A pull \in taken : pull.track = t
        /\ taken = {} \/ \E pull \in taken : pull.let

\* The packets of a track are stamped in the order they are sent, and never
\* go back, so no receiver's jitter buffer takes them for late ones.
StampsForward ==
    [][\A t \in Tracks : out'[t] # out[t] => out'[t].at > out[t].at]_voiceVars

\* Only those still listened to have a stream in the mix and can be shown as
\* speaking.
StreamsListened == call.streams \subseteq call.remotes

\* The thread's 10 ms pulls divide the rate of both devices into whole
\* frames, whatever configs the devices offer, so the audio never drifts.
WholePulls == \A i \in DOMAIN io : io[i] % 100 = 0

\* Calls, rooms and devices follow each other on one thread without a trace of the one in the
\* next (voice.rs, audio.rs, devices.rs).
CallsApart == [](OwnCommandsOnly /\ NothingLeaks /\ StreamsListened /\ WholePulls) /\ StampsForward

=============================================================================
